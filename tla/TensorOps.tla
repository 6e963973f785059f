----------------------------- MODULE TensorOps -----------------------------
(***************************************************************************)
(* Tensor (src/core/tensor.cpp) and the counters of                        *)
(* tensor_memory_tracker.cpp, as operators on a memory m of three fields:  *)
(*                                                                         *)
(*   heap     the allocations there are: address -> size and contents      *)
(*   obj      the Tensor objects there are: name -> [data, shape, dtype]   *)
(*   current  current_bytes of the tracker                                 *)
(*   balance  total_allocated_bytes - total_freed_bytes                    *)
(*                                                                         *)
(* Sizes are counted in elements; an address is used again as soon as it   *)
(* is free, as malloc and cudaMalloc do.                                   *)
(***************************************************************************)
EXTENDS Integers, Sequences, FiniteSetsExt

CONSTANT Addrs              \* the addresses malloc can give out (bound)

ASSUME AddrsAssumption == Addrs \subseteq Nat \ {0} /\ IsFiniteSet(Addrs)

Null == 0
Unset == <<"unset">>        \* what new memory holds

NoTensor == [data |-> Null, shape |-> << >>, dtype |-> "FP32"]

NumElements(shape) ==
  LET upto[i \in 0 .. Len(shape)] == IF i = 0 THEN 1 ELSE upto[i - 1] * shape[i]
  IN  IF shape = << >> \/ \E i \in DOMAIN shape : shape[i] <= 0 THEN 0 ELSE upto[Len(shape)]

Owned(m, o) == o \in DOMAIN m.obj /\ m.obj[o].data # Null

Contents(m, o) == m.heap[m.obj[o].data].what

Drop(f, x) == [y \in DOMAIN f \ {x} |-> f[y]]
Put(f, x, v) == [y \in DOMAIN f \cup {x} |-> IF y = x THEN v ELSE f[y]]

-----------------------------------------------------------------------------
RecordAllocate(m, bytes) == [m EXCEPT !.current = @ + bytes, !.balance = @ + bytes]

RecordFree(m, bytes) ==
  [m EXCEPT !.current = IF @ >= bytes THEN @ - bytes ELSE 0, !.balance = @ - bytes]

-----------------------------------------------------------------------------
Unused(m) == Addrs \ DOMAIN m.heap

(* No bytes need no memory.                                                *)
Construct(m, o, shape, dtype) ==
  LET bytes == NumElements(shape)
      a == Min(Unused(m))
  IN  IF bytes = 0
      THEN [m EXCEPT !.obj = Put(@, o, [data |-> Null, shape |-> shape, dtype |-> dtype])]
      ELSE RecordAllocate(
             [m EXCEPT !.obj = Put(@, o, [data |-> a, shape |-> shape, dtype |-> dtype]),
                       !.heap = Put(@, a, [bytes |-> bytes, what |-> Unset])],
             bytes)

Release(m, o) ==
  IF ~ Owned(m, o) THEN m
  ELSE [RecordFree(m, NumElements(m.obj[o].shape)) EXCEPT
          !.heap = Drop(@, m.obj[o].data), !.obj[o].data = Null]

Destroy(m, o) == [Release(m, o) EXCEPT !.obj = Drop(@, o)]

DestroyAll(m, os) == FoldSet(LAMBDA o, left : Destroy(left, o), m, os)

(* The pointer and the shape change hands; a moved vector is empty.        *)
Moved(m, dst, src) ==
  [m EXCEPT !.obj = Put([@ EXCEPT ![src] = [@ EXCEPT !.data = Null, !.shape = << >>]],
                        dst, m.obj[src])]

(* Mutant: what the target owned is not released.                          *)
MoveAssignLeaks(m, dst, src) == IF dst = src THEN m ELSE Moved(m, dst, src)

MoveAssign(m, dst, src) == IF dst = src THEN m ELSE Moved(Release(m, dst), dst, src)

(* copy_from_cpu, or an operation that writes all of the tensor.           *)
Fill(m, o, what) == [m EXCEPT !.heap[m.obj[o].data].what = what]
=============================================================================
