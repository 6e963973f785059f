--------------------------- MODULE ElementKernels ---------------------------
(***************************************************************************)
(* The kernels that give every element, or pair of elements, a thread of   *)
(* its own: embedding, rotary, the bias of linear behind the cuBLAS call,  *)
(* silu_and_mul and add.  Threads of all blocks run in any order and touch *)
(* row-major memory by flat indices that they take apart themselves; the   *)
(* CPU versions loop over rows and columns instead.                        *)
(*                                                                         *)
(* Tensors are functions from flat offsets to terms; a term names the      *)
(* offsets of the operands, so that two results agree if they were         *)
(* computed from the same elements.                                        *)
(***************************************************************************)
EXTENDS Integers, Sequences

CONSTANTS BlockDim,         \* threads of a block, 256 in the code
          IntBits,          \* width of int, 32 in the code
          Lookups,          \* embeddings: [ids, vocab_size, hidden_size]
          Rotations,        \* [num_tokens, num_heads, head_dim]
          Products,         \* linear layers: [m, k, n, has_bias]
          Lengths           \* elements of silu_and_mul and add

ASSUME ElementKernelsAssumption == BlockDim \in Nat \ {0} /\ IntBits \in Nat \ {0}

(* What the layers check before they run.                                  *)
ASSUME ShapesAssumption ==
  /\ \A ids \in Lookups.ids : ids \in Seq(Int)
  /\ Lookups.vocab_size \subseteq Nat \ {0} /\ Lookups.hidden_size \subseteq Nat \ {0}
  /\ Rotations.num_tokens \subseteq Nat /\ Rotations.num_heads \subseteq Nat
  /\ \A d \in Rotations.head_dim : d \in Nat \ {0} /\ d % 2 = 0
  /\ Products.m \subseteq Nat /\ Products.k \subseteq Nat \ {0} /\ Products.n \subseteq Nat \ {0}
  /\ Lengths \subseteq Nat

ASSUME IntAssumption ==
  2^(IntBits - 1) \in Nat \ {0} /\ 2^IntBits = 2 * 2^(IntBits - 1)

VARIABLES job,              \* the operation and its shapes
          out,              \* the output tensor on the device
          error_flag,       \* of the embedding
          ran,              \* the threads that have run
          host              \* "launched", "returned" or "threw"

vars == <<job, out, error_flag, ran, host>>

Offsets(n) == 0 .. (n - 1)
Unwritten == <<"unwritten">>

(* Cells <<offset, value>> as a tensor, and a tensor they are stored in.   *)
AsTensor(cells) == [o \in {c[1] : c \in cells} |-> (CHOOSE c \in cells : c[1] = o)[2]]

Stored(tensor, cells) ==
  LET new == AsTensor(cells)
  IN  [o \in DOMAIN tensor \cup DOMAIN new |-> IF o \in DOMAIN new THEN new[o] ELSE tensor[o]]

-----------------------------------------------------------------------------
(* What one thread does, by its index: the cells <<offset, value>> it      *)
(* writes.                                                                 *)
EmbeddingToken(idx) == job.ids[(idx \div job.hidden_size) + 1]
OutOfRange(id) == id < 0 \/ id >= job.vocab_size

EmbeddingThread(idx) ==
  IF OutOfRange(EmbeddingToken(idx)) THEN {}
  ELSE {<<idx, <<"w", EmbeddingToken(idx) * job.hidden_size + (idx % job.hidden_size)>>>>}

Rotated(x1, x2, i, token) ==
  [first |-> <<"x1 c - x2 s", x1, x2, i, token>>, second |-> <<"x2 c + x1 s", x1, x2, i, token>>]

RotaryThread(idx) ==
  LET half == job.head_dim \div 2
      i == idx % half
      tmp == idx \div half
      head == tmp % job.num_heads
      token == tmp \div job.num_heads
      base == (token * job.num_heads + head) * job.head_dim
      r == Rotated(base + i, base + i + half, i, token)
  IN  {<<base + i, r.first>>, <<base + i + half, r.second>>}

BiasThread(idx) == {<<idx, [out[idx] EXCEPT !.bias = idx % job.n]>>}

PointwiseThread(idx) == {<<idx, <<job.op, idx, idx>>>>}

Thread(idx) ==
  CASE job.op = "embedding" -> EmbeddingThread(idx)
    [] job.op = "rotary"    -> RotaryThread(idx)
    [] job.op = "linear"    -> BiasThread(idx)
    [] OTHER                -> PointwiseThread(idx)

Elements(j) ==
  CASE j.op = "embedding" -> Len(j.ids) * j.hidden_size
    [] j.op = "rotary"    -> j.num_tokens * j.num_heads * j.head_dim
    [] j.op = "linear"    -> j.m * j.n
    [] OTHER              -> j.length

(* The threads a launch asks for, which is what each kernel compares its   *)
(* index with: a rotary thread has two elements, and linear launches none  *)
(* without a bias.                                                         *)
Total(j) ==
  CASE j.op = "rotary" -> j.num_tokens * j.num_heads * (j.head_dim \div 2)
    [] j.op = "linear" -> IF j.has_bias THEN Elements(j) ELSE 0
    [] OTHER           -> Elements(j)

-----------------------------------------------------------------------------
(* cuda_make_1d_grid: cdiv<int> narrows an int64_t.                        *)
Narrowed(n) == ((n + 2^(IntBits - 1)) % 2^IntBits) - 2^(IntBits - 1)
FitsInt(n) == n + BlockDim - 1 < 2^(IntBits - 1)

Blocks(n) ==
  LET m == Narrowed(n) + BlockDim - 1
  IN  IF m >= 0 THEN m \div BlockDim ELSE - ((- m) \div BlockDim)

Threads == Offsets(Blocks(Total(job)) * BlockDim)
Active == {idx \in Threads : idx < Total(job)}

-----------------------------------------------------------------------------
(* cublasSgemm: C = op(A) op(B) over column-major memory.                  *)
Gemm(transA, transB, rows, cols, inner, lda, ldb, ldc) ==
  LET a(i, p) == IF transA THEN p + i * lda ELSE i + p * lda
      b(p, c) == IF transB THEN c + p * ldb ELSE p + c * ldb
      cell(i, c) == [sum |-> [p \in 1 .. inner |-> <<b(p - 1, c), a(i, p - 1)>>], bias |-> "none"]
  IN  [o \in {i + c * ldc : i \in Offsets(rows), c \in Offsets(cols)} |->
         cell(o % ldc, o \div ldc)]

Product(j) == Gemm(TRUE, FALSE, j.n, j.m, j.k, j.k, j.k, j.n)

-----------------------------------------------------------------------------
(* The loops of the CPU versions; an embedding throws at a token that is   *)
(* not in the vocabulary.                                                  *)
CpuThrows == job.op = "embedding" /\ \E t \in DOMAIN job.ids : OutOfRange(job.ids[t])

CpuEmbedding ==
  {<<t * job.hidden_size + h, <<"w", job.ids[t + 1] * job.hidden_size + h>>>> :
     t \in Offsets(Len(job.ids)), h \in Offsets(job.hidden_size)}

CpuRotary ==
  LET half == job.head_dim \div 2
      pair(token, head, i) ==
        LET base == (token * job.num_heads + head) * job.head_dim
            r == Rotated(base + i, base + i + half, i, token)
        IN  {<<base + i, r.first>>, <<base + i + half, r.second>>}
  IN  UNION {pair(token, head, i) :
               token \in Offsets(job.num_tokens), head \in Offsets(job.num_heads), i \in Offsets(half)}

CpuLinear ==
  {<<row * job.n + col,
     [sum |-> [p \in 1 .. job.k |-> <<row * job.k + p - 1, col * job.k + p - 1>>],
      bias |-> IF job.has_bias THEN col ELSE "none"]>> :
     row \in Offsets(job.m), col \in Offsets(job.n)}

CpuPointwise == {<<i, <<job.op, i, i>>>> : i \in Offsets(job.length)}

CpuOutput ==
  AsTensor(CASE job.op = "embedding" -> CpuEmbedding
             [] job.op = "rotary"    -> CpuRotary
             [] job.op = "linear"    -> CpuLinear
             [] OTHER                -> CpuPointwise)

-----------------------------------------------------------------------------
(* check_add_args refuses an empty tensor on either device.                *)
Jobs ==
  [op : {"embedding"}, ids : Lookups.ids, vocab_size : Lookups.vocab_size,
   hidden_size : Lookups.hidden_size]
    \cup [op : {"rotary"}, num_tokens : Rotations.num_tokens, num_heads : Rotations.num_heads,
          head_dim : Rotations.head_dim]
    \cup [op : {"linear"}, m : Products.m, k : Products.k, n : Products.n, has_bias : BOOLEAN]
    \cup [op : {"silu_and_mul"}, length : Lengths]
    \cup [op : {"add"}, length : Lengths \ {0}]

(* The kernel is queued and the host goes on; what the kernel works on is  *)
(* there, the product of cuBLAS included, which was queued before it.      *)
Init ==
  /\ job \in Jobs
  /\ out = IF job.op = "linear" THEN Product(job)
           ELSE [o \in Offsets(Elements(job)) |-> Unwritten]
  /\ error_flag = 0 /\ ran = {} /\ host = "launched"

(* A grid that is not positive is no valid configuration.                  *)
Launched == Total(job) = 0 \/ Blocks(Total(job)) > 0

LaunchFails ==
  /\ host = "launched" /\ ~ Launched
  /\ host' = "threw" /\ UNCHANGED <<job, out, error_flag, ran>>

(* Any thread of any block.  An index beyond the total returns at once.    *)
Run(idx) ==
  /\ Launched /\ idx \in Active \ ran
  /\ out' = Stored(out, Thread(idx))
  /\ error_flag' = IF job.op = "embedding" /\ OutOfRange(EmbeddingToken(idx))
                   THEN 1 ELSE error_flag
  /\ ran' = ran \cup {idx}
  /\ UNCHANGED <<job, host>>

(* Mutant: the flag is read while the kernel may still run.                *)
FlagReadableAtOnce == TRUE

(* copy_to_cpu waits for the kernel before it.                             *)
FlagReadable == Active \subseteq ran

ReadFlag ==
  /\ host = "launched" /\ Launched /\ job.op = "embedding" /\ FlagReadable
  /\ host' = IF error_flag # 0 THEN "threw" ELSE "returned"
  /\ UNCHANGED <<job, out, error_flag, ran>>

(* The others return without waiting; their readers come later in the      *)
(* stream.                                                                 *)
ReturnAtOnce ==
  /\ host = "launched" /\ Launched /\ job.op # "embedding"
  /\ host' = "returned" /\ UNCHANGED <<job, out, error_flag, ran>>

Next ==
  \/ \E idx \in Threads : Run(idx)
  \/ LaunchFails \/ ReadFlag \/ ReturnAtOnce

Spec == Init /\ [][Next]_vars

-----------------------------------------------------------------------------
(* In whatever order the threads ran, the device has computed what the CPU *)
(* loops compute, every element of it, and has thrown if they throw; as    *)
(* long as the number of threads is an int.                                *)
SameAsLoops ==
  FitsInt(Total(job)) =>
    /\ host = "threw" => CpuThrows
    /\ host = "returned" => ~ CpuThrows
    /\ ~ CpuThrows /\ Active \subseteq ran => out = CpuOutput
=============================================================================
