---------------------------- MODULE ThreadBlock ----------------------------
(***************************************************************************)
(* A CUDA thread block as the kernels of src/ops and src/layers use it:    *)
(* threads that run freely between two __syncthreads(), loops that stride  *)
(* over an array, and the tree that reduces shared memory to its cell 0.   *)
(***************************************************************************)
EXTENDS Integers

CONSTANT NumThreads         \* blockDim.x, 256 in the code

ASSUME NumThreadsAssumption ==
  NumThreads \in {1, 2, 4, 8, 16, 32, 64, 128, 256, 512, 1024}

VARIABLE waiting            \* the threads that reached the next barrier

Threads == 0 .. (NumThreads - 1)

Runs(t) == t \notin waiting

Arrive(t) == waiting' = waiting \cup {t}

(* __syncthreads: nobody passes before everybody came.                     *)
Synchronise == waiting = Threads /\ waiting' = {}

(* for (i = tid; i < n; i += blockDim.x)                                   *)
Mine(t, n) == {i \in 0 .. (n - 1) : i % NumThreads = t}

(* for (stride = blockDim.x / 2; stride > 0; stride >>= 1)                 *)
FirstStride == NumThreads \div 2

NextStride(stride) == stride \div 2

(* Mutant: one thread too many takes part.                                 *)
FoldsOneMore(t, stride) == t <= stride

Folds(t, stride) == t < stride

Other(t, stride) == t + stride
=============================================================================
