-------------------------- MODULE AttentionKernel --------------------------
(***************************************************************************)
(* One thread block of the attention kernels of src/ops/attention.cu, that *)
(* is, one query head of one row, with what the host prepares for it:      *)
(*                                                                         *)
(*   causal    flash_attention_kernel, over the tokens just fed            *)
(*   gathered  flash_attention_kv_cache_kernel, over the rows which        *)
(*             flash_attention_paged_kv_cache_cuda gathered from the pool  *)
(*   dense     flash_attention_paged_kv_cache_batch_kernel, over the pool  *)
(*             itself, through a dense copy of the block tables of a batch *)
(*                                                                         *)
(* and the serial loops that stand for each of them on the CPU.            *)
(*                                                                         *)
(* Numbers are replaced by where they come from: K and V of a token by the *)
(* tag <<row, position>>, a partial dot product by the bag of its terms, a *)
(* score and its weights by the tag of the K it was computed from, the     *)
(* running softmax and an element of the accumulator by the sequence of    *)
(* what was folded into them.                                              *)
(***************************************************************************)
EXTENDS ThreadBlock, BlockTableOps, Bags, FiniteSetsExt

CONSTANTS PageSize, HeadDim,
          Rows,             \* rows of the batch
          MaxLen            \* kv_seq_len of a row (bound)

ASSUME AttentionAssumption ==
  /\ PageSize \in Nat \ {0} /\ HeadDim \in Nat \ {0}
  /\ Rows \in Nat \ {0} /\ MaxLen \in Nat \ {0}

VARIABLES job,              \* which kernel, for which row of which batch
          phase,            \* the stretch between two barriers the block is in
          reduce, acc,      \* shared memory
          softmax,          \* m_shared and l_shared
          weights,          \* alpha_shared and beta_shared
          output

vars == <<waiting, job, phase, reduce, acc, softmax, weights, output>>

Dims == 0 .. (HeadDim - 1)
NoTag == <<0, 0>>
Tag(row, pos) == <<row, pos>>

-----------------------------------------------------------------------------
(* The batch: rows of different length with tables of their own, which may *)
(* hold a block more than the row needs.                                   *)

Tables == {f \in UNION {[1 .. n -> Blocks] : n \in 1 .. NumBlocks} :
             \A i, j \in DOMAIN f : f[i] = f[j] => i = j}

Needed(len) == NumRequiredBlocks(len, PageSize)

Jobs ==
  {j \in [kind : {"causal", "gathered", "dense"}, row : 1 .. Rows,
          lens : [1 .. Rows -> 1 .. MaxLen], tables : [1 .. Rows -> Tables]] :
     /\ \A r \in 1 .. Rows : Len(j.tables[r]) - Needed(j.lens[r]) \in {0, 1}
     /\ \A r, s \in 1 .. Rows : \A i \in DOMAIN j.tables[r], k \in DOMAIN j.tables[s] :
          j.tables[r][i] = j.tables[s][k] => r = s}

SlotOf(row, pos) == PhysicalTokenIndex([tables |-> job.tables], row, pos, PageSize)

(* What update_layer left in the pool.                                     *)
Pool(slot) ==
  LET held == {w \in (1 .. Rows) \X (0 .. (MaxLen - 1)) :
                 w[2] < job.lens[w[1]] /\ SlotOf(w[1], w[2]) = slot}
  IN  IF held = {} THEN NoTag ELSE CHOOSE w \in held : TRUE

(* dense_block_tables: one line per row, padded with -1.                   *)
DenseWidth == Max({Needed(job.lens[r]) : r \in 1 .. Rows})

Dense ==
  [i \in 0 .. (Rows * DenseWidth - 1) |->
     LET row == (i \div DenseWidth) + 1
         block == i % DenseWidth
     IN  IF block < Needed(job.lens[row]) THEN job.tables[row][block + 1] ELSE -1]

(* Mutant: the lines are as long as the row needs.                         *)
DenseIndexPacked(row, block) == (row - 1) * Needed(job.lens[row]) + block

DenseIndex(row, block) == (row - 1) * DenseWidth + block

DenseSlot(row, pos) ==
  Dense[DenseIndex(row, pos \div PageSize)] * PageSize + (pos % PageSize)

(* The token whose K and V the block reads at key_token.                   *)
KeyAt(key) ==
  CASE job.kind = "causal"   -> Tag(job.row, key)
    [] job.kind = "gathered" -> Pool(SlotOf(job.row, key))
    [] job.kind = "dense"    -> Pool(DenseSlot(job.row, key))

KvSeqLen == job.lens[job.row]

-----------------------------------------------------------------------------
(* The CPU.  A row of causal attention sees the tokens up to its own, one  *)
(* of a cache the kv_seq_len rows which the cache holds or which were      *)
(* gathered through its table; a batch is computed row by row.             *)

CpuKeys ==
  [k \in 1 .. KvSeqLen |->
     IF job.kind = "causal" THEN Tag(job.row, k - 1) ELSE Pool(SlotOf(job.row, k - 1))]

(* One pass with a running softmax: plain and contiguous attention.        *)
CpuRun[k \in 0 .. KvSeqLen] ==
  IF k = 0 THEN [softmax |-> << >>, acc |-> [d \in Dims |-> << >>]]
  ELSE [softmax |-> Append(CpuRun[k - 1].softmax, CpuKeys[k]),
        acc |-> [d \in Dims |-> Append(CpuRun[k - 1].acc[d], <<CpuKeys[k], CpuKeys[k]>>)]]

CpuOnePass == [d \in Dims |-> <<CpuRun[KvSeqLen].acc[d], CpuRun[KvSeqLen].softmax>>]

(* All scores, then their sum, then the elements: paged attention.         *)
CpuTwoPasses ==
  LET scores == CpuKeys
  IN  [d \in Dims |-> <<[k \in DOMAIN CpuKeys |-> <<CpuKeys[k], scores[k]>>], scores>>]

CpuOutputs == IF job.kind = "causal" THEN {CpuOnePass} ELSE {CpuOnePass, CpuTwoPasses}

-----------------------------------------------------------------------------
(* The kernel.  What a thread does between two barriers is one step; that  *)
(* no finer step matters is RaceFree.                                      *)

At(at) == [at |-> at, key |-> phase.key, stride |-> 0]

Init ==
  /\ job \in Jobs
  /\ phase = [at |-> "init", key |-> 0, stride |-> 0]
  /\ waiting = {}
  /\ reduce = [t \in Threads |-> EmptyBag]
  /\ acc = [d \in Dims |-> <<NoTag>>]
  /\ softmax = <<NoTag>> /\ weights = NoTag
  /\ output = [d \in Dims |-> << >>]

Working(t, at) == phase.at = at /\ Runs(t) /\ Arrive(t) /\ UNCHANGED <<job, phase>>

Clear(t) ==
  /\ Working(t, "init")
  /\ acc' = [d \in Dims |-> IF d \in Mine(t, HeadDim) THEN << >> ELSE acc[d]]
  /\ softmax' = IF t = 0 THEN << >> ELSE softmax
  /\ UNCHANGED <<reduce, weights, output>>

Dot(t) ==
  /\ Working(t, "dot")
  /\ reduce' = [reduce EXCEPT ![t] = SetToBag({KeyAt(phase.key)} \X Mine(t, HeadDim))]
  /\ UNCHANGED <<acc, softmax, weights, output>>

(* Mutant: the barrier of the loop is inside its if.                       *)
FoldBarrierInside(t) ==
  /\ Folds(t, phase.stride)
  /\ Working(t, "reduce")
  /\ reduce' = [reduce EXCEPT ![t] = @ (+) reduce[Other(t, phase.stride)]]
  /\ UNCHANGED <<acc, softmax, weights, output>>

Fold(t) ==
  /\ Working(t, "reduce")
  /\ reduce' = IF Folds(t, phase.stride)
               THEN [reduce EXCEPT ![t] = @ (+) reduce[Other(t, phase.stride)]]
               ELSE reduce
  /\ UNCHANGED <<acc, softmax, weights, output>>

ScoreOf(bag) ==
  IF bag = SetToBag({KeyAt(phase.key)} \X Dims) THEN KeyAt(phase.key) ELSE NoTag

(* Thread 0 alone updates the running softmax.                             *)
Rescale(t) ==
  /\ Working(t, "score")
  /\ IF t = 0
     THEN softmax' = Append(softmax, ScoreOf(reduce[0])) /\ weights' = ScoreOf(reduce[0])
     ELSE UNCHANGED <<softmax, weights>>
  /\ UNCHANGED <<reduce, acc, output>>

Accumulate(t) ==
  /\ Working(t, "accumulate")
  /\ acc' = [d \in Dims |-> IF d \in Mine(t, HeadDim)
                            THEN Append(acc[d], <<KeyAt(phase.key), weights>>) ELSE acc[d]]
  /\ UNCHANGED <<reduce, softmax, weights, output>>

Store(t) ==
  /\ Working(t, "store")
  /\ output' = [d \in Dims |-> IF d \in Mine(t, HeadDim) THEN <<acc[d], softmax>> ELSE output[d]]
  /\ UNCHANGED <<reduce, acc, softmax, weights>>

KeysLeft == phase.key + 1 < KvSeqLen

Reducing(stride) == IF stride > 0 THEN [At("reduce") EXCEPT !.stride = stride] ELSE At("score")

NextPhase ==
  CASE phase.at = "init"       -> At("dot")
    [] phase.at = "dot"        -> Reducing(FirstStride)
    [] phase.at = "reduce"     -> Reducing(NextStride(phase.stride))
    [] phase.at = "score"      -> At("accumulate")
    [] phase.at = "accumulate" -> IF KeysLeft THEN [At("dot") EXCEPT !.key = @ + 1]
                                  ELSE At("store")
    [] phase.at = "store"      -> At("done")

Barrier ==
  /\ Synchronise
  /\ phase' = NextPhase
  /\ UNCHANGED <<job, reduce, acc, softmax, weights, output>>

Next ==
  \/ \E t \in Threads : Clear(t) \/ Dot(t) \/ Fold(t) \/ Rescale(t) \/ Accumulate(t) \/ Store(t)
  \/ Barrier

Spec == Init /\ [][Next]_vars

(* The scheduler of the GPU lets every thread of a resident block run.     *)
FairSpec == Spec /\ WF_vars(Next)

-----------------------------------------------------------------------------
(* The shared cells a thread touches between two barriers.                 *)
AccCells(t) == {<<"acc", d>> : d \in Mine(t, HeadDim)}
Softmax == {<<"softmax", 0>>}
Weights == {<<"weights", 0>>}
Reduce(ts) == {<<"reduce", t>> : t \in ts}
OfThread0(t, cells) == IF t = 0 THEN cells ELSE {}

Writes(t) ==
  CASE phase.at = "init"       -> AccCells(t) \cup OfThread0(t, Softmax)
    [] phase.at = "dot"        -> Reduce({t})
    [] phase.at = "reduce"     -> IF Folds(t, phase.stride) THEN Reduce({t}) ELSE {}
    [] phase.at = "score"      -> OfThread0(t, Softmax \cup Weights)
    [] phase.at = "accumulate" -> AccCells(t)
    [] OTHER                   -> {}

Reads(t) ==
  CASE phase.at = "reduce"     -> IF Folds(t, phase.stride)
                                  THEN Reduce({t, Other(t, phase.stride)}) ELSE {}
    [] phase.at = "score"      -> OfThread0(t, Softmax \cup Reduce({0}))
    [] phase.at = "accumulate" -> AccCells(t) \cup Weights
    [] phase.at = "store"      -> AccCells(t) \cup Softmax
    [] OTHER                   -> {}

(* Between two barriers no thread writes a shared cell that another one    *)
(* reads or writes, and every cell read is one of the array.               *)
RaceFree ==
  /\ \A t, u \in Threads : t # u => Writes(t) \cap (Writes(u) \cup Reads(u)) = {}
  /\ \A t \in Threads : \A c \in Reads(t) : c[1] = "reduce" => c[2] \in Threads

(* Every element of the output is the value of each token of the row, its  *)
(* own and no other's, in order and once, weighted by the token's own      *)
(* score, and divided by the sum over the same scores: the three kernels   *)
(* compute the attention of the row over its kv_seq_len tokens, which is   *)
(* also what the CPU computes for it.                                      *)
Attends ==
  LET tokens == [k \in 1 .. KvSeqLen |-> Tag(job.row, k - 1)]
  IN  phase.at = "done" =>
        /\ output = [d \in Dims |->
                       <<[k \in 1 .. KvSeqLen |-> <<tokens[k], tokens[k]>>], tokens>>]
        /\ CpuOutputs = {output}

(* Every thread gets through all barriers: the strides reach 0 and the     *)
(* loop over the keys ends.                                                *)
KernelEnds == <>(phase.at = "done")
=============================================================================
