----------------------------- MODULE RowKernels -----------------------------
(***************************************************************************)
(* The two reductions that give a row a thread block: argmax over a row of *)
(* logits (src/ops/argmax.cu; argmax_last_token has one block, and         *)
(* argmax_each_row one for each row) and rms_norm over a row of a hidden   *)
(* state (src/layers/rms_norm.cu), each beside the loop of the CPU.        *)
(*                                                                         *)
(* A float is one of a few values in order: Infinity below, the smallest   *)
(* finite float -FLT_MAX, larger ones, and NaN, which compares with        *)
(* nothing.  A sum of squares is how often each element was added.         *)
(***************************************************************************)
EXTENDS ThreadBlock, Sequences

CONSTANTS MaxVocab,         \* longest row (bound)
          Larger            \* distinct floats above -FLT_MAX

ASSUME ArgmaxAssumption == MaxVocab \in Nat \ {0} /\ Larger \in Nat \ {0}

VARIABLES kernel,           \* "argmax" or "rms_norm"
          logits,           \* the row, index i at i + 1
          stage,            \* the stretch between two barriers the block is in
          values, indices,  \* shared_values (shared in rms_norm) and shared_indices
          token,            \* out_token_id
          normed            \* out_row of rms_norm

rowVars == <<waiting, kernel, logits, stage, values, indices, token, normed>>

NaN == -2
NegInfinity == -1
NegFltMax == 0
Floats == NaN .. Larger

Above(x, y) == x # NaN /\ y # NaN /\ x > y
Same(x, y) == x # NaN /\ x = y

Vocab == Len(logits)
Ids == 0 .. (Vocab - 1)
Logit(i) == logits[i + 1]

(* for (i in ids, upwards) if (value > best_value): among the values above *)
(* the start, the first of the largest; nothing when there is none.        *)
Best(ids, start) ==
  {i \in ids : /\ Above(Logit(i), start)
               /\ \A k \in ids : ~ Above(Logit(k), Logit(i)) /\ (Same(Logit(k), Logit(i)) => i <= k)}

BestOr(ids, start, id) ==
  IF Best(ids, start) = {} THEN id ELSE CHOOSE i \in Best(ids, start) : TRUE

(* argmax_last_token_cpu starts from the first logit.                      *)
CpuToken == BestOr(Ids \ {0}, Logit(0), 0)

(* rms_norm_forward_cpu adds every square once; what it writes at h is     *)
(* made of x[h], weight[h] and that sum.                                   *)
SquaresOf(ids) == [i \in Ids |-> IF i \in ids THEN 1 ELSE 0]
CpuNormed == [h \in Ids |-> <<h, SquaresOf(Ids)>>]

-----------------------------------------------------------------------------
(* What rms_norm does to a row does not depend on the values in it.        *)
RowInit ==
  /\ kernel \in {"argmax", "rms_norm"}
  /\ logits \in UNION {[1 .. n -> IF kernel = "argmax" THEN Floats ELSE {NegFltMax}] :
                         n \in 1 .. MaxVocab}
  /\ stage = [at |-> "scan", stride |-> 0]
  /\ waiting = {}
  /\ values = [t \in Threads |-> NaN] /\ indices = [t \in Threads |-> 0]
  /\ token = 0 /\ normed = [h \in Ids |-> NaN]

RowWorking(t, at) == stage.at = at /\ Runs(t) /\ Arrive(t) /\ UNCHANGED <<kernel, logits, stage>>

(* The loop over the thread's own logits, from -FLT_MAX and id 0.          *)
Scan(t) ==
  LET mine == Mine(t, Vocab)
  IN  /\ kernel = "argmax" /\ RowWorking(t, "scan")
      /\ values' = [values EXCEPT ![t] = IF Best(mine, NegFltMax) = {} THEN NegFltMax
                                         ELSE Logit(BestOr(mine, NegFltMax, 0))]
      /\ indices' = [indices EXCEPT ![t] = BestOr(mine, NegFltMax, 0)]
      /\ UNCHANGED <<token, normed>>

SumSquares(t) ==
  /\ kernel = "rms_norm" /\ RowWorking(t, "scan")
  /\ values' = [values EXCEPT ![t] = SquaresOf(Mine(t, Vocab))]
  /\ UNCHANGED <<indices, token, normed>>

(* Mutant: ties stay with the lower thread.                                *)
BetterIgnoringTies(t, u) == Above(values[u], values[t])

Better(t, u) ==
  \/ Above(values[u], values[t])
  \/ Same(values[u], values[t]) /\ indices[u] < indices[t]

FoldBest(t) ==
  LET other == Other(t, stage.stride)
  IN  /\ kernel = "argmax" /\ RowWorking(t, "reduce")
      /\ IF Folds(t, stage.stride) /\ Better(t, other)
         THEN /\ values' = [values EXCEPT ![t] = values[other]]
              /\ indices' = [indices EXCEPT ![t] = indices[other]]
         ELSE UNCHANGED <<values, indices>>
      /\ UNCHANGED <<token, normed>>

Add(t) ==
  /\ kernel = "rms_norm" /\ RowWorking(t, "reduce")
  /\ values' = IF Folds(t, stage.stride)
               THEN [values EXCEPT ![t] = [i \in Ids |-> @[i] + values[Other(t, stage.stride)][i]]]
               ELSE values
  /\ UNCHANGED <<indices, token, normed>>

StoreToken(t) ==
  /\ kernel = "argmax" /\ RowWorking(t, "store")
  /\ token' = IF t = 0 THEN indices[0] ELSE token
  /\ UNCHANGED <<values, indices, normed>>

(* Every thread divides by the sum in cell 0.                              *)
Scale(t) ==
  /\ kernel = "rms_norm" /\ RowWorking(t, "store")
  /\ normed' = [h \in Ids |-> IF h \in Mine(t, Vocab) THEN <<h, values[0]>> ELSE normed[h]]
  /\ UNCHANGED <<values, indices, token>>

RowReducing(stride) ==
  [at |-> IF stride > 0 THEN "reduce" ELSE "store", stride |-> stride]

NextStage ==
  CASE stage.at = "scan"   -> RowReducing(FirstStride)
    [] stage.at = "reduce" -> RowReducing(NextStride(stage.stride))
    [] stage.at = "store"  -> [at |-> "done", stride |-> 0]

RowBarrier ==
  /\ Synchronise
  /\ stage' = NextStage
  /\ UNCHANGED <<kernel, logits, values, indices, token, normed>>

RowNext ==
  \/ \E t \in Threads : Scan(t) \/ FoldBest(t) \/ StoreToken(t)
  \/ \E t \in Threads : SumSquares(t) \/ Add(t) \/ Scale(t)
  \/ RowBarrier

RowSpec == RowInit /\ [][RowNext]_rowVars

-----------------------------------------------------------------------------
(* The kernels return what the CPU loops return, whatever the order of     *)
(* their threads and however many logits tie: the same token, for every    *)
(* row that has a logit above -FLT_MAX and does not begin with NaN (on     *)
(* other rows the two differ: the CPU starts from the first logit, CUDA    *)
(* from -FLT_MAX), and every element scaled by a sum that has every square *)
(* once.                                                                   *)
SameAsCpu ==
  stage.at = "done" =>
    IF kernel = "rms_norm" THEN normed = CpuNormed
    ELSE Logit(0) # NaN /\ (\E i \in Ids : Above(Logit(i), NegFltMax)) => token = CpuToken
=============================================================================
