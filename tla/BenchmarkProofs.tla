-------------------------- MODULE BenchmarkProofs --------------------------
(***************************************************************************)
(* The runs of the benchmark, for any number of requests, lengths, pages   *)
(* and layers: none is refused anything, each serves all its requests and  *)
(* gives every block back.  The pool's size is computed in tokens but it   *)
(* is given out in blocks, request by request, so this takes pages of      *)
(* slack + 2 tokens at most; then there is a share of the pool, its quota, *)
(* for every request, and no request ever needs more.                      *)
(***************************************************************************)
EXTENDS Benchmark, PagedEngineProofs

USE NumBlocksAssumption

-----------------------------------------------------------------------------
(* The size of the pool.                                                   *)

(* NumRequiredBlocks rounds up: the blocks hold the tokens, and one block  *)
(* less would not.                                                         *)
LEMMA RequiredBlocksRoundUp ==
  ASSUME NEW len \in Nat, NEW page \in Nat \ {0}
  PROVE  LET n == NumRequiredBlocks(len, page)
         IN  n \in Nat /\ len <= n * page /\ n * page < len + page
  BY SMTT(40) DEF NumRequiredBlocks

(* Growing one factor grows the product.                                   *)
LEMMA TimesMonotone ==
  ASSUME NEW a \in Int, NEW b \in Int, NEW c \in Nat, a <= b
  PROVE  c * a <= c * b
  BY SMTT(40)

(* Products may be regrouped.                                              *)
LEMMA TimesAssociative ==
  ASSUME NEW a \in Int, NEW b \in Int, NEW c \in Int
  PROVE  (a * b) * c = a * (b * c)
  BY Z3

(* The pool of num_requests * (len + slack) tokens has the blocks that all *)
(* requests need to feed len - 1 tokens each, the last sampled token never *)
(* being fed, as long as a page has at most slack + 2 tokens (18 in        *)
(* generation_benchmark.cpp).                                              *)
THEOREM PoolSuffices ==
  ASSUME NEW requests \in Nat \ {0}, NEW len \in Nat \ {0}, NEW slack \in Nat,
         NEW page \in Nat \ {0}, page <= slack + 2
  PROVE  requests * NumRequiredBlocks(len - 1, page)
           <= NumRequiredBlocks(requests * (len + slack), page)
<1> DEFINE need == NumRequiredBlocks(len - 1, page)
           tokens == requests * (len + slack)
           pool == NumRequiredBlocks(tokens, page)
<1>1. need \in Nat /\ need * page <= len + slack
  BY RequiredBlocksRoundUp, SMTT(40)
<1>2. tokens \in Nat
  BY SMTT(40)
<1>3. pool \in Nat /\ tokens <= pool * page
  BY <1>2, RequiredBlocksRoundUp
<1> HIDE DEF need, tokens, pool
<1>4. requests * (need * page) <= tokens
  BY <1>1, TimesMonotone DEF tokens
<1>5. (requests * need) * page <= pool * page
  <2>1. (requests * need) * page = requests * (need * page)
    BY <1>1, TimesAssociative
  <2> DEFINE a == (requests * need) * page
             b == requests * (need * page)
             c == pool * page
  <2>2. a \in Int /\ b \in Int /\ c \in Int
    BY <1>1, <1>3
  <2>3. a = b /\ b <= tokens /\ tokens <= c
    BY <2>1, <1>3, <1>4
  <2> HIDE DEF a, b, c
  <2>4. a <= c
    BY <1>2, <2>2, <2>3
  <2> QED
    BY <2>4 DEF a, c
<1>6. CASE requests * need > pool
  <2>1. requests * need \in Int /\ pool + 1 <= requests * need
    BY <1>1, <1>3, <1>6, SMTT(40)
  <2>2. page * (pool + 1) <= page * (requests * need)
    BY <2>1, <1>3, TimesMonotone
  <2> QED
    BY <2>1, <2>2, <1>3, <1>5, SMTT(40)
<1> QED
  BY <1>1, <1>3, <1>6, SMTT(40) DEF need, tokens, pool

-----------------------------------------------------------------------------
(* The blocks that are free.                                               *)

(* The blocks of the tables of some owners are at most the quota of each.  *)
LEMMA OwnedCounted ==
  ASSUME NEW m, WellFormed(m), NEW S, IsFiniteSet(S), NEW own, NEW quota \in Nat,
         \A r \in S : own[r] \in LiveTables(m) => Len(m.tables[own[r]]) <= quota,
         NEW O \in SUBSET Blocks,
         \A b \in O : \E r \in S : own[r] \in LiveTables(m) /\ b \in BlocksOf(m.tables[own[r]])
  PROVE  Cardinality(O) \in Nat /\ Cardinality(O) <= Cardinality(S) * quota
<1> DEFINE Place(b, w) == /\ w \in S \X (1 .. quota)
                          /\ own[w[1]] \in LiveTables(m) /\ w[2] \in DOMAIN m.tables[own[w[1]]]
                          /\ m.tables[own[w[1]]][w[2]] = b
           f == [b \in O |-> CHOOSE w : Place(b, w)]
<1>1. \A b \in O : \E w : Place(b, w)
  <2>1. TAKE b \in O
  <2>2. PICK r \in S : own[r] \in LiveTables(m) /\ b \in BlocksOf(m.tables[own[r]])
    OBVIOUS
  <2>3. m.tables[own[r]] \in Seq(Blocks)
    BY <2>2, FieldTypes DEF WellFormed, LiveTables
  <2>4. PICK i \in DOMAIN m.tables[own[r]] : m.tables[own[r]][i] = b
    BY <2>2 DEF BlocksOf
  <2>5. i \in 1 .. quota
    BY <2>2, <2>3, <2>4
  <2>6. Place(b, <<r, i>>)
    BY <2>2, <2>4, <2>5
  <2>. QED BY <2>6
<1>2. \A b \in O : Place(b, f[b])
  BY <1>1
<1>3. f \in Injection(O, S \X (1 .. quota))
  <2>1. f \in [O -> S \X (1 .. quota)]
    BY <1>2
  <2>2. \A a, b \in O : f[a] = f[b] => a = b
    BY <1>2
  <2> HIDE DEF f
  <2>. QED BY <2>1, <2>2 DEF Injection, IsInjective
<1>4. IsFiniteSet(1 .. quota) /\ Cardinality(1 .. quota) = quota
  BY FS_Interval
<1>5. /\ IsFiniteSet(S \X (1 .. quota))
      /\ Cardinality(S \X (1 .. quota)) = Cardinality(S) * quota
  BY <1>4, FS_Product
<1>6. Cardinality(O) <= Cardinality(S \X (1 .. quota)) /\ IsFiniteSet(O)
  <2> HIDE DEF f
  <2>. QED BY <1>3, <1>5, FS_Injection
<1>. QED BY <1>5, <1>6, FS_CardinalityType

(* What a table has and what is free are together the blocks that the      *)
(* owners of the other tables leave.                                       *)
LEMMA EnoughFree ==
  ASSUME NEW m, WellFormed(m), NEW t, NEW S, IsFiniteSet(S), NEW own, NEW quota \in Nat,
         \A v \in LiveTables(m) \ {t} : \E r \in S : own[r] = v,
         \A r \in S : own[r] \in LiveTables(m) => Len(m.tables[own[r]]) <= quota
  PROVE  LET has == IF t \in LiveTables(m) THEN Len(m.tables[t]) ELSE 0
         IN  /\ Len(m.free_blocks) \in Nat /\ has \in Nat
             /\ NumBlocks - Cardinality(S) * quota <= Len(m.free_blocks) + has
<1> DEFINE Mine == IF t \in LiveTables(m) THEN BlocksOf(m.tables[t]) ELSE {}
           Free == BlocksOf(m.free_blocks)
           O == Blocks \ (Mine \cup Free)
           has == IF t \in LiveTables(m) THEN Len(m.tables[t]) ELSE 0
<1>1. IsFiniteSet(Blocks) /\ Cardinality(Blocks) = NumBlocks
  BY FS_Interval DEF Blocks
<1>2. Mine \subseteq Blocks /\ Free \subseteq Blocks
  BY FieldTypes DEF WellFormed, LiveTables, BlocksOf
<1>3. IsFiniteSet(Mine) /\ IsFiniteSet(Free) /\ IsFiniteSet(Mine \cup Free)
  BY <1>1, <1>2, FS_Subset
<1>4. Cardinality(Free) = Len(m.free_blocks) /\ Len(m.free_blocks) \in Nat
  BY FreeCounted, FieldTypes DEF WellFormed
<1>5. Cardinality(Mine) = has /\ has \in Nat
  <2>1. Cardinality({}) = 0
    BY FS_EmptySet
  <2>. QED BY <2>1, TableCounted
<1>6. Cardinality(O) \in Nat /\ Cardinality(O) <= Cardinality(S) * quota
  <2>1. \A b \in O : \E r \in S : own[r] \in LiveTables(m) /\ b \in BlocksOf(m.tables[own[r]])
    <3>1. \A b \in O : \E v \in LiveTables(m) \ {t} : b \in BlocksOf(m.tables[v])
      BY FreeIsUnowned
    <3>. QED BY <3>1
  <2>2. O \in SUBSET Blocks
    OBVIOUS
  <2> HIDE DEF O
  <2>. QED BY <2>1, <2>2, OwnedCounted
<1> HIDE DEF Mine, Free, has
<1>7. Cardinality(O) = Cardinality(Blocks) - Cardinality(Mine \cup Free)
  <2>1. Blocks \cap (Mine \cup Free) = Mine \cup Free
    BY <1>2
  <2>. QED BY ZenonT(60), <1>1, <2>1, FS_Difference
<1>8. Cardinality(Mine \cup Free) <= Cardinality(Mine) + Cardinality(Free)
  <2>1. Cardinality(Mine \cap Free) \in Nat
    <3>1. IsFiniteSet(Mine \cap Free)
      BY <1>3, FS_Subset
    <3>. QED BY <3>1, FS_CardinalityType
  <2>2. Cardinality(Mine \cup Free)
          = Cardinality(Mine) + Cardinality(Free) - Cardinality(Mine \cap Free)
    BY <1>3, FS_Union
  <2>. QED BY <1>4, <1>5, <2>1, <2>2
<1> DEFINE card == Cardinality(Mine \cup Free)
           prod == Cardinality(S) * quota
           free == Len(m.free_blocks)
           others == Cardinality(O)
<1>9. card \in Nat
  BY <1>3, FS_CardinalityType
<1>10. prod \in Nat
  BY FS_CardinalityType
<1>11. /\ others \in Nat /\ others <= prod /\ others = NumBlocks - card
       /\ card <= has + free /\ free \in Nat /\ has \in Nat
  BY <1>1, <1>4, <1>5, <1>6, <1>7, <1>8
<1> HIDE DEF card, prod, free, others, O
<1>12. NumBlocks - prod <= free + has
  BY <1>9, <1>10, <1>11
<1>. QED BY <1>11, <1>12 DEF prod, free, has

-----------------------------------------------------------------------------
(* The invariant of a run.                                                 *)

(* The blocks a request may come to hold: its last token is never fed.     *)
Quota == NumRequiredBlocks(plan.prompt_len + plan.max_new - 1, PageSize)

PlanType ==
  /\ plan \in [mode : {"interleaved", "batch"}, prompt_len : PromptLens, max_new : MaxNews,
               at : {"add", "prefill", "round", "turns", "release", "done"},
               i : 1 .. NumRequests, all_finished : BOOLEAN]
  /\ Capacity = TokensPerRequest(plan.prompt_len, plan.max_new) * NumRequests
  /\ plan.at \in {"add", "release", "done"} => Idle
  /\ plan.at = "round" => plan.i = 1
  /\ Len(reqs) = IF plan.at = "add" THEN plan.i - 1 ELSE NumRequests
  /\ faults = 0

(* All requests are alike, and one that is finished has sampled a token,   *)
(* and stopped at EOS or at its last one.                                  *)
Alike(q) ==
  /\ q.prompt = plan.prompt_len /\ q.max_new = plan.max_new
  /\ IsFinished(q) => q.generated >= 1 /\ (q.eos = TRUE \/ q.generated >= q.max_new)

AllAlike == \A r \in DOMAIN reqs : Alike(reqs[r])

Modest ==
  \A r \in DOMAIN reqs : reqs[r].table # NoTable => Len(bt.tables[reqs[r].table]) <= Quota

(* Requests whose prefill has yet to start are as they were added; of the  *)
(* others one token at most is not fed yet, but while prefill feeds it.    *)
NotYet(r) == plan.at = "add" \/ (plan.at = "prefill" /\ r >= plan.i)

Fresh(q) == q.cached = 0 /\ q.generated = 0 /\ ~ IsFinished(q)

Feeding(r) ==
  /\ call.op = "prefill" /\ call.stage \in {"reserve", "forward"}
  /\ \/ \E j \in DOMAIN call.todo : call.todo[j].id = r
     \/ \E k \in DOMAIN call.rows : call.rows[k].id = r

OneTokenLeft ==
  \A r \in DOMAIN reqs :
    IF NotYet(r) THEN Fresh(reqs[r]) ELSE ExtendLen(reqs[r]) <= 1 \/ Feeding(r)

(* A call is about requests whose turn has come, and feeds all they have.  *)
TodoWhole(w) ==
  /\ w.id \in DOMAIN reqs /\ ~ NotYet(w.id)
  /\ call.op = "prefill" => reqs[w.id].cached + w.len = reqs[w.id].input

RowWhole(row) ==
  /\ row.id \in DOMAIN reqs /\ ~ NotYet(row.id)
  /\ call.op = "prefill" /\ call.stage \in {"reserve", "forward"} =>
       row.past + row.len = reqs[row.id].input

WholeCall ==
  /\ ~ call.until_finished
  /\ \A j \in DOMAIN call.todo : TodoWhole(call.todo[j])
  /\ \A k \in DOMAIN call.rows : RowWhole(call.rows[k])
  /\ call.stage = "sample" => reqs[Row.id].cached = reqs[Row.id].input

(* all_finished is what it says.                                           *)
AllFinished(n) == \A r \in 1 .. n : IsFinished(reqs[r])

FlagTrue ==
  /\ plan.at \in {"add", "prefill"} => ~ plan.all_finished
  /\ plan.at = "turns" /\ plan.all_finished => AllFinished(plan.i - 1)
  /\ (plan.at = "round" /\ plan.all_finished) \/ plan.at \in {"release", "done"} =>
       AllFinished(NumRequests)

Released ==
  \A r \in DOMAIN reqs :
    plan.at = "done" \/ (plan.at = "release" /\ r < plan.i) => reqs[r].table = NoTable

PlanInv ==
  /\ result = "ok" /\ PlanType /\ AllAlike /\ Modest /\ OneTokenLeft /\ WholeCall
  /\ FlagTrue /\ Released

BenchInv == EngineInv /\ HasToken /\ PlanInv

-----------------------------------------------------------------------------
(* What the invariant says, by name.                                       *)

(* The caller keeps to all that the engine's properties need.              *)
LEMMA CallerKeepsTo == QuotaGiven /\ NoRepeats /\ SampleSafe
BY OnlyCallerAssumption DEF QuotaGiven, NoRepeats, SampleSafe

(* The lengths of a run.                                                   *)
LEMMA PlanFields ==
  ASSUME PlanType
  PROVE  /\ plan.prompt_len \in PromptLens /\ plan.max_new \in MaxNews
         /\ plan.prompt_len \in Nat \ {0} /\ plan.max_new \in Nat \ {0}
         /\ plan.i \in 1 .. NumRequests /\ plan.all_finished \in BOOLEAN
         /\ plan.at \in {"add", "prefill", "round", "turns", "release", "done"}
         /\ NumRequests \in Nat \ {0} /\ NumRequests = MaxRequests /\ Slack \in Nat
         /\ Quota \in Nat
<1>1. /\ plan.prompt_len \in PromptLens /\ plan.max_new \in MaxNews
      /\ plan.i \in 1 .. NumRequests /\ plan.all_finished \in BOOLEAN
      /\ plan.at \in {"add", "prefill", "round", "turns", "release", "done"}
  BY DEF PlanType
<1>2. plan.prompt_len \in Nat \ {0} /\ plan.max_new \in Nat \ {0}
  BY <1>1, CallerAssumption, BenchmarkAssumption
<1> DEFINE len == plan.prompt_len + plan.max_new - 1
<1>3. len \in Nat
  BY <1>2
<1>4. Quota \in Nat
  <2> HIDE DEF len
  <2>1. NumRequiredBlocks(len, PageSize) \in Nat
    BY <1>3, Bounds, RequiredBlocksRoundUp
  <2>. QED BY <2>1 DEF Quota, len
<1>. QED BY <1>1, <1>2, <1>4, BenchmarkAssumption

(* The pool has a share for every request.                                 *)
LEMMA QuotaFits ==
  ASSUME PlanType, PageSize <= Slack + 2
  PROVE  NumRequests * Quota <= NumBlocks
<1> DEFINE len == plan.prompt_len + plan.max_new
<1>1. len \in Nat \ {0}
  BY PlanFields
<1>2. NumRequests * NumRequiredBlocks(len - 1, PageSize)
        <= NumRequiredBlocks(NumRequests * (len + Slack), PageSize)
  <2> HIDE DEF len
  <2>. QED BY <1>1, PlanFields, Bounds, PoolSuffices
<1>3. Capacity = NumRequests * (len + Slack)
  <2>1. Capacity = (len + Slack) * NumRequests
    BY DEF PlanType, TokensPerRequest
  <2> HIDE DEF len
  <2>. QED BY <2>1, <1>1, PlanFields
<1>4. Quota = NumRequiredBlocks(len - 1, PageSize)
  <2>1. plan.prompt_len + plan.max_new - 1 = len - 1
    BY PlanFields
  <2> HIDE DEF len
  <2>. QED BY <2>1 DEF Quota
<1> HIDE DEF len
<1>. QED BY <1>2, <1>3, <1>4, EngineAssumption

(* A request that is not finished has fed less than it may come to have,   *)
(* and needs no more than its quota of blocks.                             *)
LEMMA UnfinishedIsShort ==
  ASSUME EngineInv, PlanType, AllAlike, NEW r \in DOMAIN reqs, ~ IsFinished(reqs[r])
  PROVE  /\ reqs[r].input <= plan.prompt_len + plan.max_new - 1
         /\ reqs[r].input <= Capacity
         /\ NumRequiredBlocks(reqs[r].input, PageSize) <= Quota
<1> DEFINE q == reqs[r]
           len == plan.prompt_len + plan.max_new - 1
<1>1. q \in RequestType /\ Counts(q) /\ Alike(q)
  BY CallFacts, StateFacts, RequestFields DEF AllAlike
<1>2. /\ q.input \in Nat /\ q.generated \in Nat /\ q.prompt = plan.prompt_len
      /\ q.max_new = plan.max_new /\ q.input = q.prompt + q.generated
      /\ q.generated < q.max_new
  <2> HIDE DEF q
  <2>1. q.input \in Nat /\ q.generated \in Nat
    BY <1>1, FieldsOf
  <2>. QED BY <1>1, <2>1, CallerKeepsTo DEF Counts, Alike, q
<1>3. q.input <= len /\ len \in Nat
  <2> HIDE DEF q
  <2>. QED BY <1>2, PlanFields
<1>4. len <= Capacity
  <2> DEFINE per == plan.prompt_len + plan.max_new + Slack
  <2>1. per \in Nat /\ len <= per /\ Capacity = per * NumRequests
    BY SMTT(30), PlanFields DEF PlanType, TokensPerRequest
  <2> HIDE DEF per
  <2>2. per * 1 <= per * NumRequests
    BY <2>1, PlanFields, TimesMonotone
  <2>. QED BY <2>1, <2>2, <1>3
<1>5. NumRequiredBlocks(q.input, PageSize) <= Quota
  <2> HIDE DEF len, q
  <2>1. NumRequiredBlocks(q.input, PageSize) <= NumRequiredBlocks(len, PageSize)
    BY <1>2, <1>3, Bounds, RequiredMonotone
  <2>. QED BY <2>1 DEF Quota, len
<1>6. q.input <= Capacity
  <2> HIDE DEF len, q
  <2>. QED BY <1>2, <1>3, <1>4, Bounds
<1>. QED BY <1>3, <1>5, <1>6

-----------------------------------------------------------------------------
(* The engine refuses nothing.                                             *)

(* Whoever reserves blocks finds them.                                     *)
LEMMA BlocksAreThere ==
  ASSUME BenchInv, PageSize <= Slack + 2, Reserving, Accepted
  PROVE  Suffices /\ Target <= Capacity
<1> DEFINE r == Wanted.id
           q == reqs[r]
           w == WithTable(bt, q)
           t == TableFor(bt, q)
           S == DOMAIN reqs \ {r}
           own == [s \in S |-> reqs[s].table]
           need == NumRequiredBlocks(Target, PageSize)
           has == IF t \in LiveTables(bt) THEN Len(bt.tables[t]) ELSE 0
           free == Len(bt.free_blocks)
<1>1. /\ EngineInv /\ StateInv /\ CallInv /\ WellFormed(bt) /\ TableOwners
      /\ PlanType /\ AllAlike /\ Modest
  BY CallFacts DEF BenchInv, PlanInv, StateInv
<1>2. r \in DOMAIN reqs /\ ~ IsFinished(q) /\ Target \in Nat /\ Target <= q.input
  BY <1>1, AcceptedFacts DEF Target
<1>3. /\ q \in RequestType /\ q.input \in Nat
      /\ q.table # NoTable => IsTableUsed(bt, q.table)
  BY <1>1, <1>2, StateFacts, RequestFields
<1>4. Target <= Capacity
  <2>1. q.input <= Capacity
    BY <1>1, <1>2, UnfinishedIsShort
  <2> HIDE DEF q
  <2>. QED BY <1>2, <1>3, <2>1, Bounds
<1>5. need \in Nat /\ need <= Quota
  <2>1. NumRequiredBlocks(q.input, PageSize) <= Quota
    BY <1>1, <1>2, UnfinishedIsShort
  <2> HIDE DEF q
  <2>2. need \in Nat /\ need <= NumRequiredBlocks(q.input, PageSize)
    BY <1>2, <1>3, Bounds, RequiredMonotone
  <2>3. NumRequiredBlocks(q.input, PageSize) \in Nat
    BY <1>3, Bounds, RequiredMonotone
  <2> HIDE DEF need
  <2>. QED BY <1>1, <2>1, <2>2, <2>3, PlanFields
<1>6. /\ WellFormed(w) /\ IsTableUsed(w, t) /\ t \in Nat \ {0}
      /\ Len(w.tables[t]) = has /\ w.free_blocks = bt.free_blocks
  <2>1. /\ WellFormed(w) /\ IsTableUsed(w, t) /\ t \in Nat \ {0}
        /\ q.table = NoTable => t \notin LiveTables(bt) /\ w.tables[t] = << >>
        /\ q.table # NoTable => t = q.table /\ w.tables[t] = bt.tables[t]
    <3> HIDE DEF q
    <3>. QED BY <1>1, <1>3, TakesTable
  <2>2. w.free_blocks = bt.free_blocks
    BY <1>1, AllocateLive DEF WithTable
  <2>3. Len(w.tables[t]) = has
    <3>1. CASE q.table = NoTable
      <4>1. w.tables[t] = << >> /\ t \notin LiveTables(bt)
        BY <2>1, <3>1
      <4> HIDE DEF w, t
      <4>. QED BY <4>1
    <3>2. CASE q.table # NoTable
      <4>1. w.tables[t] = bt.tables[t] /\ t \in LiveTables(bt)
        BY <1>3, <2>1, <3>2, UsedIsLive
      <4> HIDE DEF w, t
      <4>. QED BY <4>1
    <3>. QED BY <3>1, <3>2
  <2>. QED BY <2>1, <2>2, <2>3
<1>7. IsFiniteSet(S) /\ Cardinality(S) <= NumRequests - 1 /\ Cardinality(S) \in Nat
  <2>1. DOMAIN reqs = 1 .. Len(reqs) /\ Len(reqs) \in Nat /\ Len(reqs) <= NumRequests
    BY <1>1, StateFacts, RequestFields, PlanFields
  <2>2. IsFiniteSet(DOMAIN reqs) /\ Cardinality(DOMAIN reqs) = Len(reqs)
    BY SMTT(30), <2>1, FS_Interval
  <2>3. IsFiniteSet(S) /\ Cardinality(S) = Len(reqs) - 1
    BY <1>2, <2>2, FS_RemoveElement
  <2>4. Cardinality(S) \in Nat
    BY <2>3, FS_CardinalityType
  <2> HIDE DEF S
  <2>. QED BY <2>1, <2>3, <2>4, <1>1, PlanFields
<1>8. /\ free \in Nat /\ has \in Nat
      /\ NumBlocks - Cardinality(S) * Quota <= free + has
  <2>1. \A v \in LiveTables(bt) \ {t} : \E s \in S : own[s] = v
    <3>1. TAKE v \in LiveTables(bt) \ {t}
    <3>2. PICK s \in DOMAIN reqs : reqs[s].table = v
      BY <1>1 DEF TableOwners
    <3>3. v # NoTable
      BY <1>1, FieldTypes DEF WellFormed, LiveTables, NoTable
    <3>4. s # r
      BY <3>1, <3>2, <3>3 DEF TableFor
    <3>. QED BY <3>2, <3>4
  <2>2. \A s \in S : own[s] \in LiveTables(bt) => Len(bt.tables[own[s]]) <= Quota
    <3>1. NoTable \notin LiveTables(bt)
      BY <1>1, FieldTypes DEF WellFormed, LiveTables, NoTable
    <3>. QED BY <1>1, <3>1 DEF Modest
  <2>3. Quota \in Nat
    BY <1>1, PlanFields
  <2> HIDE DEF own, S, t
  <2>. QED BY <1>1, <1>7, <2>1, <2>2, <2>3, EnoughFree
<1>9. need <= free + has
  <2>1. NumRequests * Quota <= NumBlocks
    BY <1>1, QuotaFits
  <2> DEFINE n == Cardinality(S)
             k == Quota
  <2>2. /\ n \in Nat /\ k \in Nat /\ NumRequests \in Nat \ {0} /\ n <= NumRequests - 1
    BY <1>1, <1>7, PlanFields
  <2>3. k * n <= k * (NumRequests - 1)
    <3> HIDE DEF n, k
    <3>. QED BY <2>2, TimesMonotone
  <2>4. NumRequests * k <= NumBlocks /\ NumBlocks - n * k <= free + has
    BY <2>1, <1>8
  <2> HIDE DEF n, k, free, has, need, S
  <2>5. k * (NumRequests - 1) = NumRequests * k - k /\ k * n = n * k
    BY <2>2, SMTT(30)
  <2> DEFINE a == NumRequests * k
             b == n * k
  <2>6. a \in Nat /\ b \in Nat
    BY <2>2
  <2>7. b <= a - k /\ a <= NumBlocks /\ NumBlocks - b <= free + has
    BY <2>3, <2>4, <2>5
  <2> HIDE DEF a, b
  <2>8. k <= free + has
    BY <1>8, <2>2, <2>6, <2>7
  <2>. QED BY <1>5, <1>8, <2>2, <2>8 DEF k
<1>10. Suffices
  <2> DEFINE gap == NeedBlocks(w, t, need)
  <2>1. gap = need - has
    BY <1>6 DEF NeedBlocks
  <2>2. gap <= free
    <3> HIDE DEF gap, need, has, free
    <3>. QED BY <1>5, <1>8, <1>9, <2>1
  <2>3. EnsureReturns(w, t, need)
    <3> HIDE DEF w, t, need
    <3>. QED BY <1>6, <2>2 DEF EnsureReturns, HasFreeBlocks
  <2>. QED BY <2>3 DEF Suffices, BlocksSuffice
<1>. QED BY <1>4, <1>10

(* No step of the engine throws.                                           *)
LEMMA NothingRefused ==
  ASSUME BenchInv, PageSize <= Slack + 2
  PROVE  ~ (ReserveRefused \/ ReserveTooLong \/ ReserveExhausted \/ AppendRefused)
<1>1. EngineInv /\ StateInv /\ CallInv /\ HasToken /\ PlanInv
  BY CallFacts DEF BenchInv
<1>2. ASSUME ReserveRefused PROVE FALSE
  <2> DEFINE r == Wanted.id
  <2>1. Batched /\ ~ CanDecode(r) /\ (Known(r) => ~ IsFinished(reqs[r])) /\ call.stage = "reserve"
    BY <1>2 DEF ReserveRefused, Accepted, Reserving
  <2>2. r \in DOMAIN reqs /\ ~ NotYet(r)
    BY <1>1, <1>2, WantedFacts DEF ReserveRefused, PlanInv, WholeCall, TodoWhole
  <2>3. ~ Feeding(r)
    BY <2>1 DEF Feeding, Batched
  <2>4. ExtendLen(reqs[r]) <= 1
    BY <1>1, <2>2, <2>3 DEF PlanInv, OneTokenLeft
  <2>5. ExtendLen(reqs[r]) > 0
    BY <1>1, <2>1, <2>2, CallerKeepsTo DEF HasToken
  <2>6. reqs[r].input \in Nat /\ reqs[r].cached \in Nat
    BY <1>1, <2>2, StateFacts, RequestFields
  <2>7. ExtendLen(reqs[r]) = 1
    BY <2>4, <2>5, <2>6 DEF ExtendLen, DeviceLen
  <2>. QED BY <2>1, <2>2, <2>7 DEF CanDecode, Known
<1>3. ASSUME ReserveTooLong PROVE FALSE
  <2>1. Target <= Capacity /\ Target > Capacity /\ Target \in Nat
    BY <1>1, <1>3, BlocksAreThere, AcceptedFacts DEF ReserveTooLong
  <2>. QED BY <2>1, Bounds
<1>4. ASSUME ReserveExhausted PROVE FALSE
  BY <1>4, BlocksAreThere DEF ReserveExhausted
<1>5. ASSUME AppendRefused PROVE FALSE
  BY <1>1, <1>5, CallerKeepsTo, CallFacts DEF AppendRefused, MayAppend, RowMarked
<1>. QED BY <1>2, <1>3, <1>4, <1>5

-----------------------------------------------------------------------------
(* The steps of a call keep the run's invariant.                           *)

(* What is not about the tokens: the plan stays, and so do those that are  *)
(* finished.                                                               *)
LEMMA EngineFrame ==
  ASSUME BenchInv, ~ Idle, UNCHANGED <<plan, faults>>, result' = "ok",
         Len(reqs') = Len(reqs), DOMAIN reqs' = DOMAIN reqs,
         \A r \in DOMAIN reqs : IsFinished(reqs[r]) => IsFinished(reqs'[r]),
         AllAlike', Modest', OneTokenLeft', WholeCall'
  PROVE  PlanInv'
<1>1. PlanType /\ FlagTrue /\ StateInv
  BY CallFacts DEF BenchInv, PlanInv
<1>2. plan.at \notin {"add", "release", "done"}
  BY <1>1 DEF PlanType
<1>3. PlanType'
  BY <1>1, <1>2 DEF PlanType, TokensPerRequest
<1>4. FlagTrue'
  <2>1. DOMAIN reqs = 1 .. NumRequests
    BY <1>1, <1>2, StateFacts, RequestFields DEF PlanType
  <2>2. \A n \in 0 .. NumRequests : AllFinished(n) => AllFinished(n)'
    BY <2>1, <1>1, PlanFields DEF AllFinished
  <2>3. plan.i - 1 \in 0 .. NumRequests /\ NumRequests \in 0 .. NumRequests
    BY <1>1, PlanFields
  <2>4. /\ AllFinished(plan.i - 1) => AllFinished(plan.i - 1)'
        /\ AllFinished(NumRequests) => AllFinished(NumRequests)'
    BY <2>2, <2>3
  <2>. QED BY <1>1, <1>2, <2>4 DEF FlagTrue, AllFinished
<1>5. Released'
  BY <1>2 DEF Released
<1>. QED BY <1>3, <1>4, <1>5 DEF PlanInv

(* The notions of the plan stay what they are.                             *)
LEMMA PlanStays ==
  ASSUME UNCHANGED plan
  PROVE  /\ Quota' = Quota
         /\ \A q : Alike(q)' <=> Alike(q)
         /\ \A r : NotYet(r)' <=> NotYet(r)
BY DEF Quota, Alike, NotYet

(* A step that only moves the call on, and feeds whom it fed.              *)
LEMMA OnlyTheCall ==
  ASSUME BenchInv, EngineInv', ~ Idle, UNCHANGED <<plan, reqs, bt, faults>>, result' = "ok",
         \A r \in DOMAIN reqs : Feeding(r) => Feeding(r)' \/ ExtendLen(reqs[r]) <= 1,
         WholeCall'
  PROVE  PlanInv'
<1>1. AllAlike /\ Modest /\ OneTokenLeft
  BY DEF BenchInv, PlanInv
<1>2. AllAlike' /\ Modest'
  BY <1>1 DEF AllAlike, Alike, Modest, Quota
<1>3. OneTokenLeft'
  BY <1>1 DEF OneTokenLeft, NotYet, Fresh, ExtendLen, DeviceLen, IsFinished
<1>. QED BY <1>2, <1>3, EngineFrame

(* What the next call must be about.                                       *)
LEMMA WholeNext ==
  ASSUME UNCHANGED plan, ~ call'.until_finished,
         \A j \in DOMAIN call'.todo :
           LET w == call'.todo[j]
           IN  /\ w.id \in DOMAIN reqs' /\ ~ NotYet(w.id)
               /\ call'.op = "prefill" => reqs'[w.id].cached + w.len = reqs'[w.id].input,
         \A k \in DOMAIN call'.rows :
           LET row == call'.rows[k]
           IN  /\ row.id \in DOMAIN reqs' /\ ~ NotYet(row.id)
               /\ call'.op = "prefill" /\ call'.stage \in {"reserve", "forward"} =>
                    row.past + row.len = reqs'[row.id].input,
         call'.stage = "sample" => reqs'[Row'.id].cached = reqs'[Row'.id].input
  PROVE  WholeCall'
BY DEF WholeCall, TodoWhole, RowWhole, NotYet

(* decode_batch passes over a finished request.                            *)
LEMMA SkipsInPlan ==
  ASSUME BenchInv, EngineInv', ReserveSkips, UNCHANGED plan
  PROVE  PlanInv'
<1>1. /\ EngineInv /\ StateInv /\ CallInv /\ WholeCall /\ result = "ok"
  BY CallFacts DEF BenchInv, PlanInv
<1>2. /\ call.stage = "reserve" /\ Reserving /\ Batched
      /\ call' = [call EXCEPT !.todo = Tail(call.todo)] /\ UNCHANGED <<reqs, bt, kv, result, faults>>
  BY <1>1, CallFacts DEF ReserveSkips, Reserving, CallType
<1>3. /\ call'.todo = Tail(call.todo) /\ call'.rows = call.rows /\ call'.op = "batch"
      /\ call'.stage = "reserve" /\ call'.until_finished = call.until_finished
  BY <1>1, <1>2, CallFacts DEF CallType, Batched
<1>4. \A j \in DOMAIN Tail(call.todo) :
        j + 1 \in DOMAIN call.todo /\ Tail(call.todo)[j] = call.todo[j + 1]
  BY <1>1, <1>2, WantedFacts
<1>5. \A j \in DOMAIN call.todo : TodoWhole(call.todo[j])
  BY <1>1 DEF WholeCall
<1>6. \A k \in DOMAIN call.rows : RowWhole(call.rows[k])
  BY <1>1 DEF WholeCall
<1>7. WholeCall'
  <2>1. \A j \in DOMAIN call'.todo :
          call'.todo[j].id \in DOMAIN reqs' /\ ~ NotYet(call'.todo[j].id)
    BY <1>2, <1>3, <1>4, <1>5 DEF TodoWhole
  <2>2. \A k \in DOMAIN call'.rows :
          call'.rows[k].id \in DOMAIN reqs' /\ ~ NotYet(call'.rows[k].id)
    BY <1>2, <1>3, <1>6 DEF RowWhole
  <2>3. ~ call'.until_finished
    BY <1>1, <1>3 DEF WholeCall
  <2>. QED BY <1>3, <2>1, <2>2, <2>3, WholeNext
<1>8. \A r : ~ Feeding(r)
  BY <1>2 DEF Feeding, Batched
<1>. QED BY <1>1, <1>2, <1>7, <1>8, OnlyTheCall DEF Idle

(* Blocks are reserved for a row.                                          *)
LEMMA ReserveInPlan ==
  ASSUME BenchInv, EngineInv', Reserve, UNCHANGED plan
  PROVE  PlanInv'
<1> DEFINE r == Wanted.id
           q == reqs[r]
           t == TableFor(bt, q)
           p == [q EXCEPT !.table = t]
           row == [id |-> r, past |-> q.cached, len |-> Wanted.len]
<1>1. /\ EngineInv /\ StateInv /\ CallInv /\ WellFormed(bt) /\ TableOwners
      /\ WholeCall /\ AllAlike /\ Modest /\ OneTokenLeft /\ PlanType /\ result = "ok"
  BY CallFacts DEF BenchInv, PlanInv, StateInv
<1>2. Reserving /\ Accepted /\ call.stage = "reserve" /\ UNCHANGED <<kv, result, faults>>
  BY DEF Reserve, Reserving
<1>3. /\ r \in DOMAIN reqs /\ q \in RequestType /\ t \in Nat \ {0}
      /\ p.input = q.input /\ p.cached = q.cached /\ p.status = q.status /\ p.table = t
      /\ p.generated = q.generated /\ p.max_new = q.max_new
      /\ Len(reqs') = Len(reqs) /\ DOMAIN reqs' = DOMAIN reqs
      /\ reqs'[r] = p /\ \A s \in DOMAIN reqs \ {r} : reqs'[s] = reqs[s]
      /\ q.table = NoTable => t \notin LiveTables(bt)
      /\ q.table # NoTable => t = q.table
      /\ \A v \in LiveTables(bt) \ {t} : bt'.tables[v] = bt.tables[v]
      /\ Len(bt'.tables[t]) <= NumRequiredBlocks(q.input, PageSize)
      /\ WellFormed(bt') /\ LiveTables(bt') = LiveTables(bt) \cup {t}
  BY <1>1, ReserveTakes
<1>4. ~ IsFinished(q)
  BY <1>1, <1>2, AcceptedFacts
<1>5. p.prompt = q.prompt /\ p.eos = q.eos
  BY <1>3 DEF RequestType
<1>6. /\ call'.todo = Tail(call.todo) /\ call'.rows = Append(call.rows, row)
      /\ call'.stage = "reserve" /\ call'.op = call.op
      /\ call'.until_finished = call.until_finished /\ row \in Rows
      /\ row.id = r /\ row.past = q.cached /\ row.len = Wanted.len
  BY <1>1, ReservedCall
<1>7. /\ Wanted = call.todo[1] /\ 1 \in DOMAIN call.todo
      /\ \A j \in DOMAIN Tail(call.todo) :
           j + 1 \in DOMAIN call.todo /\ Tail(call.todo)[j] = call.todo[j + 1]
      /\ \A j \in DOMAIN call.todo : j # 1 => j - 1 \in DOMAIN Tail(call.todo)
                                              /\ Tail(call.todo)[j - 1] = call.todo[j]
  <2>1. /\ Wanted = call.todo[1] /\ 1 \in DOMAIN call.todo
        /\ DOMAIN Tail(call.todo) = 1 .. Len(call.todo) - 1
        /\ \A j \in DOMAIN Tail(call.todo) :
             j + 1 \in DOMAIN call.todo /\ Tail(call.todo)[j] = call.todo[j + 1]
    BY <1>1, <1>2, WantedFacts
  <2>2. DOMAIN call.todo = 1 .. Len(call.todo) /\ Len(call.todo) \in Nat
    BY <1>1, CallFacts, CallFields
  <2>3. \A j \in DOMAIN call.todo : j # 1 => j - 1 \in DOMAIN Tail(call.todo) /\ (j - 1) + 1 = j
    BY <2>1, <2>2
  <2>. QED BY <2>1, <2>3
<1> HIDE DEF row, p, t, q, r
<1>8. /\ \A k \in DOMAIN call.rows : k \in DOMAIN call'.rows /\ call'.rows[k] = call.rows[k]
      /\ \A k \in DOMAIN call'.rows : \/ k \in DOMAIN call.rows /\ call'.rows[k] = call.rows[k]
                                      \/ k = Len(call.rows) + 1 /\ call'.rows[k] = row
      /\ Len(call.rows) + 1 \in DOMAIN call'.rows /\ call'.rows[Len(call.rows) + 1] = row
  BY <1>1, <1>6, AppendElements, CallFacts, CallFields
<1>9. \A s \in DOMAIN reqs :
        /\ reqs'[s].input = reqs[s].input /\ reqs'[s].cached = reqs[s].cached
        /\ reqs'[s].status = reqs[s].status /\ reqs'[s].generated = reqs[s].generated
        /\ reqs'[s].prompt = reqs[s].prompt /\ reqs'[s].max_new = reqs[s].max_new
        /\ reqs'[s].eos = reqs[s].eos
  BY <1>3, <1>5 DEF q
<1>10. AllAlike'
  BY <1>1, <1>3, <1>9 DEF AllAlike, Alike, IsFinished
<1>11. Modest'
  <2>1. ASSUME NEW s \in DOMAIN reqs, reqs'[s].table # NoTable
        PROVE  Len(bt'.tables[reqs'[s].table]) <= Quota
    <3>1. CASE s = r
      <4>1. NumRequiredBlocks(q.input, PageSize) <= Quota
        BY <1>1, <1>3, <1>4, UnfinishedIsShort DEF q
      <4>2. /\ NumRequiredBlocks(q.input, PageSize) \in Nat /\ Quota \in Nat
            /\ Len(bt'.tables[t]) \in Nat
        <5>1. q.input \in Nat
          BY <1>3, FieldsOf
        <5>2. NumRequiredBlocks(q.input, PageSize) \in Nat
          BY <5>1, Bounds, RequiredMonotone
        <5>3. Len(bt'.tables[t]) \in Nat
          BY <1>3, FieldTypes DEF WellFormed, LiveTables
        <5>. QED BY <1>1, <5>2, <5>3, PlanFields
      <4>. QED BY <1>3, <3>1, <4>1, <4>2
    <3>2. CASE s # r
      <4>1. reqs'[s] = reqs[s] /\ IsTableUsed(bt, reqs[s].table) /\ reqs[s].table # q.table
        BY <1>1, <1>3, <2>1, <3>2 DEF TableOwners, q
      <4>2. reqs[s].table \in LiveTables(bt) \ {t}
        BY <1>3, <4>1, UsedIsLive
      <4>. QED BY <1>1, <1>3, <2>1, <4>1, <4>2 DEF Modest
    <3>. QED BY <3>1, <3>2
  <2>. QED BY <1>3, <2>1 DEF Modest, Quota
<1>12. \A s \in DOMAIN reqs : Feeding(s) => Feeding(s)'
  <2>1. SUFFICES ASSUME NEW s \in DOMAIN reqs, Feeding(s) PROVE Feeding(s)'
    OBVIOUS
  <2>2. call'.op = "prefill" /\ call'.stage \in {"reserve", "forward"}
    BY <1>6, <2>1 DEF Feeding
  <2>3. CASE \E j \in DOMAIN call.todo : call.todo[j].id = s
    <3>1. PICK j \in DOMAIN call.todo : call.todo[j].id = s
      BY <2>3
    <3>2. CASE j = 1
      <4>1. call'.rows[Len(call.rows) + 1].id = s
        BY <1>6, <1>7, <1>8, <3>1, <3>2 DEF r
      <4>. QED BY <1>8, <2>2, <4>1 DEF Feeding
    <3>3. CASE j # 1
      <4>1. j - 1 \in DOMAIN call'.todo /\ call'.todo[j - 1].id = s
        BY <1>6, <1>7, <3>1, <3>3
      <4>. QED BY <2>2, <4>1 DEF Feeding
    <3>. QED BY <3>2, <3>3
  <2>4. CASE \E k \in DOMAIN call.rows : call.rows[k].id = s
    BY <1>8, <2>2, <2>4 DEF Feeding
  <2>. QED BY <2>1, <2>3, <2>4 DEF Feeding
<1>13. OneTokenLeft'
  <2>1. \A s \in DOMAIN reqs : Fresh(reqs[s]) => Fresh(reqs'[s])
    BY <1>9 DEF Fresh, IsFinished
  <2>2. \A s \in DOMAIN reqs : ExtendLen(reqs'[s]) = ExtendLen(reqs[s])
    BY <1>9 DEF ExtendLen, DeviceLen
  <2>. QED BY <1>1, <1>3, <1>12, <2>1, <2>2 DEF OneTokenLeft, NotYet
<1>14. WholeCall'
  <2>1. \A j \in DOMAIN call'.todo :
          LET w == call'.todo[j]
          IN  /\ w.id \in DOMAIN reqs' /\ ~ NotYet(w.id)
              /\ call'.op = "prefill" => reqs'[w.id].cached + w.len = reqs'[w.id].input
    <3>1. \A j \in DOMAIN call'.todo : TodoWhole(call'.todo[j])
      BY <1>1, <1>6, <1>7 DEF WholeCall
    <3>2. ASSUME NEW w, TodoWhole(w)
          PROVE  /\ w.id \in DOMAIN reqs' /\ ~ NotYet(w.id)
                 /\ call'.op = "prefill" => reqs'[w.id].cached + w.len = reqs'[w.id].input
      <4>1. /\ w.id \in DOMAIN reqs /\ ~ NotYet(w.id)
            /\ call.op = "prefill" => reqs[w.id].cached + w.len = reqs[w.id].input
        BY <3>2 DEF TodoWhole
      <4>2. reqs'[w.id].cached = reqs[w.id].cached /\ reqs'[w.id].input = reqs[w.id].input
        BY <1>9, <4>1
      <4>3. DOMAIN reqs' = DOMAIN reqs /\ call'.op = call.op
        BY <1>3, <1>6
      <4>. QED BY <4>1, <4>2, <4>3
    <3>. QED BY <3>1, <3>2
  <2>2. \A k \in DOMAIN call'.rows :
          LET a == call'.rows[k]
          IN  /\ a.id \in DOMAIN reqs' /\ ~ NotYet(a.id)
              /\ call'.op = "prefill" => a.past + a.len = reqs'[a.id].input
    <3>1. \A k \in DOMAIN call.rows : RowWhole(call.rows[k])
      BY <1>1 DEF WholeCall
    <3>2. TodoWhole(Wanted)
      BY <1>1, <1>7 DEF WholeCall
    <3>3. row.id \in DOMAIN reqs' /\ ~ NotYet(row.id)
      BY <1>3, <1>6, <3>2 DEF TodoWhole, r
    <3>4. call'.op = "prefill" => row.past + row.len = reqs'[row.id].input
      BY <1>3, <1>6, <1>9, <3>2 DEF TodoWhole, q, r
    <3>5. \A k \in DOMAIN call.rows :
            LET a == call.rows[k]
            IN  /\ a.id \in DOMAIN reqs' /\ ~ NotYet(a.id)
                /\ call'.op = "prefill" => a.past + a.len = reqs'[a.id].input
      BY SMTT(30), <1>2, <1>3, <1>6, <1>9, <3>1 DEF RowWhole
    <3>. QED BY <1>8, <3>3, <3>4, <3>5
  <2>3. ~ call'.until_finished
    BY <1>1, <1>6 DEF WholeCall
  <2>. QED BY <1>6, <2>1, <2>2, <2>3, WholeNext
<1>15. \A s \in DOMAIN reqs : IsFinished(reqs[s]) => IsFinished(reqs'[s])
  BY <1>9 DEF IsFinished
<1>. QED BY <1>1, <1>2, <1>3, <1>10, <1>11, <1>13, <1>14, <1>15, EngineFrame DEF Idle

(* The rows stay those of requests whose turn has come.                    *)
LEMMA RowsStayWhole ==
  ASSUME WholeCall, UNCHANGED plan, DOMAIN reqs' = DOMAIN reqs, call'.rows = call.rows
  PROVE  \A k \in DOMAIN call'.rows :
           call'.rows[k].id \in DOMAIN reqs' /\ ~ NotYet(call'.rows[k].id)
BY DEF WholeCall, RowWhole

(* The row a step is about is one of them.                                 *)
LEMMA RowIsWhole ==
  ASSUME EngineInv, WholeCall, call.stage \in {"sample", "append"} \/ MayMark
  PROVE  RowWhole(Row)
<1>1. \E k \in DOMAIN call.rows : Row = call.rows[k]
  BY RowFacts
<1>. QED BY <1>1 DEF WholeCall

(* The model runs once all blocks are reserved.                            *)
LEMMA DoneInPlan ==
  ASSUME BenchInv, EngineInv', ReserveDone, UNCHANGED plan
  PROVE  PlanInv'
<1>1. /\ EngineInv /\ WholeCall /\ result = "ok" /\ call \in CallType
  BY CallFacts DEF BenchInv, PlanInv
<1>2. call.stage = "reserve" /\ call.todo = << >> /\ UNCHANGED <<reqs, bt, kv, faults>> /\ ~ Idle
  BY DEF ReserveDone, Idle
<1>3. CASE call.rows = << >>
  <2>1. call' = NoCall /\ result' = "ok"
    BY <1>3 DEF ReserveDone, Return
  <2>2. \A r : ~ Feeding(r)
    BY <1>2, <1>3 DEF Feeding
  <2>3. WholeCall'
    BY <2>1 DEF WholeCall, NoCall
  <2>. QED BY <1>2, <2>1, <2>2, <2>3, OnlyTheCall
<1>4. CASE call.rows # << >>
  <2>1. /\ call'.rows = call.rows /\ call'.todo = call.todo /\ call'.stage = "forward"
        /\ call'.op = call.op /\ call'.until_finished = call.until_finished /\ result' = "ok"
    BY <1>1, <1>4 DEF ReserveDone, CallType
  <2>2. \A r : Feeding(r) => Feeding(r)'
    BY <1>2, <2>1 DEF Feeding
  <2>3. WholeCall'
    <3>1. \A k \in DOMAIN call.rows : RowWhole(call.rows[k])
      BY <1>1 DEF WholeCall
    <3>2. \A k \in DOMAIN call'.rows :
            LET row == call'.rows[k]
            IN  /\ row.id \in DOMAIN reqs' /\ ~ NotYet(row.id)
                /\ call'.op = "prefill" => row.past + row.len = reqs'[row.id].input
      BY <1>2, <2>1, <3>1 DEF RowWhole
    <3>3. ~ call'.until_finished /\ call'.todo = << >>
      BY <1>1, <1>2, <2>1 DEF WholeCall
    <3>. QED BY <2>1, <3>2, <3>3, WholeNext
  <2>. QED BY <1>2, <2>1, <2>2, <2>3, OnlyTheCall
<1>. QED BY <1>3, <1>4

(* The layers run.                                                         *)
LEMMA ForwardInPlan ==
  ASSUME BenchInv, EngineInv', Forward, UNCHANGED plan
  PROVE  PlanInv'
<1>1. /\ EngineInv /\ WholeCall /\ result = "ok" /\ call \in CallType /\ Shape
  BY CallFacts DEF BenchInv, PlanInv
<1>2. /\ call.stage = "forward" /\ call.todo = << >> /\ UNCHANGED <<reqs, bt, result, faults>>
      /\ ~ Idle
  BY <1>1 DEF Forward, Forwarding, Idle, Shape
<1>3. /\ call'.rows = call.rows /\ call'.todo = call.todo /\ call'.stage = "forward"
      /\ call'.op = call.op /\ call'.until_finished = call.until_finished
  BY <1>1, <1>2 DEF Forward, CallType
<1>4. \A r : Feeding(r) => Feeding(r)'
  BY <1>2, <1>3 DEF Feeding
<1>5. WholeCall'
  <2>1. \A k \in DOMAIN call.rows : RowWhole(call.rows[k])
    BY <1>1 DEF WholeCall
  <2>2. \A k \in DOMAIN call'.rows :
          LET row == call'.rows[k]
          IN  /\ row.id \in DOMAIN reqs' /\ ~ NotYet(row.id)
              /\ call'.op = "prefill" => row.past + row.len = reqs'[row.id].input
    BY <1>2, <1>3, <2>1 DEF RowWhole
  <2>3. ~ call'.until_finished /\ call'.todo = << >>
    BY <1>1, <1>2, <1>3 DEF WholeCall
  <2>. QED BY <1>3, <2>2, <2>3, WholeNext
<1>. QED BY <1>1, <1>2, <1>4, <1>5, OnlyTheCall

(* A call moves on to its next stage after the model.                      *)
LEMMA SamplingInPlan ==
  ASSUME BenchInv, EngineInv', SampleBatch \/ Sample, UNCHANGED plan
  PROVE  PlanInv'
<1>1. /\ EngineInv /\ WholeCall /\ result = "ok" /\ call \in CallType /\ Shape
  BY CallFacts DEF BenchInv, PlanInv
<1>2. /\ UNCHANGED <<reqs, bt, result, faults>> /\ ~ Idle /\ call.todo = << >>
      /\ Batched \/ call.stage = "sample"
  BY <1>1 DEF SampleBatch, Sample, Forwarded, Idle, Shape
<1>3. /\ call'.rows = call.rows /\ call'.todo = call.todo /\ call'.stage \in {"mark", "append"}
      /\ call'.op = call.op /\ call'.until_finished = call.until_finished
  <2>1. CASE SampleBatch
    BY <1>1, <2>1 DEF SampleBatch, CallType
  <2>2. CASE Sample
    <3>1. reqs[Row.id].cached = reqs[Row.id].input /\ call.stage = "sample"
      BY <1>1, <2>2 DEF WholeCall, Sample
    <3>2. reqs[Row.id].input \in Nat
      BY <1>1, <3>1, RowFacts, FieldsOf
    <3>3. ~ (ExtendLen(reqs[Row.id]) > 0)
      BY <3>1, <3>2 DEF ExtendLen, DeviceLen
    <3>4. call' = [call EXCEPT !.stage = "append"]
      BY <2>2, <3>3 DEF Sample
    <3>. QED BY <1>1, <3>4 DEF CallType
  <2>. QED BY <2>1, <2>2
<1>4. \A r : ~ Feeding(r)
  BY <1>2 DEF Feeding, Batched
<1>5. WholeCall'
  <2>1. \A k \in DOMAIN call'.rows :
          call'.rows[k].id \in DOMAIN reqs' /\ ~ NotYet(call'.rows[k].id)
    BY <1>1, <1>2, <1>3, RowsStayWhole
  <2>2. ~ call'.until_finished /\ call'.todo = << >>
    BY <1>1, <1>2, <1>3 DEF WholeCall
  <2>. QED BY <1>3, <2>1, <2>2, WholeNext
<1>. QED BY <1>1, <1>2, <1>4, <1>5, OnlyTheCall

(* A step that replaces one request whose turn has come, and leaves it one *)
(* token at most.                                                          *)
LEMMA RequestInPlan ==
  ASSUME BenchInv, EngineInv', ~ Idle, UNCHANGED <<plan, bt, faults>>, result' = "ok",
         NEW r \in DOMAIN reqs, ~ NotYet(r), NEW p, reqs' = [reqs EXCEPT ![r] = p],
         p.table = reqs[r].table, Alike(p), IsFinished(reqs[r]) => IsFinished(p),
         ExtendLen(p) <= 1,
         \A s \in DOMAIN reqs \ {r} : ~ Feeding(s),
         WholeCall'
  PROVE  PlanInv'
<1>1. /\ StateInv /\ AllAlike /\ Modest /\ OneTokenLeft
  BY CallFacts DEF BenchInv, PlanInv
<1>2. /\ DOMAIN reqs' = DOMAIN reqs /\ reqs'[r] = p /\ Len(reqs') = Len(reqs)
      /\ \A s \in DOMAIN reqs \ {r} : reqs'[s] = reqs[s]
  <2>1. reqs \in Seq(RequestType)
    BY <1>1, StateFacts
  <2>2. DOMAIN reqs' = DOMAIN reqs /\ reqs'[r] = p /\ \A s \in DOMAIN reqs \ {r} : reqs'[s] = reqs[s]
    OBVIOUS
  <2>3. Len(reqs') = Len(reqs)
    <3>1. reqs' \in Seq(RequestType)
      BY CallFacts DEF EngineInv, StateInv, TypeOK
    <3>2. DOMAIN reqs = 1 .. Len(reqs) /\ DOMAIN reqs' = 1 .. Len(reqs') /\ Len(reqs) \in Nat /\ Len(reqs') \in Nat
      BY <2>1, <3>1
    <3>. QED BY <2>2, <3>2
  <2>. QED BY <2>2, <2>3
<1>3. AllAlike'
  BY <1>1, <1>2 DEF AllAlike, Alike, IsFinished
<1>4. Modest'
  BY <1>1, <1>2 DEF Modest, Quota
<1>5. OneTokenLeft'
  BY <1>1, <1>2 DEF OneTokenLeft, NotYet, Fresh, ExtendLen, DeviceLen, IsFinished
<1>6. \A s \in DOMAIN reqs : IsFinished(reqs[s]) => IsFinished(reqs'[s])
  BY <1>2
<1>. QED BY <1>2, <1>3, <1>4, <1>5, <1>6, EngineFrame

(* mark_forward_done feeds what a row has.                                 *)
LEMMA MarkInPlan ==
  ASSUME BenchInv, EngineInv', Mark, UNCHANGED plan
  PROVE  PlanInv'
<1> DEFINE r == Row.id
           q == reqs[r]
           p == MarkForwardDone(q, Row.len)
<1>1. /\ EngineInv /\ WholeCall /\ AllAlike /\ OneTokenLeft /\ result = "ok"
      /\ call \in CallType /\ Shape
  BY CallFacts DEF BenchInv, PlanInv
<1>2. /\ MayMark /\ reqs' = [reqs EXCEPT ![r] = p] /\ UNCHANGED <<bt, kv, result, faults>>
      /\ call' = [call EXCEPT !.stage = IF Batched THEN "append" ELSE "sample"]
  BY DEF Mark
<1>3. /\ r \in DOMAIN reqs /\ q \in RequestType /\ Row.len \in Nat \ {0} /\ Row.past \in Nat
      /\ ~ Batched => DOMAIN call.rows = {1} /\ Row = call.rows[1]
  BY <1>1, <1>2, RowFacts
<1>4. q.cached + Row.len <= q.input /\ Unmarked(Row) /\ RowWhole(Row)
  BY <1>1, <1>2, MarkFacts, RowIsWhole, CallerKeepsTo
<1>5. /\ p.input = q.input /\ p.cached = q.cached + Row.len /\ p.table = q.table
      /\ p.generated = q.generated /\ p.max_new = q.max_new /\ p.prompt = q.prompt
      /\ p.eos = q.eos
      /\ p.status = IF q.status = "Finished" THEN q.status ELSE "Decoding"
  BY <1>3, MarkedFields
<1>6. /\ q.input \in Nat /\ q.cached \in Nat
  BY <1>3, FieldsOf
<1>7. /\ call'.rows = call.rows /\ call'.todo = << >> /\ call'.op = call.op /\ ~ Idle
      /\ call'.stage = IF Batched THEN "append" ELSE "sample"
      /\ call'.at = call.at /\ ~ call'.until_finished
  BY <1>1, <1>2 DEF CallType, MayMark, Forwarded, Shape, Idle, WholeCall
<1>8. Row' = Row
  BY <1>7 DEF Row, Batched
<1>9. /\ ~ NotYet(r) /\ Row.past = q.cached
      /\ call.op = "prefill" => Row.past + Row.len = q.input
      /\ call.op # "prefill" => q.cached + Row.len = q.input
  <2>1. call.op = "prefill" => call.stage = "forward"
    BY <1>2 DEF MayMark, Batched, Forwarded
  <2>. QED BY <1>4, <2>1 DEF RowWhole, Unmarked
<1> HIDE DEF p, q, r
<1>10. p.cached = p.input /\ ExtendLen(p) <= 1
  BY <1>5, <1>6, <1>9 DEF ExtendLen, DeviceLen
<1>11. Alike(p) /\ (IsFinished(q) => IsFinished(p))
  BY <1>1, <1>3, <1>5 DEF AllAlike, Alike, IsFinished, q
<1>12. \A s \in DOMAIN reqs \ {r} : ~ Feeding(s)
  <2>1. ASSUME NEW s \in DOMAIN reqs \ {r}, Feeding(s) PROVE FALSE
    <3>1. ~ Batched /\ call.todo = << >>
      BY <1>1, <1>2, <2>1 DEF Feeding, Batched, Shape, MayMark, Forwarded
    <3>. QED BY <1>3, <2>1, <3>1 DEF Feeding, r
  <2>. QED BY <2>1
<1>13. WholeCall'
  <2>1. DOMAIN reqs' = DOMAIN reqs /\ reqs'[r] = p
    BY <1>2, <1>3
  <2>2. \A k \in DOMAIN call'.rows :
          call'.rows[k].id \in DOMAIN reqs' /\ ~ NotYet(call'.rows[k].id)
    BY <1>1, <1>7, <2>1, RowsStayWhole
  <2>3. reqs'[Row'.id].cached = reqs'[Row'.id].input
    BY <1>8, <1>10, <2>1 DEF r
  <2>4. call'.stage \notin {"reserve", "forward"}
    BY <1>7
  <2>. QED BY <1>7, <2>2, <2>3, <2>4, WholeNext
<1>. QED BY <1>1, <1>2, <1>3, <1>5, <1>7, <1>9, <1>10, <1>11, <1>12, <1>13, RequestInPlan DEF q

(* The sampled token is the one that is left to feed.                      *)
LEMMA AppendInPlan ==
  ASSUME BenchInv, EngineInv', NEW is_eos \in BOOLEAN, AppendSampled(is_eos), UNCHANGED plan
  PROVE  PlanInv'
<1> DEFINE r == Row.id
           q == reqs[r]
           p == AppendToken(q, is_eos)
<1>1. /\ EngineInv /\ WholeCall /\ AllAlike /\ OneTokenLeft /\ result = "ok"
      /\ call \in CallType /\ Shape /\ RowMarked
  BY CallFacts DEF BenchInv, PlanInv
<1>2. /\ call.stage = "append" /\ q.status = "Decoding" /\ reqs' = [reqs EXCEPT ![r] = p]
      /\ Proceed(p) /\ UNCHANGED <<bt, kv, faults>> /\ ~ Idle
  BY DEF AppendSampled, MayAppend, Idle
<1>3. r \in DOMAIN reqs /\ q \in RequestType /\ RowWhole(Row)
  BY <1>1, <1>2, RowFacts, RowIsWhole
<1>4. q.cached = q.input
  BY <1>1, <1>2, CallerKeepsTo DEF RowMarked
<1>5. /\ p.input = q.input + 1 /\ p.generated = q.generated + 1 /\ p.prompt = q.prompt
      /\ p.cached = q.cached /\ p.max_new = q.max_new /\ p.table = q.table /\ p.eos = is_eos
      /\ p.status = IF is_eos \/ q.generated + 1 >= q.max_new THEN "Finished" ELSE "Decoding"
  BY <1>3, AppendedFields
<1>6. q.input \in Nat /\ q.generated \in Nat
  BY <1>3, FieldsOf
<1>7. ~ NotYet(r)
  BY <1>3 DEF RowWhole
<1>8. \/ /\ Batched /\ call' = [call EXCEPT !.stage = "mark", !.at = call.at + 1]
         /\ result' = "ok"
      \/ call' = NoCall /\ result' = "ok"
  <2>1. ~ call.until_finished
    BY <1>1 DEF WholeCall
  <2>2. CASE Batched /\ call.at < Len(call.rows)
    <3>1. call' = [call EXCEPT !.stage = "mark", !.at = @ + 1] /\ UNCHANGED result
      BY <1>2, <2>1, <2>2 DEF Proceed
    <3>. QED BY <1>1, <2>2, <3>1
  <2>3. CASE ~ (Batched /\ call.at < Len(call.rows))
    BY <1>2, <2>1, <2>3 DEF Proceed, Return
  <2>. QED BY <2>2, <2>3
<1> HIDE DEF p, q, r
<1>9. ExtendLen(p) <= 1
  BY <1>4, <1>5, <1>6 DEF ExtendLen, DeviceLen
<1>10. Alike(p) /\ (IsFinished(q) => IsFinished(p))
  <2>1. p.generated >= 1
    BY <1>5, <1>6
  <2>2. IsFinished(p) => p.eos = TRUE \/ p.generated >= p.max_new
    BY <1>5 DEF IsFinished
  <2>. QED BY <1>1, <1>2, <1>3, <1>5, <2>1, <2>2 DEF AllAlike, Alike, IsFinished, q
<1>11. \A s \in DOMAIN reqs \ {r} : ~ Feeding(s)
  BY <1>2 DEF Feeding
<1>12. WholeCall'
  <2>1. CASE call' = NoCall
    BY <2>1 DEF WholeCall, NoCall
  <2>2. CASE Batched /\ call' = [call EXCEPT !.stage = "mark", !.at = call.at + 1]
    <3>1. /\ call'.rows = call.rows /\ call'.todo = << >> /\ call'.op = call.op
          /\ call'.stage = "mark" /\ ~ call'.until_finished
      BY <1>1, <1>2, <2>2 DEF CallType, Shape, WholeCall
    <3>2. DOMAIN reqs' = DOMAIN reqs
      BY <1>2
    <3>3. \A k \in DOMAIN call'.rows :
            call'.rows[k].id \in DOMAIN reqs' /\ ~ NotYet(call'.rows[k].id)
      BY <1>1, <3>1, <3>2, RowsStayWhole
    <3>. QED BY <3>1, <3>3, WholeNext
  <2>. QED BY <1>8, <2>1, <2>2
<1>13. result' = "ok"
  BY <1>8
<1>. QED BY <1>2, <1>3, <1>5, <1>7, <1>9, <1>10, <1>11, <1>12, <1>13, RequestInPlan DEF q

(* Every step of the engine keeps the invariant of the run.                *)
LEMMA EngineInPlan ==
  ASSUME BenchInv, PageSize <= Slack + 2, EngineStep, UNCHANGED plan
  PROVE  BenchInv'
<1>1. EngineInv /\ HasToken
  BY DEF BenchInv
<1>2. EngineInv'
  BY <1>1, EngineKeeps
<1>3. HasToken'
  BY <1>1, <1>2, EngineLeavesTokens
<1>4. PlanInv'
  BY <1>2, NothingRefused, SkipsInPlan, ReserveInPlan, DoneInPlan, ForwardInPlan, SamplingInPlan,
     MarkInPlan, AppendInPlan DEF EngineStep
<1>. QED BY <1>2, <1>3, <1>4 DEF BenchInv

-----------------------------------------------------------------------------
(* The steps of the benchmark between the calls.                           *)

(* A loop over the requests moves on.                                      *)
LEMMA TurnFields ==
  ASSUME PlanType, NEW next_loop, Turn(next_loop)
  PROVE  /\ plan'.mode = plan.mode /\ plan'.prompt_len = plan.prompt_len
         /\ plan'.max_new = plan.max_new /\ plan'.all_finished = plan.all_finished
         /\ plan.i < NumRequests => plan'.at = plan.at /\ plan'.i = plan.i + 1
         /\ ~ (plan.i < NumRequests) => plan'.at = next_loop /\ plan'.i = 1 /\ plan.i = NumRequests
         /\ plan'.i \in 1 .. NumRequests
         /\ next_loop \in {"add", "prefill", "round", "turns", "release", "done"} =>
              plan' \in [mode : {"interleaved", "batch"}, prompt_len : PromptLens,
                         max_new : MaxNews,
                         at : {"add", "prefill", "round", "turns", "release", "done"},
                         i : 1 .. NumRequests, all_finished : BOOLEAN]
<1> DEFINE Type == [mode : {"interleaved", "batch"}, prompt_len : PromptLens, max_new : MaxNews,
                    at : {"add", "prefill", "round", "turns", "release", "done"},
                    i : 1 .. NumRequests, all_finished : BOOLEAN]
<1>1. plan \in Type /\ plan.i \in 1 .. NumRequests /\ NumRequests \in Nat \ {0}
  BY PlanFields DEF PlanType
<1>2. CASE plan.i < NumRequests
  <2>1. plan' = [plan EXCEPT !.i = plan.i + 1] /\ plan.i + 1 \in 1 .. NumRequests
    BY <1>1, <1>2 DEF Turn
  <2>. QED BY <1>1, <1>2, <2>1
<1>3. CASE ~ (plan.i < NumRequests)
  <2>1. plan' = [plan EXCEPT !.at = next_loop, !.i = 1] /\ 1 \in 1 .. NumRequests
        /\ plan.i = NumRequests
    BY <1>1, <1>3 DEF Turn
  <2>. QED BY <1>1, <1>3, <2>1
<1>. QED BY <1>2, <1>3

(* What an idle engine means for the invariant.                            *)
LEMMA IdleFacts ==
  ASSUME BenchInv, Idle
  PROVE  /\ EngineInv /\ StateInv /\ HasToken /\ PlanType /\ AllAlike /\ Modest /\ OneTokenLeft
         /\ FlagTrue /\ Released /\ result = "ok" /\ call = NoCall
         /\ reqs \in Seq(RequestType) /\ DOMAIN reqs = 1 .. Len(reqs) /\ Len(reqs) \in Nat
         /\ \A r : ~ Feeding(r)
<1>1. /\ EngineInv /\ StateInv /\ HasToken /\ PlanType /\ AllAlike /\ Modest /\ OneTokenLeft
      /\ FlagTrue /\ Released /\ result = "ok" /\ call = NoCall
  BY CallFacts DEF BenchInv, PlanInv, Shape
<1>2. \A r : ~ Feeding(r)
  BY <1>1 DEF Feeding, NoCall
<1>. QED BY <1>1, <1>2, StateFacts, RequestFields

(* The engine's own invariants after a step of its caller.                 *)
LEMMA CallerInPlan ==
  ASSUME BenchInv, CallerStep
  PROVE  EngineInv' /\ HasToken'
BY CallerKeeps, CallerLeavesTokens DEF BenchInv

(* Nor does a step without one disturb them.                               *)
LEMMA PauseInPlan ==
  ASSUME BenchInv, UNCHANGED vars
  PROVE  EngineInv' /\ HasToken'
<1>1. EngineInv' /\ HasToken
  BY StutterKeeps DEF BenchInv
<1>2. HasToken'
  BY <1>1 DEF HasToken, vars, Row, Batched
<1>. QED BY <1>1, <1>2

(* No call is under way.                                                   *)
LEMMA NoCallIsWhole ==
  ASSUME call' = NoCall
  PROVE  WholeCall' /\ Idle'
BY DEF WholeCall, NoCall, Idle

(* The run adds its requests, all alike.                                   *)
LEMMA AddInPlan ==
  ASSUME BenchInv, BenchAdd
  PROVE  BenchInv'
<1> DEFINE q == NewRequest(plan.prompt_len, plan.max_new)
<1>1. /\ Idle /\ plan.at = "add" /\ AddRequest(plan.prompt_len, plan.max_new) /\ Turn("prefill")
  BY DEF BenchAdd, Going
<1>2. /\ PlanType /\ AllAlike /\ Modest /\ OneTokenLeft /\ FlagTrue /\ StateInv
      /\ reqs \in Seq(RequestType) /\ DOMAIN reqs = 1 .. Len(reqs) /\ Len(reqs) \in Nat
  BY <1>1, IdleFacts
<1>3. /\ plan.prompt_len \in PromptLens /\ plan.max_new \in MaxNews
      /\ plan.prompt_len \in Nat \ {0} /\ plan.max_new \in Nat \ {0}
  BY <1>2, PlanFields
<1>4. EngineInv' /\ HasToken'
  <2>1. CallerStep
    BY <1>1, <1>3 DEF CallerStep
  <2>. QED BY <2>1, CallerInPlan
<1>5. /\ reqs' = Append(reqs, q) /\ call' = NoCall /\ result' = "ok" /\ UNCHANGED <<bt, faults>>
  BY <1>1 DEF AddRequest, Return
<1>6. /\ q \in RequestType /\ q.prompt = plan.prompt_len /\ q.max_new = plan.max_new
      /\ q.cached = 0 /\ q.generated = 0 /\ ~ IsFinished(q) /\ q.table = NoTable
  BY <1>3 DEF NewRequest, RequestType, Statuses, NoTable, IsFinished
<1> HIDE DEF q
<1>7. /\ Len(reqs') = Len(reqs) + 1 /\ DOMAIN reqs' = 1 .. (Len(reqs) + 1)
      /\ \A s \in DOMAIN reqs' : (s \in DOMAIN reqs /\ reqs'[s] = reqs[s]) \/ reqs'[s] = q
  <2>1. /\ \A s \in DOMAIN Append(reqs, q) :
             (s \in DOMAIN reqs /\ Append(reqs, q)[s] = reqs[s]) \/ Append(reqs, q)[s] = q
    BY <1>2, <1>6, AppendElements
  <2>2. Len(Append(reqs, q)) = Len(reqs) + 1 /\ DOMAIN Append(reqs, q) = 1 .. (Len(reqs) + 1)
    BY <1>2, <1>6
  <2>. QED BY <1>5, <2>1, <2>2
<1>8. /\ plan'.prompt_len = plan.prompt_len /\ plan'.max_new = plan.max_new
      /\ plan'.all_finished = plan.all_finished
      /\ plan.i < NumRequests => plan'.at = "add" /\ plan'.i = plan.i + 1
      /\ ~ (plan.i < NumRequests) => plan'.at = "prefill" /\ plan'.i = 1 /\ plan.i = NumRequests
      /\ plan' \in [mode : {"interleaved", "batch"}, prompt_len : PromptLens, max_new : MaxNews,
                    at : {"add", "prefill", "round", "turns", "release", "done"},
                    i : 1 .. NumRequests, all_finished : BOOLEAN]
  BY <1>1, <1>2, TurnFields
<1>9. PlanType'
  <2>1. Len(reqs') = plan.i
    <3>1. Len(reqs) = plan.i - 1
      BY <1>1, <1>2 DEF PlanType
    <3>. QED BY <1>2, <1>7, <3>1, PlanFields
  <2>2. Len(reqs') = IF plan'.at = "add" THEN plan'.i - 1 ELSE NumRequests
    BY <1>2, <1>8, <2>1, PlanFields
  <2>3. plan'.at \in {"add", "prefill"} /\ Idle'
    BY <1>5, <1>8, NoCallIsWhole
  <2>. QED BY <1>2, <1>5, <1>8, <2>2, <2>3 DEF PlanType, TokensPerRequest
<1>10. AllAlike'
  BY <1>2, <1>6, <1>7, <1>8 DEF AllAlike, Alike
<1>11. Modest'
  BY <1>2, <1>5, <1>6, <1>7, <1>8 DEF Modest, Quota
<1>12. OneTokenLeft'
  <2>1. \A s \in DOMAIN reqs : Fresh(reqs[s])
    BY <1>1, <1>2 DEF OneTokenLeft, NotYet
  <2>2. \A s \in DOMAIN reqs' : Fresh(reqs'[s])
    BY <1>6, <1>7, <2>1 DEF Fresh
  <2>3. \A s \in DOMAIN reqs' : NotYet(s)'
    BY <1>7, <1>8 DEF NotYet
  <2>. QED BY <2>2, <2>3 DEF OneTokenLeft, Fresh, IsFinished
<1>13. FlagTrue' /\ Released'
  BY <1>1, <1>2, <1>8 DEF FlagTrue, Released
<1>. QED
  BY <1>4, <1>5, <1>9, <1>10, <1>11, <1>12, <1>13, NoCallIsWhole DEF BenchInv, PlanInv

(* Prefill of the next request, which none has fed yet.                    *)
LEMMA PrefillInPlan ==
  ASSUME BenchInv, BenchPrefill
  PROVE  BenchInv'
<1> PICK r : r = plan.i
  OBVIOUS
<1> PICK w : w = Chunk(r)
  OBVIOUS
<1>1. /\ Idle /\ plan.at = "prefill" /\ Turn("round")
  BY DEF BenchPrefill, Going
<1>2. /\ PlanType /\ AllAlike /\ Modest /\ OneTokenLeft /\ FlagTrue /\ StateInv
      /\ reqs \in Seq(RequestType) /\ DOMAIN reqs = 1 .. Len(reqs) /\ Len(reqs) \in Nat
      /\ \A s : ~ Feeding(s)
  BY <1>1, IdleFacts
<1>3. r \in DOMAIN reqs /\ r \in Ids /\ Len(reqs) = NumRequests
  BY <1>1, <1>2, PlanFields DEF PlanType, Ids
<1>4. Fresh(reqs[r]) /\ reqs[r] \in RequestType
  <2>1. NotYet(r)
    BY <1>1, <1>2, PlanFields DEF NotYet
  <2>. QED BY <1>2, <1>3, <2>1 DEF OneTokenLeft
<1>5. Prefill(r)
  BY <1>4 DEF BenchPrefill, Fresh
<1>6. EngineInv' /\ HasToken'
  <2>1. CallerStep
    BY <1>3, <1>5 DEF CallerStep
  <2>. QED BY <2>1, CallerInPlan
<1>7. /\ Start("prefill", FALSE, <<w>>) /\ UNCHANGED <<reqs, bt, kv, faults>>
  BY <1>5 DEF Prefill
<1>8. /\ call'.op = "prefill" /\ call'.stage = "reserve" /\ call'.rows = << >>
      /\ call'.todo = <<w>> /\ ~ call'.until_finished /\ result' = "ok"
  <2>. QED BY <1>7 DEF Start, NoCall
<1>9. w.id = r /\ reqs[r].cached + w.len = reqs[r].input
  <2>1. w = [id |-> r, len |-> ExtendLen(reqs[r])] /\ reqs[r].cached = 0 /\ reqs[r].input \in Nat
    BY <1>4, FieldsOf DEF Chunk, Fresh
  <2>. QED BY <2>1 DEF ExtendLen, DeviceLen
<1>10. /\ plan'.prompt_len = plan.prompt_len /\ plan'.max_new = plan.max_new
       /\ plan'.all_finished = plan.all_finished
       /\ plan.i < NumRequests => plan'.at = "prefill" /\ plan'.i = plan.i + 1
       /\ ~ (plan.i < NumRequests) => plan'.at = "round" /\ plan'.i = 1 /\ plan.i = NumRequests
       /\ plan' \in [mode : {"interleaved", "batch"}, prompt_len : PromptLens, max_new : MaxNews,
                     at : {"add", "prefill", "round", "turns", "release", "done"},
                     i : 1 .. NumRequests, all_finished : BOOLEAN]
  BY <1>1, <1>2, TurnFields
<1>11. PlanType'
  BY <1>2, <1>3, <1>7, <1>10 DEF PlanType, TokensPerRequest
<1>12. AllAlike' /\ Modest'
  BY <1>2, <1>7, <1>10 DEF AllAlike, Alike, Modest, Quota
<1>13. ~ NotYet(r)' /\ \A s \in DOMAIN reqs : NotYet(s)' => NotYet(s)
  BY <1>1, <1>2, <1>10, PlanFields DEF NotYet
<1>14. \A s \in DOMAIN reqs : NotYet(s) /\ ~ NotYet(s)' => s = r
  BY <1>1, <1>2, <1>3, <1>10, PlanFields DEF NotYet
<1>15. OneTokenLeft'
  <2>1. SUFFICES ASSUME NEW s \in DOMAIN reqs
                 PROVE  IF NotYet(s)' THEN Fresh(reqs[s])
                        ELSE ExtendLen(reqs[s]) <= 1 \/ Feeding(s)'
    BY <1>7 DEF OneTokenLeft, Fresh, ExtendLen, DeviceLen, IsFinished
  <2>2. CASE NotYet(s)'
    BY <1>2, <1>13, <2>1, <2>2 DEF OneTokenLeft
  <2>3. CASE s = r
    <3>1. 1 \in DOMAIN call'.todo /\ call'.todo[1].id = r
      BY <1>8, <1>9
    <3>2. Feeding(s)'
      BY <1>8, <2>3, <3>1 DEF Feeding
    <3>. QED BY <1>13, <2>3, <3>2
  <2>4. CASE ~ NotYet(s)' /\ s # r
    BY <1>2, <1>14, <2>1, <2>4 DEF OneTokenLeft
  <2>. QED BY <2>2, <2>3, <2>4
<1>16. WholeCall'
  <2>1. \A j \in DOMAIN call'.todo : call'.todo[j] = w
    BY <1>8
  <2>. QED BY <1>3, <1>7, <1>8, <1>9, <1>13, <2>1 DEF WholeCall, TodoWhole, NotYet
<1>17. FlagTrue' /\ Released'
  BY <1>1, <1>2, <1>10 DEF FlagTrue, Released
<1>. QED BY <1>6, <1>8, <1>11, <1>12, <1>15, <1>16, <1>17 DEF BenchInv, PlanInv

(* Rounds, once every request has had its turn of prefill: the plan moves  *)
(* on, and a call may begin.                                               *)
LEMMA RoundFrame ==
  ASSUME BenchInv, Idle, plan.at \in {"round", "turns"},
         plan'.at \in {"round", "turns", "release"}, plan'.mode = plan.mode,
         plan'.prompt_len = plan.prompt_len, plan'.max_new = plan.max_new,
         plan' \in [mode : {"interleaved", "batch"}, prompt_len : PromptLens, max_new : MaxNews,
                    at : {"add", "prefill", "round", "turns", "release", "done"},
                    i : 1 .. NumRequests, all_finished : BOOLEAN],
         plan'.at \in {"round", "release"} => plan'.i = 1, plan'.at = "release" => Idle',
         UNCHANGED <<reqs, bt, faults>>, result' = "ok", EngineInv', HasToken',
         WholeCall', FlagTrue'
  PROVE  BenchInv'
<1>1. /\ PlanType /\ AllAlike /\ Modest /\ OneTokenLeft
      /\ DOMAIN reqs = 1 .. Len(reqs) /\ Len(reqs) \in Nat /\ \A r : ~ Feeding(r)
  BY IdleFacts
<1>2. PlanType'
  BY <1>1 DEF PlanType, TokensPerRequest
<1>3. AllAlike' /\ Modest'
  BY <1>1 DEF AllAlike, Alike, Modest, Quota
<1>4. OneTokenLeft'
  <2>1. \A r \in DOMAIN reqs : ExtendLen(reqs[r]) <= 1
    BY <1>1 DEF OneTokenLeft, NotYet
  <2>. QED BY <2>1 DEF OneTokenLeft, NotYet, ExtendLen, DeviceLen
<1>5. Released'
  <2>1. \A r \in DOMAIN reqs : plan'.at = "release" => ~ (r < plan'.i)
    BY <1>1
  <2>. QED BY <2>1 DEF Released
<1>. QED BY <1>2, <1>3, <1>4, <1>5 DEF BenchInv, PlanInv

(* No call begins.                                                         *)
LEMMA PausesWhole ==
  ASSUME BenchInv, Idle, UNCHANGED vars
  PROVE  /\ UNCHANGED <<reqs, bt, faults>> /\ result' = "ok" /\ EngineInv' /\ HasToken'
         /\ WholeCall' /\ Idle'
<1>1. UNCHANGED <<reqs, bt, kv, call, result, faults>>
  BY DEF vars
<1>2. result = "ok" /\ call' = NoCall
  BY <1>1, IdleFacts
<1>3. WholeCall' /\ Idle'
  BY <1>2, NoCallIsWhole
<1>. QED BY <1>1, <1>2, <1>3, PauseInPlan

(* A round of turns begins.                                                *)
LEMMA BeginInPlan ==
  ASSUME BenchInv, BeginRound
  PROVE  BenchInv'
<1>1. /\ Idle /\ plan.at = "round" /\ UNCHANGED vars
      /\ plan' = [plan EXCEPT !.at = "turns", !.all_finished = TRUE]
  BY DEF BeginRound, Going
<1>2. PlanType /\ plan.i = 1 /\ plan.i \in 1 .. NumRequests
  BY <1>1, IdleFacts, PlanFields DEF PlanType
<1>3. /\ plan'.at = "turns" /\ plan'.mode = plan.mode /\ plan'.prompt_len = plan.prompt_len
      /\ plan'.max_new = plan.max_new /\ plan'.i = 1
      /\ plan' \in [mode : {"interleaved", "batch"}, prompt_len : PromptLens, max_new : MaxNews,
                    at : {"add", "prefill", "round", "turns", "release", "done"},
                    i : 1 .. NumRequests, all_finished : BOOLEAN]
  BY <1>1, <1>2 DEF PlanType
<1>4. FlagTrue'
  <2>1. 1 .. (plan'.i - 1) = {}
    BY <1>3
  <2>. QED BY <1>3, <2>1 DEF FlagTrue, AllFinished
<1>. QED BY <1>1, <1>3, <1>4, PausesWhole, RoundFrame

(* One turn: the request decodes a token, unless it is finished.           *)
LEMMA TurnInPlan ==
  ASSUME BenchInv, TurnOfRound
  PROVE  BenchInv'
<1> PICK r : r = plan.i
  OBVIOUS
<1> PICK w : w = OneToken(r)
  OBVIOUS
<1>1. /\ Idle /\ plan.at = "turns"
      /\ plan' = [plan EXCEPT !.all_finished = StillAllFinished,
                              !.at = IF plan.i < NumRequests THEN "turns" ELSE "round",
                              !.i = IF plan.i < NumRequests THEN plan.i + 1 ELSE 1]
      /\ IF IsFinished(reqs[r]) THEN UNCHANGED vars ELSE DecodeOneStep(r)
  BY IdleFacts DEF TurnOfRound, Going, PlanType
<1>2. /\ PlanType /\ FlagTrue /\ plan.i \in 1 .. NumRequests /\ NumRequests \in Nat \ {0}
      /\ plan.all_finished \in BOOLEAN /\ call = NoCall
      /\ DOMAIN reqs = 1 .. Len(reqs) /\ Len(reqs) = NumRequests /\ r \in DOMAIN reqs /\ r \in Ids
  BY <1>1, IdleFacts, PlanFields DEF PlanType, Ids
<1>3. /\ plan'.mode = plan.mode /\ plan'.prompt_len = plan.prompt_len
      /\ plan'.max_new = plan.max_new
      /\ plan'.all_finished = StillAllFinished
      /\ plan.i < NumRequests => plan'.at = "turns" /\ plan'.i = plan.i + 1
      /\ ~ (plan.i < NumRequests) => plan'.at = "round" /\ plan'.i = 1 /\ plan.i = NumRequests
      /\ plan' \in [mode : {"interleaved", "batch"}, prompt_len : PromptLens, max_new : MaxNews,
                    at : {"add", "prefill", "round", "turns", "release", "done"},
                    i : 1 .. NumRequests, all_finished : BOOLEAN]
  <2>1. StillAllFinished \in BOOLEAN
    BY <1>2 DEF StillAllFinished, IsFinished
  <2>2. /\ plan.i < NumRequests => plan.i + 1 \in 1 .. NumRequests
        /\ ~ (plan.i < NumRequests) => plan.i = NumRequests
        /\ 1 \in 1 .. NumRequests
    BY <1>2
  <2> HIDE DEF StillAllFinished
  <2>3. CASE plan.i < NumRequests
    <3>1. plan' = [plan EXCEPT !.all_finished = StillAllFinished, !.at = "turns",
                               !.i = plan.i + 1]
      BY <1>1, <2>3
    <3>. QED BY <1>2, <2>1, <2>2, <2>3, <3>1 DEF PlanType
  <2>4. CASE ~ (plan.i < NumRequests)
    <3>1. plan' = [plan EXCEPT !.all_finished = StillAllFinished, !.at = "round", !.i = 1]
      BY <1>1, <2>4
    <3>. QED BY <1>2, <2>1, <2>2, <2>4, <3>1 DEF PlanType
  <2>. QED BY <2>3, <2>4
<1>4. UNCHANGED <<reqs, bt, faults>>
  BY <1>1 DEF vars, DecodeOneStep
<1>5. FlagTrue'
  <2>1. plan'.all_finished => AllFinished(plan.i)
    <3>1. SUFFICES ASSUME StillAllFinished, NEW s \in 1 .. plan.i PROVE IsFinished(reqs[s])
      BY <1>3 DEF AllFinished
    <3>2. AllFinished(plan.i - 1) /\ IsFinished(reqs[plan.i])
      BY <1>1, <1>2, <3>1 DEF StillAllFinished, FlagTrue
    <3>3. s = plan.i \/ s \in 1 .. (plan.i - 1)
      BY <1>2, <3>1
    <3>. QED BY <3>2, <3>3 DEF AllFinished
  <2>2. plan.i < NumRequests => plan'.i - 1 = plan.i
    BY <1>2, <1>3
  <2>. QED BY <1>3, <1>4, <2>1, <2>2 DEF FlagTrue, AllFinished, IsFinished
<1>6. CASE IsFinished(reqs[r])
  BY <1>1, <1>3, <1>5, <1>6, PausesWhole, RoundFrame
<1>7. CASE ~ IsFinished(reqs[r])
  <2>1. DecodeOneStep(r)
    BY <1>1, <1>7
  <2>2. EngineInv' /\ HasToken'
    <3>1. CallerStep
      BY <1>2, <2>1 DEF CallerStep
    <3>. QED BY <3>1, CallerInPlan
  <2>3. /\ call'.op = "decode" /\ call'.stage = "reserve" /\ call'.rows = << >>
        /\ call'.todo = <<w>> /\ ~ call'.until_finished /\ result' = "ok"
    BY <2>1 DEF DecodeOneStep, Start, NoCall
  <2>4. WholeCall'
    <3>1. \A j \in DOMAIN call'.todo : call'.todo[j].id = r
      BY <2>3 DEF OneToken
    <3>2. plan'.at \notin {"add", "prefill"}
      BY <1>3
    <3>. QED BY <1>2, <1>4, <2>3, <3>1, <3>2 DEF WholeCall, TodoWhole, NotYet
  <2>. QED BY <1>1, <1>3, <1>4, <1>5, <2>2, <2>3, <2>4, RoundFrame
<1>. QED BY <1>6, <1>7

(* A batch of all that are not finished.                                   *)
LEMMA BatchInPlan ==
  ASSUME BenchInv, BatchRound
  PROVE  BenchInv'
<1>1. /\ Idle /\ plan.at = "round" /\ plan' = [plan EXCEPT !.all_finished = (Active = {})]
      /\ IF Active = {} THEN UNCHANGED vars
         ELSE \E ids \in Batches : ActiveIds(ids) /\ DecodeBatch(ids)
  BY DEF BatchRound, Going
<1>2. /\ PlanType /\ FlagTrue /\ plan.i = 1 /\ plan.i \in 1 .. NumRequests
      /\ DOMAIN reqs = 1 .. Len(reqs) /\ Len(reqs) = NumRequests
  BY <1>1, IdleFacts, PlanFields DEF PlanType
<1>3. /\ plan'.at = "round" /\ plan'.mode = plan.mode /\ plan'.prompt_len = plan.prompt_len
      /\ plan'.max_new = plan.max_new /\ plan'.i = 1
      /\ plan'.all_finished <=> Active = {}
      /\ plan' \in [mode : {"interleaved", "batch"}, prompt_len : PromptLens, max_new : MaxNews,
                    at : {"add", "prefill", "round", "turns", "release", "done"},
                    i : 1 .. NumRequests, all_finished : BOOLEAN]
  <2> DEFINE flag == (Active = {})
  <2>1. plan' = [plan EXCEPT !.all_finished = flag] /\ flag \in BOOLEAN
    BY <1>1
  <2> HIDE DEF flag
  <2>2. /\ plan'.at = "round" /\ plan'.mode = plan.mode /\ plan'.prompt_len = plan.prompt_len
        /\ plan'.max_new = plan.max_new /\ plan'.i = 1 /\ plan'.all_finished = flag
        /\ plan' \in [mode : {"interleaved", "batch"}, prompt_len : PromptLens, max_new : MaxNews,
                      at : {"add", "prefill", "round", "turns", "release", "done"},
                      i : 1 .. NumRequests, all_finished : BOOLEAN]
    BY <1>1, <1>2, <2>1 DEF PlanType
  <2>. QED BY <2>1, <2>2 DEF flag
<1>4. UNCHANGED <<reqs, bt, faults>>
  BY <1>1 DEF vars, DecodeBatch
<1>5. FlagTrue'
  <2>1. plan'.all_finished => AllFinished(NumRequests)
    BY <1>2, <1>3 DEF Active, AllFinished
  <2>. QED BY <1>3, <1>4, <2>1 DEF FlagTrue, AllFinished, IsFinished
<1>6. CASE Active = {}
  BY <1>1, <1>3, <1>5, <1>6, PausesWhole, RoundFrame
<1>7. CASE Active # {}
  <2>1. PICK ids \in Batches : ActiveIds(ids) /\ DecodeBatch(ids)
    BY <1>1, <1>7
  <2>2. EngineInv' /\ HasToken'
    <3>1. CallerStep
      BY <2>1 DEF CallerStep
    <3>. QED BY <3>1, CallerInPlan
  <2>3. /\ call'.op = "batch" /\ call'.stage = "reserve" /\ call'.rows = << >>
        /\ call'.todo = [i \in DOMAIN ids |-> OneToken(ids[i])]
        /\ ~ call'.until_finished /\ result' = "ok"
    BY <2>1 DEF DecodeBatch, Start, NoCall
  <2>4. WholeCall'
    <3>1. \A j \in DOMAIN ids : ids[j] \in DOMAIN reqs
      <4>1. \A j \in DOMAIN ids : ids[j] \in Active
        BY <2>1 DEF ActiveIds, ToSet
      <4>. QED BY <4>1 DEF Active
    <3>2. \A j \in DOMAIN call'.todo : call'.todo[j].id \in DOMAIN reqs
      BY <2>3, <3>1 DEF OneToken
    <3>3. plan'.at \notin {"add", "prefill"}
      BY <1>3
    <3>. QED BY <1>4, <2>3, <3>2, <3>3 DEF WholeCall, TodoWhole, NotYet
  <2>. QED BY <1>1, <1>3, <1>4, <1>5, <2>2, <2>3, <2>4, RoundFrame
<1>. QED BY <1>6, <1>7

(* Decoding ends.                                                          *)
LEMMA EndInPlan ==
  ASSUME BenchInv, EndRounds
  PROVE  BenchInv'
<1>1. /\ Idle /\ plan.at = "round" /\ plan.all_finished /\ UNCHANGED vars
      /\ plan' = [plan EXCEPT !.at = "release"]
  BY DEF EndRounds, Going
<1>2. PlanType /\ FlagTrue /\ plan.i = 1
  BY <1>1, IdleFacts DEF PlanType
<1>3. /\ plan'.at = "release" /\ plan'.mode = plan.mode /\ plan'.prompt_len = plan.prompt_len
      /\ plan'.max_new = plan.max_new /\ plan'.i = 1
      /\ plan' \in [mode : {"interleaved", "batch"}, prompt_len : PromptLens, max_new : MaxNews,
                    at : {"add", "prefill", "round", "turns", "release", "done"},
                    i : 1 .. NumRequests, all_finished : BOOLEAN]
  BY <1>1, <1>2 DEF PlanType
<1>4. FlagTrue'
  <2>1. AllFinished(NumRequests)
    BY <1>1, <1>2 DEF FlagTrue
  <2>. QED BY <1>1, <1>3, <2>1 DEF FlagTrue, AllFinished, IsFinished, vars
<1>. QED BY <1>1, <1>3, <1>4, PausesWhole, RoundFrame

(* The requests give their blocks back, one after the other.               *)
LEMMA ReleaseInPlan ==
  ASSUME BenchInv, BenchRelease
  PROVE  BenchInv'
<1> PICK r : r = plan.i
  OBVIOUS
<1> DEFINE q == reqs[r]
           p == FinishRequest([q EXCEPT !.table = NoTable])
<1>1. Idle /\ plan.at = "release" /\ Release(r) /\ Turn("done")
  BY DEF BenchRelease, Going
<1>2. /\ PlanType /\ FlagTrue /\ AllAlike /\ Modest /\ OneTokenLeft /\ Released /\ StateInv
      /\ plan.i \in 1 .. NumRequests /\ NumRequests \in Nat \ {0}
      /\ DOMAIN reqs = 1 .. Len(reqs) /\ Len(reqs) = NumRequests /\ r \in DOMAIN reqs /\ r \in Ids
      /\ reqs \in Seq(RequestType) /\ \A s : ~ Feeding(s)
  BY <1>1, IdleFacts, PlanFields DEF PlanType, Ids
<1>3. EngineInv' /\ HasToken'
  <2>1. CallerStep
    BY <1>1, <1>2 DEF CallerStep
  <2>. QED BY <2>1, CallerInPlan
<1>4. /\ bt' = WithoutTable(bt, q) /\ reqs' = [reqs EXCEPT ![r] = p] /\ call' = NoCall
      /\ result' = "ok" /\ UNCHANGED faults
  BY <1>1 DEF Release, Return
<1>5. q \in RequestType /\ (q.table # NoTable => IsTableUsed(bt, q.table)) /\ WellFormed(bt)
  BY <1>2, StateFacts, RequestFields
<1>6. /\ IsFinished(p) /\ p.input = q.input /\ p.cached = q.cached /\ p.max_new = q.max_new
      /\ p.generated = q.generated /\ p.prompt = q.prompt /\ p.table = NoTable
      /\ p.eos = q.eos
  <2>1. p.table = NoTable
    BY <1>5 DEF FinishRequest, RequestType, NoTable
  <2> HIDE DEF q
  <2>. QED BY <1>5, <2>1, FinishFields
<1> HIDE DEF p
<1>7. /\ DOMAIN reqs' = DOMAIN reqs /\ reqs'[r] = p /\ Len(reqs') = Len(reqs)
      /\ \A s \in DOMAIN reqs \ {r} : reqs'[s] = reqs[s]
  <2>1. /\ DOMAIN reqs' = DOMAIN reqs /\ reqs'[r] = p
        /\ \A s \in DOMAIN reqs \ {r} : reqs'[s] = reqs[s]
    BY <1>2, <1>4
  <2>2. reqs' \in Seq(RequestType)
    BY <1>3, CallFacts DEF EngineInv, StateInv, TypeOK
  <2>3. DOMAIN reqs' = 1 .. Len(reqs') /\ Len(reqs') \in Nat
    BY <2>2
  <2>. QED BY <1>2, <2>1, <2>3
<1>8. /\ plan'.prompt_len = plan.prompt_len /\ plan'.max_new = plan.max_new
      /\ plan.i < NumRequests => plan'.at = "release" /\ plan'.i = plan.i + 1
      /\ ~ (plan.i < NumRequests) => plan'.at = "done" /\ plan'.i = 1 /\ plan.i = NumRequests
      /\ plan' \in [mode : {"interleaved", "batch"}, prompt_len : PromptLens, max_new : MaxNews,
                    at : {"add", "prefill", "round", "turns", "release", "done"},
                    i : 1 .. NumRequests, all_finished : BOOLEAN]
  BY <1>1, <1>2, TurnFields
<1>9. PlanType'
  BY <1>2, <1>4, <1>7, <1>8, NoCallIsWhole DEF PlanType, TokensPerRequest
<1>10. AllFinished(NumRequests) /\ AllFinished(NumRequests)'
  <2>1. AllFinished(NumRequests)
    BY <1>1, <1>2 DEF FlagTrue
  <2>. QED BY <1>2, <1>6, <1>7, <2>1 DEF AllFinished, IsFinished
<1>11. FlagTrue'
  BY <1>8, <1>10 DEF FlagTrue, AllFinished
<1>12. AllAlike'
  <2>1. Alike(p)
    <3>1. Alike(q) /\ IsFinished(q)
      BY <1>2, <1>10 DEF AllAlike, AllFinished
    <3>. QED BY <1>6, <3>1 DEF Alike
  <2>. QED BY <1>2, <1>7, <1>8, <2>1 DEF AllAlike, Alike
<1>13. Modest'
  <2>1. SUFFICES ASSUME NEW s \in DOMAIN reqs, s # r, reqs[s].table # NoTable
                 PROVE  Len(bt'.tables[reqs[s].table]) <= Quota
    BY <1>6, <1>7, <1>8 DEF Modest, Quota
  <2>2. /\ reqs[s].table # q.table /\ reqs[s].table \in LiveTables(bt)
        /\ LiveTables(bt') = LiveTables(bt) \ {q.table}
        /\ \A v \in LiveTables(bt') : bt'.tables[v] = bt.tables[v]
    <3>1. reqs[s].table # q.table /\ reqs[s].table \in LiveTables(bt)
      BY <1>2, <2>1, UsedIsLive DEF StateInv, TableOwners
    <3> HIDE DEF q
    <3>. QED BY <1>4, <1>5, <3>1, GivesBack
  <2>. QED BY <1>2, <2>1, <2>2 DEF Modest
<1>14. OneTokenLeft'
  <2>1. \A s \in DOMAIN reqs : ExtendLen(reqs[s]) <= 1
    BY <1>1, <1>2 DEF OneTokenLeft, NotYet
  <2>2. \A s \in DOMAIN reqs' : ExtendLen(reqs'[s]) <= 1
    BY <1>6, <1>7, <2>1 DEF ExtendLen, DeviceLen
  <2>. QED BY <1>8, <2>2 DEF OneTokenLeft, NotYet, ExtendLen, DeviceLen
<1>15. Released'
  <2>1. \A s \in DOMAIN reqs : s < plan.i => reqs[s].table = NoTable
    BY <1>1, <1>2 DEF Released
  <2>2. \A s \in DOMAIN reqs : s < plan.i + 1 => reqs'[s].table = NoTable
    BY <1>2, <1>6, <1>7, <2>1
  <2>3. \A s \in DOMAIN reqs' : plan'.at = "done" \/ (plan'.at = "release" /\ s < plan'.i)
          => s < plan.i + 1
    BY <1>2, <1>7, <1>8
  <2>. QED BY <1>7, <2>2, <2>3 DEF Released
<1>. QED
  BY <1>3, <1>4, <1>9, <1>11, <1>12, <1>13, <1>14, <1>15, NoCallIsWhole DEF BenchInv, PlanInv

(* A run begins with an engine of its own.                                 *)
LEMMA BenchBegins == BenchInit => BenchInv
<1> SUFFICES ASSUME BenchInit PROVE BenchInv
  OBVIOUS
<1>1. /\ reqs = << >> /\ bt = EmptyManager /\ call = NoCall /\ result = "ok" /\ faults = 0
      /\ plan \in Plans
  BY DEF BenchInit, Init
<1>2. EngineInv
  BY InitHolds DEF BenchInit
<1>3. HasToken
  BY <1>1 DEF HasToken
<1>4. PlanType
  <2>1. PICK mode \in {"interleaved", "batch"}, prompt_len \in PromptLens, max_new \in MaxNews :
          plan = [mode |-> mode, prompt_len |-> prompt_len, max_new |-> max_new, at |-> "add",
                  i |-> 1, all_finished |-> FALSE]
    BY <1>1 DEF Plans
  <2>2. 1 \in 1 .. NumRequests /\ Len(reqs) = plan.i - 1
    BY <1>1, <2>1, BenchmarkAssumption
  <2>3. Idle
    BY <1>1 DEF Idle, NoCall
  <2>4. Capacity = TokensPerRequest(plan.prompt_len, plan.max_new) * NumRequests
    BY <1>1 DEF Plans
  <2>5. plan \in [mode : {"interleaved", "batch"}, prompt_len : PromptLens, max_new : MaxNews,
                  at : {"add", "prefill", "round", "turns", "release", "done"},
                  i : 1 .. NumRequests, all_finished : BOOLEAN]
    BY <2>1, <2>2
  <2>. QED BY <1>1, <2>1, <2>2, <2>3, <2>4, <2>5 DEF PlanType
<1>5. AllAlike /\ Modest /\ OneTokenLeft /\ Released
  BY <1>1 DEF AllAlike, Modest, OneTokenLeft, Released
<1>6. WholeCall
  BY <1>1 DEF WholeCall, NoCall
<1>7. FlagTrue
  <2>1. plan.at = "add" /\ plan.all_finished = FALSE
    BY <1>1 DEF Plans
  <2>. QED BY <2>1 DEF FlagTrue
<1>. QED BY <1>1, <1>2, <1>3, <1>4, <1>5, <1>6, <1>7 DEF BenchInv, PlanInv

(* The next run does too.                                                  *)
LEMMA NextBegins ==
  ASSUME BenchInv, NextRun
  PROVE  BenchInit'
<1>1. faults = 0
  BY DEF BenchInv, PlanInv, PlanType
<1>2. plan' \in Plans'
  BY DEF NextRun, Plans
<1>. QED BY <1>1, <1>2 DEF NextRun, BenchInit, Init

-----------------------------------------------------------------------------
(* What the runs of the benchmark show, for every size of them.            *)

(* The invariant holds throughout.                                         *)
THEOREM BenchInvariant == ASSUME PageSize <= Slack + 2 PROVE BenchSpec => []BenchInv
<1>1. BenchInit => BenchInv
  BY BenchBegins
<1>2. ASSUME BenchInv, BenchNext, ~ NextRun PROVE BenchInv'
  BY <1>2, AddInPlan, PrefillInPlan, ReleaseInPlan, BeginInPlan, TurnInPlan, BatchInPlan,
     EndInPlan, EngineInPlan DEF BenchNext
<1>3. ASSUME BenchInv, UNCHANGED benchVars PROVE BenchInv'
  <2>1. UNCHANGED <<reqs, bt, kv, call, result, faults, plan>> /\ UNCHANGED vars
    BY <1>3 DEF benchVars, vars
  <2>2. EngineInv' /\ HasToken'
    BY <1>3, <2>1, PauseInPlan
  <2>3. PlanInv'
    BY ZenonT(60), <1>3, <2>1 DEF BenchInv, PlanInv, PlanType, TokensPerRequest, Idle, AllAlike, Alike, Modest,
      Quota, OneTokenLeft, NotYet, Fresh, Feeding, WholeCall, TodoWhole, RowWhole, Row, Batched,
      FlagTrue, AllFinished, Released, ExtendLen, DeviceLen, IsFinished
  <2>. QED BY <2>2, <2>3 DEF BenchInv
<1>4. BenchInv /\ NextRun => BenchInit'
  BY NextBegins
<1>. QED BY <1>1, <1>2, <1>3, <1>4, PTL DEF BenchSpec

(* The pool has the blocks that either schedule asks for, and the engine   *)
(* refuses none of their calls.                                            *)
THEOREM BenchNeverThrows ==
  ASSUME PageSize <= Slack + 2 PROVE BenchSpec => []NeverThrows
<1>1. BenchInv => NeverThrows
  BY DEF BenchInv, PlanInv, NeverThrows
<1>. QED BY <1>1, BenchInvariant, PTL

(* When decoding ends every request has stopped at EOS or has exactly      *)
(* max_new_tokens tokens.                                                  *)
THEOREM EveryRequestServed ==
  ASSUME PageSize <= Slack + 2 PROVE BenchSpec => []AllServed
<1>1. ASSUME BenchInv PROVE AllServed
  <2>1. SUFFICES ASSUME plan.at \in {"release", "done"}
                 PROVE  /\ Len(reqs) = NumRequests
                        /\ \A r \in DOMAIN reqs :
                             LET generated == DeviceLen(reqs[r]) - plan.prompt_len
                             IN  /\ IsFinished(reqs[r])
                                 /\ generated \in 1 .. plan.max_new
                                 /\ reqs[r].eos \/ generated = plan.max_new
    BY DEF AllServed
  <2>2. /\ EngineInv /\ StateInv /\ PlanType /\ AllAlike /\ FlagTrue
    BY <1>1, CallFacts DEF BenchInv, PlanInv
  <2>3. Len(reqs) = NumRequests /\ DOMAIN reqs = 1 .. NumRequests
    BY <2>1, <2>2, StateFacts, RequestFields DEF PlanType
  <2>4. ASSUME NEW r \in DOMAIN reqs
        PROVE  LET generated == DeviceLen(reqs[r]) - plan.prompt_len
               IN  /\ IsFinished(reqs[r])
                   /\ generated \in 1 .. plan.max_new
                   /\ reqs[r].eos \/ generated = plan.max_new
    <3>1. IsFinished(reqs[r])
      BY <2>1, <2>2, <2>3, <2>4 DEF FlagTrue, AllFinished
    <3>2. reqs[r] \in RequestType /\ Counts(reqs[r]) /\ Alike(reqs[r])
      BY <2>2, <2>4, StateFacts, RequestFields DEF AllAlike
    <3>3. /\ reqs[r].input = plan.prompt_len + reqs[r].generated
          /\ reqs[r].generated <= plan.max_new /\ reqs[r].generated >= 1
          /\ reqs[r].eos = TRUE \/ reqs[r].generated >= plan.max_new
      BY <3>1, <3>2, CallerKeepsTo DEF Counts, Alike
    <3>4. reqs[r].generated \in Nat /\ reqs[r].input \in Nat
      BY <3>2, FieldsOf
    <3>5. reqs[r].input - plan.prompt_len = reqs[r].generated
      BY <2>2, <3>3, <3>4, PlanFields
    <3>6. DeviceLen(reqs[r]) - plan.prompt_len = reqs[r].generated
      BY <3>5 DEF DeviceLen
    <3>7. reqs[r].generated \in 1 .. plan.max_new
      BY <2>2, <3>3, <3>4, PlanFields
    <3>8. reqs[r].eos \/ reqs[r].generated = plan.max_new
      <4>1. reqs[r].eos = TRUE \/ reqs[r].generated = plan.max_new
        BY <2>2, <3>3, <3>4, PlanFields
      <4>. QED BY <4>1, Zenon
    <3>. QED BY <3>1, <3>6, <3>7, <3>8, Zenon
  <2>. QED BY <2>3, <2>4
<1>. QED BY <1>1, BenchInvariant, PTL

(* At the end of a run no table is live and every block is free.           *)
THEOREM BlocksComeBack ==
  ASSUME PageSize <= Slack + 2 PROVE BenchSpec => []PoolRefilled
<1>1. ASSUME BenchInv PROVE PoolRefilled
  <2>1. SUFFICES ASSUME plan.at = "done"
                 PROVE  ToSet(bt.free_blocks) = Blocks /\ LiveTables(bt) = {}
    BY DEF PoolRefilled
  <2>2. TableOwners /\ WellFormed(bt) /\ Released
    BY <1>1, CallFacts DEF BenchInv, PlanInv, StateInv
  <2>3. NoTable \notin LiveTables(bt)
    BY <2>2, FieldTypes DEF WellFormed, LiveTables, NoTable
  <2>4. LiveTables(bt) = {}
    BY <2>1, <2>2, <2>3 DEF TableOwners, Released
  <2>5. BlocksOf(bt.free_blocks) = Blocks
    BY <2>2, <2>4, FreeIsUnowned
  <2>. QED BY <2>4, <2>5 DEF ToSet, BlocksOf
<1>. QED BY <1>1, BenchInvariant, PTL
=============================================================================
