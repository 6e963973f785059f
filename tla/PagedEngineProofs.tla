------------------------- MODULE PagedEngineProofs -------------------------
(***************************************************************************)
(* The engine for any number of requests, blocks, layers and exceptions:   *)
(* EngineInv is invariant and its parts are what PagedEngine promises.     *)
(*                                                                         *)
(* The lemmas go from the operators (the last write to a slot, what an     *)
(* update does to the counts of a request) to the steps, one lemma each.   *)
(* The cache (CacheInv), the tokens left to feed (HasToken) and the        *)
(* refinement of TokenStream have invariants of their own, over EngineInv. *)
(***************************************************************************)
EXTENDS PagedEngineInv, BlockTableOpsProofs, WellFoundedInduction

USE NumBlocksAssumption

-----------------------------------------------------------------------------
(* The last write to a slot.                                               *)

(* The fields of the call in progress.                                     *)
LEMMA CallFields ==
  ASSUME call \in CallType
  PROVE  /\ call.rows \in Seq(Rows) /\ call.at \in Nat /\ call.until_finished \in BOOLEAN
         /\ call.todo \in Seq([id : Ids, len : Nat \ {0}])
         /\ Len(call.rows) \in Nat /\ DOMAIN call.rows = 1 .. Len(call.rows)
         /\ Len(call.todo) \in Nat /\ DOMAIN call.todo = 1 .. Len(call.todo)
         /\ \A k \in DOMAIN call.rows :
              /\ call.rows[k] \in Rows /\ call.rows[k].id \in Ids
              /\ call.rows[k].past \in Nat /\ call.rows[k].len \in Nat \ {0}
         /\ \A j \in DOMAIN call.todo :
              /\ call.todo[j] \in [id : Ids, len : Nat \ {0}]
              /\ call.todo[j].id \in Ids /\ call.todo[j].len \in Nat \ {0}
<1> DEFINE Wants == [id : Ids, len : Nat \ {0}]
<1>1. /\ call.rows \in Seq(Rows) /\ call.at \in Nat /\ call.until_finished \in BOOLEAN
      /\ call.todo \in Seq(Wants)
  BY DEF CallType
<1> HIDE DEF Wants
<1>2. /\ \A k \in DOMAIN call.rows : call.rows[k] \in Rows
      /\ Len(call.rows) \in Nat /\ DOMAIN call.rows = 1 .. Len(call.rows)
  BY <1>1
<1>3. /\ \A j \in DOMAIN call.todo : call.todo[j] \in Wants
      /\ Len(call.todo) \in Nat /\ DOMAIN call.todo = 1 .. Len(call.todo)
  BY <1>1
<1>4. \A row \in Rows : row.id \in Ids /\ row.past \in Nat /\ row.len \in Nat \ {0}
  BY DEF Rows
<1>5. \A w \in Wants : w.id \in Ids /\ w.len \in Nat \ {0}
  BY DEF Wants
<1>. QED BY <1>1, <1>2, <1>3, <1>4, <1>5 DEF Wants

(* A bounded set of naturals with an element has a largest one.            *)
LEMMA LargestExists ==
  ASSUME NEW n \in Nat, NEW T \in SUBSET (0 .. n), T # {}
  PROVE  \E x \in T : \A y \in T : y <= x
<1> DEFINE R == {ss \in Nat \X Nat : ss[1] < ss[2]}
           U == {n - y : y \in T}
<1>1. IsWellFoundedOn(R, Nat)
  BY NatLessThanWellFounded DEF OpToRel
<1>2. U \in SUBSET Nat /\ U # {}
  <2>1. \A y \in T : y \in Nat /\ y <= n
    OBVIOUS
  <2>2. \A y \in T : n - y \in Nat
    BY <2>1
  <2>3. PICK y \in T : TRUE
    OBVIOUS
  <2>4. n - y \in U
    BY <2>3
  <2>. QED BY <2>2, <2>4
<1>3. PICK u \in U : \A v \in U : ~ (<<v, u>> \in R)
  <2> HIDE DEF R, U
  <2>. QED BY <1>1, <1>2, WFMin
<1>4. PICK x \in T : u = n - x
  OBVIOUS
<1>5. ASSUME NEW y \in T PROVE y <= x
  <2> DEFINE v == n - y
             t == <<v, u>>
  <2>1. v \in U /\ v \in Nat /\ u \in Nat /\ ~ (t \in R)
    BY <1>2, <1>3
  <2>2. v < u => t \in R
    <3>1. SUFFICES ASSUME v < u PROVE t \in R
      OBVIOUS
    <3>2. t \in Nat \X Nat /\ t[1] < t[2]
      BY <2>1, <3>1
    <3> HIDE DEF t
    <3>. QED BY <3>2
  <2>. QED BY <1>4, <2>1, <2>2
<1>. QED BY <1>5

(* The rows write tokens of their own.                                     *)
LEMMA TokensMember ==
  ASSUME call \in CallType
  PROVE  RowTokens = {w \in (DOMAIN call.rows) \X Nat : w[2] < call.rows[w[1]].len}
<1>1. \A k \in DOMAIN call.rows : call.rows[k].len \in Nat
  BY CallFields
<1>2. ASSUME NEW w \in RowTokens
      PROVE  w \in (DOMAIN call.rows) \X Nat /\ w[2] < call.rows[w[1]].len
  <2>1. PICK k \in DOMAIN call.rows : w \in {k} \X (0 .. (call.rows[k].len - 1))
    BY <1>2 DEF RowTokens
  <2>. QED BY <1>1, <2>1
<1>3. ASSUME NEW w \in (DOMAIN call.rows) \X Nat, w[2] < call.rows[w[1]].len
      PROVE  w \in RowTokens
  <2>1. w \in {w[1]} \X (0 .. (call.rows[w[1]].len - 1))
    BY <1>1, <1>3
  <2>. QED BY <2>1 DEF RowTokens
<1>. QED BY <1>2, <1>3

(* There is a last write among the writes to a slot.                       *)
LEMMA LastExists ==
  ASSUME call \in CallType, NEW T \in SUBSET RowTokens, NEW s, WritesTo(s, T) # {}
  PROVE  LastWrite(s, T) \in WritesTo(s, T)
<1> DEFINE W == WritesTo(s, T)
           K == {w[1] : w \in W}
           n == Len(call.rows)
<1>0. n \in Nat /\ DOMAIN call.rows = 1 .. n
  BY CallFields
<1>1. \A w \in W : w[1] \in 1 .. n /\ w[2] \in Nat /\ w[2] < call.rows[w[1]].len
  BY <1>0, TokensMember DEF WritesTo
<1>2. W # {}
  OBVIOUS
<1> HIDE DEF W
<1>3. PICK k \in K : \A j \in K : j <= k
  <2>1. K \in SUBSET (0 .. n) /\ K # {}
    BY <1>1, <1>2
  <2> HIDE DEF K
  <2>. QED BY <1>0, <2>1, LargestExists
<1> DEFINE O == {o \in 0 .. call.rows[k].len : \E w \in W : w[1] = k /\ w[2] = o}
<1>4. PICK o \in O : \A p \in O : p <= o
  <2>1. k \in 1 .. n /\ call.rows[k].len \in Nat
    BY <1>1, <1>3, CallFields
  <2>2. O \in SUBSET (0 .. call.rows[k].len)
    OBVIOUS
  <2>3. PICK w \in W : w[1] = k
    BY <1>3
  <2>4. w[2] \in O
    BY <1>1, <2>1, <2>3
  <2> HIDE DEF O
  <2>. QED BY <2>1, <2>2, <2>4, LargestExists
<1>5. PICK w \in W : w[1] = k /\ w[2] = o
  BY <1>4
<1>6. \A v \in W : v[1] < w[1] \/ (v[1] = w[1] /\ v[2] <= w[2])
  <2>1. SUFFICES ASSUME NEW v \in W, ~ v[1] < w[1]
                 PROVE  v[1] = w[1] /\ v[2] <= w[2]
    OBVIOUS
  <2>2. v[1] \in K /\ v[1] \in Nat /\ w[1] \in Nat /\ k \in 1 .. n
    BY <1>0, <1>1, <1>5
  <2>3. v[1] = k
    <3> HIDE DEF K
    <3>. QED BY <1>0, <1>3, <1>5, <2>1, <2>2
  <2>4. v[2] \in O
    <3>1. v[2] \in Nat /\ v[2] < call.rows[k].len /\ call.rows[k].len \in Nat
      BY <1>1, <2>2, <2>3, CallFields
    <3>. QED BY <2>3, <3>1
  <2>. QED BY <1>4, <1>5, <2>3, <2>4
<1>7. \A v \in W : ~ Before(w, v)
  <2>1. SUFFICES ASSUME NEW v \in W PROVE ~ Before(w, v)
    OBVIOUS
  <2>2. /\ v[1] \in Nat /\ v[2] \in Nat /\ w[1] \in Nat /\ w[2] \in Nat
    BY <1>0, <1>1
  <2>. QED BY <1>6, <2>2 DEF Before
<1>. QED BY <1>7 DEF LastWrite, W

(* A layer's update keeps the type of the pools.                           *)
LEMMA UpdateType ==
  ASSUME kv \in [Layers -> [Slots -> (Ids \cup {0}) \X Nat]], call \in CallType,
         NEW l \in Layers, NEW T \in SUBSET RowTokens
  PROVE  UpdateLayer(l, T) \in [Layers -> [Slots -> (Ids \cup {0}) \X Nat]]
<1>1. ASSUME NEW s, WritesTo(s, T) # {}
      PROVE  Written(s, T) \in (Ids \cup {0}) \X Nat
  <2> DEFINE w == LastWrite(s, T)
  <2>1. w \in RowTokens
    BY <1>1, LastExists DEF WritesTo
  <2> HIDE DEF w
  <2>2. w[1] \in DOMAIN call.rows /\ w[2] \in Nat
    BY <2>1, TokensMember, CallFields
  <2>3. call.rows[w[1]].id \in Ids /\ call.rows[w[1]].past \in Nat
    BY <2>2, CallFields
  <2>. QED BY <2>2, <2>3 DEF Written, Tag, w
<1>. QED BY <1>1 DEF UpdateLayer

(* So does one that fails.                                                 *)
LEMMA FailedUpdateType ==
  ASSUME kv \in [Layers -> [Slots -> (Ids \cup {0}) \X Nat]], call \in CallType,
         NEW l \in Layers, NEW w \in RowTokens, NEW torn \in BOOLEAN
  PROVE  UpdateFails(l, w, torn) \in [Layers -> [Slots -> (Ids \cup {0}) \X Nat]]
<1> DEFINE T == {v \in RowTokens : Before(v, w)}
           done == UpdateLayer(l, T)
<1>1. done \in [Layers -> [Slots -> (Ids \cup {0}) \X Nat]]
  BY UpdateType
<1>2. UpdateFails(l, w, torn) = IF torn THEN [done EXCEPT ![l][SlotOfWrite(w)] = NoTag] ELSE done
  BY DEF UpdateFails
<1>3. NoTag \in (Ids \cup {0}) \X Nat
  BY DEF NoTag, Tag
<1> DEFINE bare == [done EXCEPT ![l][SlotOfWrite(w)] = NoTag]
           layer == [done[l] EXCEPT ![SlotOfWrite(w)] = NoTag]
<1> HIDE DEF done
<1>4. bare = [done EXCEPT ![l] = layer]
  BY <1>1
<1>5. layer \in [Slots -> (Ids \cup {0}) \X Nat]
  BY <1>1, <1>3
<1> HIDE DEF layer
<1>6. bare \in [Layers -> [Slots -> (Ids \cup {0}) \X Nat]]
  BY <1>1, <1>4, <1>5
<1>. QED BY <1>1, <1>2, <1>6

-----------------------------------------------------------------------------
(* The requests, the tables and their owners.                              *)

Results == {"ok", "refused", "too long", "exhausted", "fault"}

(* The bounds are naturals.                                                *)
LEMMA Bounds ==
  /\ Capacity \in Nat \ {0} /\ PageSize \in Nat \ {0} /\ NumLayers \in Nat \ {0}
  /\ MaxRequests \in Nat /\ MaxLen \in Nat /\ MaxFaults \in Nat
  /\ MaxNews \subseteq Nat /\ AppendMaxNews \subseteq Nat \cup {-1}
BY EngineAssumption, CallerAssumption

(* A known request has its fields.                                         *)
LEMMA RequestFields ==
  ASSUME reqs \in Seq(RequestType), Len(reqs) <= MaxRequests
  PROVE  /\ Len(reqs) \in Nat /\ DOMAIN reqs = 1 .. Len(reqs) /\ DOMAIN reqs \subseteq Ids
         /\ \A r \in DOMAIN reqs :
              /\ reqs[r] \in RequestType
              /\ reqs[r].input \in Nat /\ reqs[r].generated \in Nat /\ reqs[r].prompt \in Nat
              /\ reqs[r].cached \in Nat /\ reqs[r].max_new \in Nat /\ reqs[r].table \in Nat
              /\ reqs[r].status \in Statuses
<1>1. /\ \A r \in DOMAIN reqs : reqs[r] \in RequestType
      /\ Len(reqs) \in Nat /\ DOMAIN reqs = 1 .. Len(reqs)
  OBVIOUS
<1>2. DOMAIN reqs \subseteq Ids
  BY <1>1, Bounds DEF Ids
<1>3. \A q \in RequestType :
        /\ q.input \in Nat /\ q.generated \in Nat /\ q.prompt \in Nat
        /\ q.cached \in Nat /\ q.max_new \in Nat /\ q.table \in Nat /\ q.status \in Statuses
  BY DEF RequestType
<1>. QED BY <1>1, <1>2, <1>3

(* What the invariant says of the state, by name.                          *)
LEMMA StateFacts ==
  ASSUME StateInv
  PROVE  /\ reqs \in Seq(RequestType) /\ Len(reqs) <= MaxRequests /\ WellTyped(bt)
         /\ kv \in [Layers -> [Slots -> (Ids \cup {0}) \X Nat]] /\ call \in CallType
         /\ result \in Results /\ faults \in 0 .. MaxFaults
         /\ WellFormed(bt)
         /\ \A r \in DOMAIN reqs : reqs[r].table # NoTable => IsTableUsed(bt, reqs[r].table)
         /\ \A r \in DOMAIN reqs : Counts(reqs[r])
BY DEF StateInv, TypeOK, TableOwners, RequestsCount, Results

(* A step that only moves the call on.                                     *)
LEMMA CallMovesOn ==
  ASSUME StateInv, UNCHANGED <<reqs, bt, kv>>, call' \in CallType,
         result' \in Results, faults' \in 0 .. MaxFaults
  PROVE  StateInv'
BY DEF StateInv, TypeOK, TableOwners, NoHoarding, RequestsCount, Results

(* A step that writes the pools.                                           *)
LEMMA PoolsWritten ==
  ASSUME StateInv, UNCHANGED <<reqs, bt>>, call' \in CallType,
         kv' \in [Layers -> [Slots -> (Ids \cup {0}) \X Nat]],
         result' \in Results, faults' \in 0 .. MaxFaults
  PROVE  StateInv'
BY DEF StateInv, TypeOK, TableOwners, NoHoarding, RequestsCount, Results

(* Replacing one request.                                                  *)
LEMMA ReplaceRequest ==
  ASSUME reqs \in Seq(RequestType), Len(reqs) <= MaxRequests,
         NEW r \in DOMAIN reqs, NEW q \in RequestType, reqs' = [reqs EXCEPT ![r] = q]
  PROVE  /\ reqs' \in Seq(RequestType) /\ Len(reqs') = Len(reqs) /\ DOMAIN reqs' = DOMAIN reqs
         /\ reqs'[r] = q /\ \A s \in DOMAIN reqs \ {r} : reqs'[s] = reqs[s]
BY ReplaceElement

(* A step that updates one request but not its table.                      *)
LEMMA RequestUpdated ==
  ASSUME StateInv, NEW r \in DOMAIN reqs, NEW q \in RequestType,
         q.table = reqs[r].table, reqs[r].input <= q.input, Counts(q),
         reqs' = [reqs EXCEPT ![r] = q], UNCHANGED <<bt, kv>>,
         call' \in CallType, result' \in Results, faults' \in 0 .. MaxFaults
  PROVE  StateInv'
<1>1. /\ reqs' \in Seq(RequestType) /\ Len(reqs') = Len(reqs) /\ DOMAIN reqs' = DOMAIN reqs
      /\ reqs'[r] = q /\ \A s \in DOMAIN reqs \ {r} : reqs'[s] = reqs[s]
  BY StateFacts, ReplaceRequest
<1>2. \A s \in DOMAIN reqs : reqs'[s].table = reqs[s].table
  BY <1>1
<1>3. TypeOK'
  BY <1>1, StateFacts DEF TypeOK, Results
<1>4. WellFormed(bt')
  BY DEF StateInv
<1>5. TableOwners'
  BY <1>1, <1>2 DEF StateInv, TableOwners
<1>6. NoHoarding'
  <2>1. \A s \in DOMAIN reqs : reqs[s].input \in Nat /\ reqs'[s].input \in Nat
                               /\ reqs[s].input <= reqs'[s].input
    <3>1. q.input \in Nat
      BY DEF RequestType
    <3>2. \A s \in DOMAIN reqs : reqs[s].input \in Nat
      BY StateFacts, RequestFields
    <3>. QED BY <1>1, <3>1, <3>2
  <2>2. \A s \in DOMAIN reqs : /\ NumRequiredBlocks(reqs[s].input, PageSize) \in Nat
                               /\ NumRequiredBlocks(reqs'[s].input, PageSize) \in Nat
                               /\ NumRequiredBlocks(reqs[s].input, PageSize)
                                    <= NumRequiredBlocks(reqs'[s].input, PageSize)
    BY <2>1, Bounds, RequiredMonotone
  <2>3. \A s \in DOMAIN reqs : reqs[s].table # NoTable =>
          /\ Len(bt.tables[reqs[s].table]) \in Nat
          /\ Len(bt.tables[reqs[s].table]) <= NumRequiredBlocks(reqs[s].input, PageSize)
    <3>1. \A t \in DOMAIN bt.tables : Len(bt.tables[t]) \in Nat
      BY StateFacts, FieldTypes
    <3>. QED BY <3>1, StateFacts DEF StateInv, NoHoarding, DeviceLen, IsTableUsed
  <2>. QED BY <1>1, <1>2, <2>2, <2>3 DEF NoHoarding, DeviceLen
<1>7. RequestsCount'
  BY <1>1, StateFacts DEF RequestsCount
<1>. QED BY <1>3, <1>4, <1>5, <1>6, <1>7 DEF StateInv

(* Updates of a request keep its type.                                     *)
LEMMA UpdateTypes ==
  ASSUME NEW q \in RequestType
  PROVE  /\ FinishRequest(q) \in RequestType
         /\ \A n \in Nat : MarkForwardDone(q, n) \in RequestType
         /\ \A is_eos \in BOOLEAN : AppendToken(q, is_eos) \in RequestType
         /\ \A n \in Nat : AppendInputTokens(q, n) \in RequestType
         /\ \A n \in Nat : ResetGenerationOptions(q, n) \in RequestType
<1>1. FinishRequest(q) \in RequestType
  BY DEF FinishRequest, RequestType, Statuses
<1>a. /\ q.cached \in Nat /\ q.input \in Nat /\ q.generated \in Nat /\ q.status \in Statuses
      /\ "Decoding" \in Statuses /\ "Finished" \in Statuses
  BY DEF RequestType, Statuses
<1>2. ASSUME NEW n \in Nat PROVE MarkForwardDone(q, n) \in RequestType
  <2> DEFINE status == IF q.status = "Finished" THEN q.status ELSE "Decoding"
  <2>1. status \in Statuses /\ q.cached + n \in Nat
    BY <1>a
  <2>2. MarkForwardDone(q, n) = [q EXCEPT !.cached = q.cached + n, !.status = status]
    BY DEF MarkForwardDone, RequestType
  <2> HIDE DEF status
  <2>. QED BY <2>1, <2>2 DEF RequestType
<1>3. ASSUME NEW is_eos \in BOOLEAN PROVE AppendToken(q, is_eos) \in RequestType
  <2> DEFINE status == IF is_eos \/ q.generated + 1 >= q.max_new THEN "Finished" ELSE "Decoding"
  <2>1. status \in Statuses /\ q.input + 1 \in Nat /\ q.generated + 1 \in Nat
    BY <1>a
  <2>2. AppendToken(q, is_eos) = [q EXCEPT !.input = q.input + 1, !.generated = q.generated + 1,
                                          !.eos = is_eos,
                                           !.status = status]
    BY DEF AppendToken, RequestType
  <2> HIDE DEF status
  <2>. QED BY <2>1, <2>2 DEF RequestType
<1>4. ASSUME NEW p \in RequestType PROVE NewTurn(p) \in RequestType
  BY DEF NewTurn, DeviceLen, RequestType, Statuses
<1>5. ASSUME NEW n \in Nat PROVE AppendInputTokens(q, n) \in RequestType
  <2>1. [q EXCEPT !.input = @ + n] \in RequestType
    BY DEF RequestType
  <2>. QED BY <1>4, <2>1 DEF AppendInputTokens
<1>6. ASSUME NEW n \in Nat PROVE ResetGenerationOptions(q, n) \in RequestType
  <2>1. [q EXCEPT !.max_new = n] \in RequestType
    BY DEF RequestType
  <2>. QED BY <1>4, <2>1 DEF ResetGenerationOptions
<1>. QED BY <1>1, <1>2, <1>3, <1>5, <1>6

-----------------------------------------------------------------------------
(* What each update does to the counts of a request.                       *)

(* The fields of any request.                                              *)
LEMMA FieldsOf ==
  ASSUME NEW q \in RequestType
  PROVE  /\ q.input \in Nat /\ q.generated \in Nat /\ q.prompt \in Nat /\ q.cached \in Nat
         /\ q.max_new \in Nat /\ q.table \in Nat /\ q.status \in Statuses
BY DEF RequestType

(* finish_request, with or without its table.                              *)
LEMMA CountsFinish ==
  ASSUME NEW q \in RequestType, Counts(q)
  PROVE  /\ Counts(FinishRequest(q))
         /\ Counts(FinishRequest([q EXCEPT !.table = NoTable]))
         /\ FinishRequest([q EXCEPT !.table = NoTable]) \in RequestType
<1>1. ASSUME NEW p \in RequestType, p = FinishRequest(q) \/ p = FinishRequest([q EXCEPT !.table = NoTable])
      PROVE  Counts(p)
  <2>1. /\ p.input = q.input /\ p.generated = q.generated /\ p.prompt = q.prompt
        /\ p.cached = q.cached /\ p.max_new = q.max_new /\ p.status = "Finished"
    BY <1>1 DEF FinishRequest, RequestType
  <2>. QED BY <2>1 DEF Counts, MaxDeviceLen, IsFinished
<1>2. FinishRequest(q) \in RequestType
  BY UpdateTypes
<1>3. FinishRequest([q EXCEPT !.table = NoTable]) \in RequestType
  BY DEF FinishRequest, RequestType, NoTable, Statuses
<1>. QED BY <1>1, <1>2, <1>3

(* A request that takes a table.                                           *)
LEMMA CountsTable ==
  ASSUME NEW q \in RequestType, Counts(q), NEW t \in Nat \ {0}
  PROVE  [q EXCEPT !.table = t] \in RequestType /\ Counts([q EXCEPT !.table = t])
<1> DEFINE p == [q EXCEPT !.table = t]
<1>1. p \in RequestType
  BY DEF RequestType
<1>2. /\ p.input = q.input /\ p.generated = q.generated /\ p.prompt = q.prompt
      /\ p.cached = q.cached /\ p.max_new = q.max_new /\ p.status = q.status /\ p.table = t
  BY DEF RequestType
<1> HIDE DEF p
<1>3. Counts(p)
  BY <1>2 DEF Counts, MaxDeviceLen, IsFinished, NoTable
<1>. QED BY <1>1, <1>3 DEF p

(* mark_forward_done of tokens the request has.                            *)
LEMMA CountsMark ==
  ASSUME NEW q \in RequestType, Counts(q), NEW n \in Nat, q.cached + n <= q.input,
         q.table # NoTable
  PROVE  Counts(MarkForwardDone(q, n))
<1> DEFINE p == MarkForwardDone(q, n)
<1>1. /\ p.input = q.input /\ p.generated = q.generated /\ p.prompt = q.prompt
      /\ p.cached = q.cached + n /\ p.max_new = q.max_new /\ p.table = q.table
      /\ p.status = IF q.status = "Finished" THEN q.status ELSE "Decoding"
  BY DEF MarkForwardDone, RequestType
<1> HIDE DEF p
<1>2. Counts(p)
  BY <1>1, FieldsOf DEF Counts, MaxDeviceLen, IsFinished
<1>. QED BY <1>2 DEF p

(* append_token of a request that awaits one.                              *)
LEMMA CountsAppendToken ==
  ASSUME NEW q \in RequestType, Counts(q), NEW is_eos \in BOOLEAN, q.status = "Decoding",
         q.table # NoTable
  PROVE  Counts(AppendToken(q, is_eos))
<1> DEFINE p == AppendToken(q, is_eos)
<1>1. /\ p.input = q.input + 1 /\ p.generated = q.generated + 1 /\ p.prompt = q.prompt
      /\ p.cached = q.cached /\ p.max_new = q.max_new /\ p.table = q.table
      /\ p.status = IF is_eos \/ q.generated + 1 >= q.max_new THEN "Finished" ELSE "Decoding"
  BY DEF AppendToken, RequestType
<1> HIDE DEF p
<1>2. q.generated \in Nat /\ q.max_new \in Nat /\ q.cached \in Nat /\ q.input \in Nat
      /\ q.prompt \in Nat
  BY FieldsOf
<1>3. p.cached <= p.input /\ p.input = p.prompt + p.generated
  BY <1>1, <1>2 DEF Counts
<1>4. QuotaGiven => p.generated <= p.max_new /\ (IsFinished(p) \/ p.generated < p.max_new)
  <2>1. SUFFICES ASSUME QuotaGiven
                 PROVE  p.generated <= p.max_new /\ (IsFinished(p) \/ p.generated < p.max_new)
    OBVIOUS
  <2>2. q.generated < q.max_new
    BY <2>1 DEF Counts, IsFinished
  <2>3. q.generated + 1 < q.max_new \/ p.status = "Finished"
    BY <1>1, <1>2
  <2>. QED BY <1>1, <1>2, <2>2, <2>3 DEF IsFinished
<1>5. Counts(p)
  BY <1>1, <1>3, <1>4 DEF Counts, MaxDeviceLen
<1>. QED BY <1>5 DEF p

(* A new turn starts with nothing sampled of a quota that is positive, if  *)
(* the caller gives one.                                                   *)
LEMMA CountsTurn ==
  ASSUME NEW q \in RequestType, q.cached <= q.input, q.input + q.max_new <= MaxLen,
         q.max_new \in MaxNews \cup (AppendMaxNews \ {-1}), QuotaGiven => q.max_new > 0,
         NoReuse => q.table # NoTable \/ q.cached = 0
  PROVE  Counts(NewTurn(q))
<1> DEFINE p == NewTurn(q)
<1>1. /\ p.input = q.input /\ p.generated = 0 /\ p.prompt = q.input
      /\ p.cached = q.cached /\ p.max_new = q.max_new /\ p.table = q.table
  BY DEF NewTurn, RequestType, DeviceLen
<1> HIDE DEF p
<1>2. Counts(p)
  BY <1>1, FieldsOf DEF Counts, MaxDeviceLen
<1>. QED BY <1>2 DEF p

(* append_input_tokens, refused or not.                                    *)
LEMMA CountsAppendInput ==
  ASSUME NEW q \in RequestType, Counts(q), NEW n \in Nat, NEW max_new \in AppendMaxNews,
         LET p == AppendInputTokens(q, n)
         IN  DeviceLen(p) + (IF max_new < 0 THEN p.max_new ELSE max_new) <= MaxLen,
         NoReuse => q.table # NoTable \/ q.cached = 0
  PROVE  IF max_new < 0 THEN Counts(AppendInputTokens(q, n))
         ELSE Counts(ResetGenerationOptions(AppendInputTokens(q, n), max_new))
<1> DEFINE p == AppendInputTokens(q, n)
           a == [q EXCEPT !.input = @ + n]
<1>1. /\ a \in RequestType /\ a.input = q.input + n /\ a.cached = q.cached
      /\ a.max_new = q.max_new /\ a.table = q.table
  BY DEF RequestType
<1>2. /\ p \in RequestType /\ p.input = q.input + n /\ p.cached = q.cached
      /\ p.max_new = q.max_new /\ p.table = q.table
  <2>1. CASE n = 0
    BY <2>1, FieldsOf DEF AppendInputTokens
  <2>2. CASE n # 0
    BY ZenonT(60), <1>1, <2>2, UpdateTypes DEF AppendInputTokens, NewTurn, RequestType, DeviceLen
  <2>. QED BY <2>1, <2>2
<1>3. /\ q.cached \in Nat /\ q.input \in Nat /\ q.max_new \in Nat
      /\ q.cached <= q.input + n
      /\ q.max_new \in MaxNews \cup (AppendMaxNews \ {-1})
  BY FieldsOf DEF Counts
<1>4. max_new \in Nat \/ max_new = -1
  BY Bounds
<1>5. CASE max_new < 0
  <2>1. max_new = -1
    BY <1>4, <1>5
  <2>2. QuotaGiven => q.max_new > 0
    BY <1>3, <2>1 DEF QuotaGiven
  <2>3. CASE n = 0
    BY <1>5, <2>3 DEF AppendInputTokens
  <2>4. CASE n # 0
    <3>1. p = NewTurn(a)
      BY <2>4 DEF AppendInputTokens
    <3>2. a.input + a.max_new <= MaxLen
      BY <1>1, <1>2, <1>5 DEF DeviceLen
    <3> HIDE DEF a, p
    <3>3. Counts(NewTurn(a))
      BY <1>1, <1>3, <2>2, <3>2, CountsTurn
    <3>. QED BY <1>5, <3>1, <3>3 DEF p
  <2>. QED BY <2>3, <2>4
<1>6. CASE ~ max_new < 0
  <2> DEFINE b == [p EXCEPT !.max_new = max_new]
  <2>1. max_new \in Nat
    BY <1>4, <1>6
  <2>2. /\ b \in RequestType /\ b.input = q.input + n /\ b.cached = q.cached
        /\ b.max_new = max_new /\ b.table = q.table
    BY <1>2, <2>1 DEF RequestType
  <2>3. ResetGenerationOptions(p, max_new) = NewTurn(b)
    BY DEF ResetGenerationOptions
  <2>4. b.input + b.max_new <= MaxLen
    BY <1>2, <1>6, <2>2 DEF DeviceLen
  <2>5. QuotaGiven => max_new > 0
    BY <2>1 DEF QuotaGiven
  <2>6. max_new \in MaxNews \cup (AppendMaxNews \ {-1})
    BY <2>1
  <2> HIDE DEF b, p
  <2>7. Counts(NewTurn(b))
    BY <1>3, <2>2, <2>4, <2>5, <2>6, CountsTurn
  <2>. QED BY <1>6, <2>3, <2>7 DEF p
<1>. QED BY <1>5, <1>6

-----------------------------------------------------------------------------
(* The steps that change the requests there are, or the tables.            *)

(* A table is used when it is among the live ones.                         *)
LEMMA UsedIsLive ==
  ASSUME NEW m, NEW t
  PROVE  IsTableUsed(m, t) <=> t \in LiveTables(m)
BY DEF IsTableUsed, LiveTables

(* add_request.                                                            *)
LEMMA AddKeepsState ==
  ASSUME StateInv, NEW n \in PromptLens, NEW max_new \in MaxNews, AddRequest(n, max_new)
  PROVE  StateInv'
<1> DEFINE q == NewRequest(n, max_new)
<1>1. n \in Nat /\ max_new \in Nat
  BY CallerAssumption
<1>2. q \in RequestType
  BY <1>1 DEF NewRequest, RequestType, Statuses, NoTable
<1>3. /\ q.input = n /\ q.generated = 0 /\ q.prompt = n /\ q.cached = 0 /\ q.max_new = max_new
      /\ q.table = NoTable /\ q.status = IF max_new = 0 THEN "Finished" ELSE "WaitingPrefill"
  BY DEF NewRequest
<1>4. reqs' = Append(reqs, q) /\ Len(reqs) < MaxRequests /\ n + max_new <= MaxLen
      /\ UNCHANGED <<bt, kv, faults>> /\ call' = NoCall /\ result' = "ok"
  BY DEF AddRequest, Return
<1> HIDE DEF q
<1>5. Counts(q)
  BY <1>1, <1>3, <1>4 DEF Counts, MaxDeviceLen, IsFinished
<1>6. /\ reqs' \in Seq(RequestType) /\ Len(reqs') = Len(reqs) + 1
      /\ \A s \in DOMAIN reqs' : \/ s \in DOMAIN reqs /\ reqs'[s] = reqs[s]
                                 \/ s \notin DOMAIN reqs /\ reqs'[s] = q
      /\ \A s \in DOMAIN reqs : s \in DOMAIN reqs' /\ reqs'[s] = reqs[s]
  BY <1>2, <1>4, StateFacts, RequestFields, AppendProperties
<1>7. call' \in CallType
  BY <1>4 DEF NoCall, CallType
<1>8. TypeOK'
  <2>1. Len(reqs') <= MaxRequests
    BY <1>4, <1>6, Bounds, StateFacts, RequestFields
  <2>. QED BY <1>4, <1>6, <1>7, <2>1, StateFacts DEF TypeOK, Results
<1>9. WellFormed(bt')
  BY <1>4 DEF StateInv
<1>10. TableOwners'
  BY <1>3, <1>4, <1>6 DEF StateInv, TableOwners
<1>11. NoHoarding'
  BY <1>3, <1>4, <1>6 DEF StateInv, NoHoarding
<1>12. RequestsCount'
  BY <1>5, <1>6, StateFacts DEF RequestsCount
<1>. QED BY <1>8, <1>9, <1>10, <1>11, <1>12 DEF StateInv

(* release_request.                                                        *)
LEMMA ReleaseKeepsState ==
  ASSUME StateInv, NEW r \in Ids, Release(r)
  PROVE  StateInv'
<1> DEFINE q == reqs[r]
           p == FinishRequest([q EXCEPT !.table = NoTable])
<1>1. /\ r \in DOMAIN reqs /\ bt' = WithoutTable(bt, q) /\ reqs' = [reqs EXCEPT ![r] = p]
      /\ call' = NoCall /\ result' = "ok" /\ UNCHANGED <<kv, faults>>
  BY DEF Release, Known, Return
<1>2. q \in RequestType /\ Counts(q) /\ (q.table # NoTable => IsTableUsed(bt, q.table))
  BY <1>1, StateFacts, RequestFields
<1>3. p \in RequestType /\ Counts(p) /\ p.table = NoTable
  <2>1. p.table = NoTable
    BY <1>2 DEF FinishRequest, RequestType
  <2>. QED BY <1>2, <2>1, CountsFinish
<1> HIDE DEF p
<1>4. /\ reqs' \in Seq(RequestType) /\ Len(reqs') = Len(reqs) /\ DOMAIN reqs' = DOMAIN reqs
      /\ reqs'[r] = p /\ \A s \in DOMAIN reqs \ {r} : reqs'[s] = reqs[s]
  BY <1>1, <1>3, StateFacts, ReplaceRequest
<1>5. /\ WellFormed(bt') /\ LiveTables(bt') = LiveTables(bt) \ {q.table}
      /\ \A v \in LiveTables(bt) \ {q.table} : bt'.tables[v] = bt.tables[v]
  <2> HIDE DEF q
  <2>. QED BY <1>1, <1>2, StateFacts, GivesBack
<1>6. call' \in CallType
  BY <1>1 DEF NoCall, CallType
<1>7. TypeOK'
  BY <1>1, <1>4, <1>5, <1>6, StateFacts DEF TypeOK, Results, WellFormed
<1>8. \A s \in DOMAIN reqs \ {r} :
        reqs[s].table # NoTable => reqs[s].table \in LiveTables(bt) \ {q.table}
  BY <1>1, UsedIsLive DEF StateInv, TableOwners
<1>9. TableOwners'
  <2>1. \A s \in DOMAIN reqs : reqs'[s].table # NoTable => s # r /\ reqs'[s].table = reqs[s].table
    BY <1>3, <1>4
  <2>2. ASSUME NEW s \in DOMAIN reqs, reqs'[s].table # NoTable
        PROVE  /\ IsTableUsed(bt', reqs'[s].table)
               /\ \A u \in DOMAIN reqs : reqs'[u].table = reqs'[s].table => u = s
    <3>1. s # r /\ reqs'[s].table = reqs[s].table /\ reqs[s].table \in LiveTables(bt')
      BY <1>5, <1>8, <2>1, <2>2
    <3>2. \A u \in DOMAIN reqs : reqs[u].table = reqs[s].table => u = s
      BY <2>2, <3>1 DEF StateInv, TableOwners
    <3>. QED BY <2>1, <2>2, <3>1, <3>2, UsedIsLive
  <2>3. ASSUME NEW t \in LiveTables(bt') PROVE \E s \in DOMAIN reqs : reqs'[s].table = t
    <3>1. t \in LiveTables(bt) /\ t # q.table
      BY <1>5
    <3>2. PICK s \in DOMAIN reqs : reqs[s].table = t
      BY <3>1 DEF StateInv, TableOwners
    <3>. QED BY <1>4, <3>1, <3>2
  <2>. QED BY <1>4, <2>2, <2>3 DEF TableOwners
<1>10. NoHoarding'
  BY <1>3, <1>4, <1>5, <1>8 DEF StateInv, NoHoarding
<1>11. RequestsCount'
  BY <1>3, <1>4, StateFacts DEF RequestsCount
<1>. QED BY <1>5, <1>7, <1>9, <1>10, <1>11 DEF StateInv

(* A request without blocks to give: the manager is as it was.             *)
LEMMA ExhaustedKeepsState ==
  ASSUME StateInv, ReserveExhausted, Wanted.id \in DOMAIN reqs
  PROVE  StateInv'
<1>1. /\ bt' = RolledBack(bt, reqs[Wanted.id]) /\ call' = NoCall /\ result' = "exhausted"
      /\ UNCHANGED <<reqs, kv, faults>>
  BY DEF ReserveExhausted, Return
<1>2. reqs[Wanted.id] \in RequestType
  BY StateFacts, RequestFields
<1>3. /\ WellFormed(bt') /\ LiveTables(bt') = LiveTables(bt)
      /\ \A v \in LiveTables(bt) : bt'.tables[v] = bt.tables[v]
  BY <1>1, <1>2, StateFacts, RollsBack
<1>4. call' \in CallType
  BY <1>1 DEF NoCall, CallType
<1>5. TypeOK'
  BY <1>1, <1>3, <1>4, StateFacts DEF TypeOK, Results, WellFormed
<1>6. \A t : IsTableUsed(bt', t) <=> IsTableUsed(bt, t)
  BY <1>3, UsedIsLive
<1>7. TableOwners'
  BY <1>1, <1>3, <1>6 DEF StateInv, TableOwners
<1>8. NoHoarding'
  <2>1. \A r \in DOMAIN reqs : reqs[r].table # NoTable =>
          bt'.tables[reqs[r].table] = bt.tables[reqs[r].table]
    BY <1>3, StateFacts, UsedIsLive
  <2>. QED BY <1>1, <2>1 DEF StateInv, NoHoarding
<1>9. RequestsCount'
  BY <1>1 DEF StateInv, RequestsCount
<1>. QED BY <1>3, <1>5, <1>7, <1>8, <1>9 DEF StateInv

-----------------------------------------------------------------------------
(* What a call that reserves blocks wants next.                            *)
LEMMA WantedFacts ==
  ASSUME StateInv, CallInv, Reserving
  PROVE  /\ Wanted = call.todo[1] /\ 1 \in DOMAIN call.todo
         /\ Wanted.id \in Ids /\ Wanted.len \in Nat \ {0}
         /\ Tail(call.todo) \in Seq([id : Ids, len : Nat \ {0}])
         /\ Len(Tail(call.todo)) = Len(call.todo) - 1
         /\ DOMAIN Tail(call.todo) = 1 .. Len(call.todo) - 1
         /\ \A j \in DOMAIN Tail(call.todo) :
              j + 1 \in DOMAIN call.todo /\ Tail(call.todo)[j] = call.todo[j + 1]
<1> DEFINE Wants == [id : Ids, len : Nat \ {0}]
<1>1. /\ call.todo \in Seq(Wants) /\ call.todo # << >>
      /\ Len(call.todo) \in Nat /\ DOMAIN call.todo = 1 .. Len(call.todo)
      /\ \A j \in DOMAIN call.todo : call.todo[j].id \in Ids /\ call.todo[j].len \in Nat \ {0}
  BY StateFacts, CallFields DEF Reserving
<1> HIDE DEF Wants
<1>2. 1 \in DOMAIN call.todo /\ Head(call.todo) = call.todo[1]
  BY <1>1
<1>3. /\ Tail(call.todo) \in Seq(Wants) /\ Len(Tail(call.todo)) = Len(call.todo) - 1
      /\ \A j \in 1 .. Len(call.todo) - 1 : Tail(call.todo)[j] = call.todo[j + 1]
  BY <1>1
<1>4. DOMAIN Tail(call.todo) = 1 .. Len(call.todo) - 1
  BY <1>3
<1>. QED BY <1>1, <1>2, <1>3, <1>4 DEF Wanted, Wants

(* The request it wants blocks for is one to feed these tokens.            *)
LEMMA AcceptedFacts ==
  ASSUME StateInv, CallInv, Reserving, Accepted
  PROVE  /\ Wanted.id \in DOMAIN reqs /\ ~ IsFinished(reqs[Wanted.id])
         /\ reqs[Wanted.id].cached + Wanted.len <= reqs[Wanted.id].input
         /\ reqs[Wanted.id].cached > 0 \/ Batched => Wanted.len = 1
         /\ call.op # "prefill" => reqs[Wanted.id].cached + Wanted.len = reqs[Wanted.id].input
         /\ Target \in Nat
<1>1. 1 \in DOMAIN call.todo /\ Wanted = call.todo[1] /\ Wanted.len \in Nat \ {0}
  BY WantedFacts
<1>2. \A r \in DOMAIN reqs : reqs[r].cached \in Nat /\ reqs[r].input \in Nat
  BY StateFacts, RequestFields
<1>3. CASE Batched
  <2>1. Wanted.len = 1
    BY <1>1, <1>3 DEF CallInv, TodoFits
  <2>2. Wanted.id \in DOMAIN reqs /\ ~ IsFinished(reqs[Wanted.id])
        /\ reqs[Wanted.id].input - reqs[Wanted.id].cached = 1
    BY <1>3 DEF Accepted, CanDecode, Known, ExtendLen, DeviceLen
  <2>. QED BY <1>2, <2>1, <2>2 DEF Target
<1>4. CASE ~ Batched
  <2>1. /\ Wanted.id \in DOMAIN reqs /\ ~ IsFinished(reqs[Wanted.id])
        /\ reqs[Wanted.id].cached + Wanted.len <= reqs[Wanted.id].input
        /\ reqs[Wanted.id].cached > 0 => Wanted.len = 1
        /\ call.op # "prefill" => reqs[Wanted.id].cached + Wanted.len = reqs[Wanted.id].input
    BY <1>1, <1>4 DEF CallInv, TodoFits, Known
  <2>. QED BY <1>1, <1>2, <1>4, <2>1 DEF Target
<1>. QED BY <1>3, <1>4

(* The call after its blocks are reserved.                                 *)
LEMMA ReservedCall ==
  ASSUME StateInv, CallInv, Reserve
  PROVE  LET row == [id |-> Wanted.id, past |-> reqs[Wanted.id].cached, len |-> Wanted.len]
         IN  /\ call' \in CallType
             /\ call'.todo = Tail(call.todo) /\ call'.rows = Append(call.rows, row)
             /\ call'.stage = "reserve" /\ call'.op = call.op
             /\ call'.until_finished = call.until_finished /\ call'.at = call.at
             /\ row \in Rows
<1> DEFINE row == [id |-> Wanted.id, past |-> reqs[Wanted.id].cached, len |-> Wanted.len]
           Wants == [id : Ids, len : Nat \ {0}]
<1>1. Reserving /\ Accepted
  BY DEF Reserve
<1>2. call' = [call EXCEPT !.todo = Tail(@), !.rows = Append(@, row)]
  BY DEF Reserve
<1>3. row \in Rows
  <2>1. reqs[Wanted.id].cached \in Nat
    BY <1>1, AcceptedFacts, StateFacts, RequestFields
  <2>. QED BY <1>1, <2>1, WantedFacts DEF Rows
<1>4. call \in CallType /\ call.stage = "reserve"
  BY <1>1, StateFacts DEF Reserving
<1>5. Tail(call.todo) \in Seq(Wants) /\ call.rows \in Seq(Rows)
  BY <1>1, <1>4, WantedFacts, CallFields
<1> HIDE DEF row, Wants
<1>6. Append(call.rows, row) \in Seq(Rows)
  BY <1>3, <1>5
<1>7. /\ call'.todo = Tail(call.todo) /\ call'.rows = Append(call.rows, row)
      /\ call'.stage = "reserve" /\ call'.op = call.op
      /\ call'.until_finished = call.until_finished /\ call'.at = call.at
  BY <1>2, <1>4 DEF CallType
<1>8. call' \in CallType
  BY <1>2, <1>4, <1>5, <1>6 DEF CallType, Wants
<1>. QED BY <1>3, <1>7, <1>8 DEF row

(* ensure_blocks of the request that is wanted.                            *)
LEMMA ReserveTakes ==
  ASSUME StateInv, CallInv, Reserve
  PROVE  LET r == Wanted.id
             q == reqs[r]
             t == TableFor(bt, q)
             p == [q EXCEPT !.table = t]
         IN  /\ r \in DOMAIN reqs /\ q \in RequestType
             /\ t \in Nat \ {0} /\ p \in RequestType /\ Counts(p)
             /\ p.input = q.input /\ p.cached = q.cached /\ p.status = q.status /\ p.table = t
             /\ p.generated = q.generated /\ p.max_new = q.max_new
             /\ reqs' \in Seq(RequestType) /\ Len(reqs') = Len(reqs) /\ DOMAIN reqs' = DOMAIN reqs
             /\ reqs'[r] = p /\ \A s \in DOMAIN reqs \ {r} : reqs'[s] = reqs[s]
             /\ WellFormed(bt') /\ LiveTables(bt') = LiveTables(bt) \cup {t}
             /\ q.table = NoTable => t \notin LiveTables(bt)
             /\ q.table # NoTable => t = q.table
             /\ \A v \in LiveTables(bt) \ {t} : bt'.tables[v] = bt.tables[v]
             /\ KeepsTables(bt, bt')
             /\ Target \in Nat
             /\ Len(bt'.tables[t]) >= NumRequiredBlocks(Target, PageSize)
             /\ Len(bt'.tables[t]) <= NumRequiredBlocks(q.input, PageSize)
<1> DEFINE r == Wanted.id
           q == reqs[r]
           t == TableFor(bt, q)
           p == [q EXCEPT !.table = t]
           had == IF q.table = NoTable THEN 0 ELSE Len(bt.tables[t])
<1>1. /\ Reserving /\ Accepted /\ bt' = WithBlocks(bt, q, Target, PageSize)
      /\ BlocksSuffice(bt, q, Target, PageSize) /\ reqs' = [reqs EXCEPT ![r].table = t]
  BY DEF Reserve, Suffices
<1>2. /\ r \in DOMAIN reqs /\ q.cached + Wanted.len <= q.input /\ Target \in Nat
      /\ Target = q.cached + Wanted.len
  BY <1>1, AcceptedFacts DEF Target
<1>3. /\ q \in RequestType /\ Counts(q) /\ (q.table # NoTable => IsTableUsed(bt, q.table))
      /\ q.input \in Nat
  BY <1>2, StateFacts, RequestFields
<1>4. reqs' = [reqs EXCEPT ![r] = p]
  BY <1>1
<1>5. WellFormed(bt) /\ PageSize \in Nat \ {0}
  BY StateFacts, Bounds
<1> HIDE DEF r, q
<1>6. /\ WellFormed(bt') /\ t \in Nat \ {0}
      /\ LiveTables(bt') = LiveTables(bt) \cup {t}
      /\ q.table = NoTable => t \notin LiveTables(bt)
      /\ Len(bt'.tables[t]) = IF had >= NumRequiredBlocks(Target, PageSize)
                              THEN had ELSE NumRequiredBlocks(Target, PageSize)
      /\ \A v \in LiveTables(bt) \ {t} : bt'.tables[v] = bt.tables[v]
      /\ KeepsTables(bt, bt')
  BY <1>1, <1>2, <1>3, <1>5, TakesBlocks
<1>7. q.table # NoTable => t = q.table
  BY DEF TableFor
<1>8. /\ p.input = q.input /\ p.cached = q.cached /\ p.status = q.status /\ p.table = t
      /\ p.generated = q.generated /\ p.max_new = q.max_new
  BY <1>3 DEF RequestType
<1> HIDE DEF t
<1>9. p \in RequestType /\ Counts(p)
  BY <1>3, <1>6, CountsTable
<1> HIDE DEF p, had
<1>10. /\ reqs' \in Seq(RequestType) /\ Len(reqs') = Len(reqs) /\ DOMAIN reqs' = DOMAIN reqs
       /\ reqs'[r] = p /\ \A s \in DOMAIN reqs \ {r} : reqs'[s] = reqs[s]
  BY <1>2, <1>4, <1>9, StateFacts, ReplaceRequest
<1>11. /\ NumRequiredBlocks(Target, PageSize) \in Nat
       /\ NumRequiredBlocks(q.input, PageSize) \in Nat
       /\ NumRequiredBlocks(Target, PageSize) <= NumRequiredBlocks(q.input, PageSize)
  BY <1>2, <1>3, <1>5, RequiredMonotone
<1>12. had \in Nat /\ had <= NumRequiredBlocks(q.input, PageSize)
  <2>1. CASE q.table = NoTable
    BY <1>11, <2>1 DEF had
  <2>2. CASE q.table # NoTable
    <3>1. Len(bt.tables[q.table]) \in Nat
      BY <1>3, <2>2, StateFacts, FieldTypes DEF IsTableUsed
    <3>2. Len(bt.tables[q.table]) <= NumRequiredBlocks(q.input, PageSize)
      BY <1>2, <2>2 DEF StateInv, NoHoarding, DeviceLen, q
    <3>. QED BY <1>7, <2>2, <3>1, <3>2 DEF had
  <2>. QED BY <2>1, <2>2
<1>13. /\ Len(bt'.tables[t]) >= NumRequiredBlocks(Target, PageSize)
       /\ Len(bt'.tables[t]) <= NumRequiredBlocks(q.input, PageSize)
  BY <1>6, <1>11, <1>12
<1>. QED BY <1>2, <1>3, <1>6, <1>7, <1>8, <1>9, <1>10, <1>13 DEF r, q, t, p

(* Reserving keeps every table with its owner.                             *)
LEMMA ReserveKeepsState ==
  ASSUME StateInv, CallInv, Reserve
  PROVE  StateInv'
<1> DEFINE r == Wanted.id
           q == reqs[r]
           t == TableFor(bt, q)
           p == [q EXCEPT !.table = t]
<1>1. /\ r \in DOMAIN reqs /\ q \in RequestType
      /\ t \in Nat \ {0} /\ p \in RequestType /\ Counts(p)
      /\ p.input = q.input /\ p.table = t
  BY ReserveTakes
<1>2. /\ reqs' \in Seq(RequestType) /\ Len(reqs') = Len(reqs) /\ DOMAIN reqs' = DOMAIN reqs
      /\ reqs'[r] = p /\ \A s \in DOMAIN reqs \ {r} : reqs'[s] = reqs[s]
  BY ReserveTakes
<1>3. /\ WellFormed(bt') /\ LiveTables(bt') = LiveTables(bt) \cup {t}
      /\ q.table = NoTable => t \notin LiveTables(bt)
      /\ q.table # NoTable => t = q.table
      /\ \A v \in LiveTables(bt) \ {t} : bt'.tables[v] = bt.tables[v]
      /\ Len(bt'.tables[t]) <= NumRequiredBlocks(q.input, PageSize)
  BY ReserveTakes
<1>4. call' \in CallType /\ UNCHANGED <<kv, result, faults>>
  BY ReservedCall DEF Reserve
<1>5. TypeOK'
  BY <1>2, <1>3, <1>4, StateFacts DEF TypeOK, Results, WellFormed
<1>6. \A s \in DOMAIN reqs \ {r} : reqs[s].table # NoTable =>
        reqs[s].table \in LiveTables(bt) /\ reqs[s].table # t
  <2>1. SUFFICES ASSUME NEW s \in DOMAIN reqs \ {r}, reqs[s].table # NoTable
                 PROVE  reqs[s].table \in LiveTables(bt) /\ reqs[s].table # t
    OBVIOUS
  <2>2. reqs[s].table \in LiveTables(bt)
    BY <2>1, StateFacts, UsedIsLive
  <2>3. reqs[s].table # q.table
    BY <1>1, <2>1 DEF StateInv, TableOwners
  <2>. QED BY <1>3, <2>2, <2>3
<1> HIDE DEF p, t
<1>7. TableOwners'
  <2>1. ASSUME NEW s \in DOMAIN reqs, reqs'[s].table # NoTable
        PROVE  /\ IsTableUsed(bt', reqs'[s].table)
               /\ \A u \in DOMAIN reqs : reqs'[u].table = reqs'[s].table => u = s
    <3>1. CASE s = r
      <4>1. reqs'[s].table = t /\ t \in LiveTables(bt') /\ t # NoTable
        BY <1>1, <1>2, <1>3, <3>1 DEF NoTable
      <4>2. \A u \in DOMAIN reqs \ {r} : reqs'[u].table # t
        BY <1>2, <1>6, <4>1
      <4>. QED BY <3>1, <4>1, <4>2, UsedIsLive
    <3>2. CASE s # r
      <4>1. reqs'[s] = reqs[s] /\ reqs[s].table \in LiveTables(bt') /\ reqs[s].table # t
        BY <1>2, <1>3, <1>6, <2>1, <3>2
      <4>2. \A u \in DOMAIN reqs : reqs[u].table = reqs[s].table => u = s
        BY <2>1, <4>1 DEF StateInv, TableOwners
      <4>. QED BY <1>1, <1>2, <4>1, <4>2, UsedIsLive
    <3>. QED BY <3>1, <3>2
  <2>2. ASSUME NEW v \in LiveTables(bt') PROVE \E s \in DOMAIN reqs : reqs'[s].table = v
    <3>1. CASE v = t
      BY <1>1, <1>2, <3>1
    <3>2. CASE v # t
      <4>1. v \in LiveTables(bt)
        BY <1>3, <3>2
      <4>2. PICK s \in DOMAIN reqs : reqs[s].table = v
        BY <4>1 DEF StateInv, TableOwners
      <4>3. v # NoTable
        <5>1. \A u \in LiveTables(bt) : u # 0
          BY StateFacts, FieldTypes DEF LiveTables
        <5>. QED BY <4>1, <5>1 DEF NoTable
      <4>4. s # r
        BY <1>3, <3>2, <4>2, <4>3
      <4>. QED BY <1>2, <4>2, <4>4
    <3>. QED BY <3>1, <3>2
  <2>. QED BY <1>2, <2>1, <2>2 DEF TableOwners
<1>8. NoHoarding'
  <2>1. ASSUME NEW s \in DOMAIN reqs, reqs'[s].table # NoTable
        PROVE  Len(bt'.tables[reqs'[s].table]) <= NumRequiredBlocks(reqs'[s].input, PageSize)
    <3>1. CASE s = r
      BY <1>1, <1>2, <1>3, <3>1
    <3>2. CASE s # r
      <4>1. reqs'[s] = reqs[s] /\ bt'.tables[reqs[s].table] = bt.tables[reqs[s].table]
        BY <1>2, <1>3, <1>6, <2>1, <3>2
      <4>. QED BY <2>1, <4>1 DEF StateInv, NoHoarding, DeviceLen
    <3>. QED BY <3>1, <3>2
  <2>. QED BY <1>2, <2>1 DEF NoHoarding, DeviceLen
<1>9. RequestsCount'
  BY <1>1, <1>2, StateFacts DEF RequestsCount
<1>. QED BY <1>3, <1>5, <1>7, <1>8, <1>9 DEF StateInv

-----------------------------------------------------------------------------
(* Calls that are over, and calls that begin.                              *)

(* Nothing is left to do when a call is over.                              *)
LEMMA CallOver ==
  ASSUME call' = NoCall
  PROVE  CallInv' /\ call' \in CallType
<1>1. /\ call'.op = "none" /\ call'.until_finished = FALSE /\ call'.stage = "idle"
      /\ call'.todo = << >> /\ call'.rows = << >>
  BY DEF NoCall
<1>2. call' \in CallType
  BY DEF NoCall, CallType
<1>3. Shape'
  BY <1>1 DEF Shape, Idle, Batched
<1>4. /\ TodoFits' /\ RowsMapped' /\ Pending' = {}
  BY <1>1 DEF TodoFits, RowsMapped, Pending
<1>5. RowsUnmarked' /\ RowsFit' /\ RowMarked' /\ Distinct'
  BY <1>1, <1>4 DEF RowsUnmarked, RowsFit, RowMarked, Distinct
<1>. QED BY <1>2, <1>3, <1>4, <1>5 DEF CallInv

(* A call that ends without touching requests, tables or pools.            *)
LEMMA OnlyReturns ==
  ASSUME StateInv, call' = NoCall, UNCHANGED <<reqs, bt, kv>>,
         result' \in Results, faults' \in 0 .. MaxFaults
  PROVE  EngineInv'
BY CallOver, CallMovesOn DEF EngineInv

(* The engine starts with no request, no table and no call.                *)
LEMMA InitHolds == Init => EngineInv
<1> SUFFICES ASSUME Init PROVE EngineInv
  OBVIOUS
<1>1. reqs = << >> /\ bt = EmptyManager /\ call = NoCall /\ result = "ok" /\ faults = 0
      /\ kv = [l \in Layers |-> [s \in Slots |-> NoTag]]
  BY DEF Init
<1>2. WellFormed(bt)
  BY <1>1, EmptyWellFormed
<1>3. call \in CallType
  BY <1>1 DEF NoCall, CallType
<1>4. TypeOK
  <2>1. kv \in [Layers -> [Slots -> (Ids \cup {0}) \X Nat]]
    BY <1>1 DEF NoTag, Tag
  <2>2. reqs \in Seq(RequestType) /\ Len(reqs) <= MaxRequests /\ 0 \in 0 .. MaxFaults
    BY <1>1, Bounds
  <2>. QED BY <1>1, <1>2, <1>3, <2>1, <2>2 DEF TypeOK, WellFormed
<1>5. TableOwners /\ NoHoarding /\ RequestsCount
  <2>1. LiveTables(bt) = {} /\ DOMAIN reqs = {}
    BY <1>1 DEF LiveTables, EmptyManager
  <2>. QED BY <2>1 DEF TableOwners, NoHoarding, RequestsCount
<1>6. /\ call.op = "none" /\ call.until_finished = FALSE /\ call.stage = "idle"
      /\ call.todo = << >> /\ call.rows = << >>
  BY <1>1 DEF NoCall
<1>7. Shape /\ TodoFits /\ RowsMapped /\ Pending = {}
  BY <1>1, <1>6 DEF Shape, Idle, Batched, TodoFits, RowsMapped, Pending
<1>8. RowsUnmarked /\ RowsFit /\ RowMarked /\ Distinct
  BY <1>6, <1>7 DEF RowsUnmarked, RowsFit, RowMarked, Distinct
<1>. QED BY <1>2, <1>4, <1>5, <1>7, <1>8 DEF EngineInv, StateInv, CallInv

(* A call that wants blocks for one chunk and has no rows.                 *)
LEMMA WantsOne ==
  ASSUME NEW w \in [id : Ids, len : Nat \ {0}],
         call'.op \in {"prefill", "decode"}, call'.stage = "reserve",
         call'.todo = <<w>>, call'.rows = << >>,
         w.id \in DOMAIN reqs', ~ IsFinished(reqs'[w.id]),
         reqs'[w.id].cached + w.len <= reqs'[w.id].input,
         reqs'[w.id].cached > 0 => w.len = 1,
         call'.op # "prefill" => reqs'[w.id].cached + w.len = reqs'[w.id].input
  PROVE  CallInv'
<1>1. DOMAIN call'.todo = {1} /\ call'.todo[1] = w /\ Len(call'.todo) = 1
      /\ DOMAIN call'.rows = {} /\ Len(call'.rows) = 0 /\ ~ Batched'
  BY DEF Batched
<1>2. Shape'
  BY <1>1 DEF Shape, Idle, Batched
<1>3. TodoFits'
  BY <1>1 DEF TodoFits, Known, Batched
<1>4. RowsMapped' /\ Pending' = {}
  BY <1>1 DEF RowsMapped, Pending
<1>5. RowsUnmarked' /\ RowsFit' /\ RowMarked' /\ Distinct'
  BY <1>1, <1>4 DEF RowsUnmarked, RowsFit, RowMarked, Distinct
<1>. QED BY <1>2, <1>3, <1>4, <1>5 DEF CallInv

(* The call that Start leaves, for one chunk.                              *)
LEMMA Started ==
  ASSUME NEW op \in {"prefill", "decode"}, NEW until_finished \in BOOLEAN,
         NEW w \in [id : Ids, len : Nat \ {0}], Start(op, until_finished, <<w>>)
  PROVE  /\ call' \in CallType /\ call'.op = op /\ call'.stage = "reserve"
         /\ call'.todo = <<w>> /\ call'.rows = << >> /\ result' \in Results
<1> DEFINE Wants == [id : Ids, len : Nat \ {0}]
<1>1. /\ call' = [op |-> op, until_finished |-> until_finished, stage |-> "reserve",
                  todo |-> <<w>>, rows |-> << >>, at |-> 0]
      /\ result' = "ok"
  BY DEF Start, NoCall
<1>2. <<w>> \in Seq(Wants)
  BY DEF Wants
<1>3. << >> \in Seq(Rows)
  OBVIOUS
<1> HIDE DEF Wants
<1>4. call' \in CallType
  BY <1>1, <1>2, <1>3 DEF CallType, Wants
<1>. QED BY <1>1, <1>4 DEF Results

(* prefill, decode_one_step and generate_until_finished begin.             *)
LEMMA OneBegins ==
  ASSUME EngineInv, NEW r \in Ids, Prefill(r) \/ DecodeOneStep(r) \/ GenerateUntilFinished(r)
  PROVE  EngineInv'
<1>1. \E op \in {"prefill", "decode"}, until_finished \in BOOLEAN :
        \/ /\ op = "prefill" /\ CanPrefill(r)
           /\ Start(op, until_finished, <<Chunk(r)>>)
        \/ /\ op = "decode" /\ CanDecode(r)
           /\ Start(op, until_finished, <<OneToken(r)>>)
  BY DEF Prefill, DecodeOneStep, GenerateUntilFinished, WantsPrefill
<1>2. UNCHANGED <<reqs, bt, kv, faults>>
  BY DEF Prefill, DecodeOneStep, GenerateUntilFinished
<1>3. PICK op \in {"prefill", "decode"}, until_finished \in BOOLEAN :
        \/ /\ op = "prefill" /\ CanPrefill(r)
           /\ Start(op, until_finished, <<Chunk(r)>>)
        \/ /\ op = "decode" /\ CanDecode(r)
           /\ Start(op, until_finished, <<OneToken(r)>>)
  BY <1>1
<1> DEFINE w == IF op = "prefill" THEN Chunk(r) ELSE OneToken(r)
           q == reqs[r]
<1>4. /\ r \in DOMAIN reqs /\ ~ IsFinished(q) /\ q.input - q.cached > 0
      /\ op = "decode" => q.input - q.cached = 1
  BY <1>3 DEF CanPrefill, CanDecode, Known, ExtendLen, DeviceLen
<1>5. q.input \in Nat /\ q.cached \in Nat
  BY <1>4, StateFacts, RequestFields DEF EngineInv
<1>6. /\ w.id = r /\ w.len \in Nat \ {0} /\ q.cached + w.len <= q.input
      /\ q.cached > 0 => w.len = 1
      /\ op = "decode" => q.cached + w.len = q.input
      /\ w \in [id : Ids, len : Nat \ {0}]
  BY <1>4, <1>5 DEF Chunk, OneToken, ExtendLen, DeviceLen
<1>7. Start(op, until_finished, <<w>>)
  BY <1>3
<1> HIDE DEF w
<1>8. /\ call' \in CallType /\ call'.op = op /\ call'.stage = "reserve"
      /\ call'.todo = <<w>> /\ call'.rows = << >> /\ result' \in Results
  BY <1>6, <1>7, Started
<1>9. CallInv'
  BY <1>2, <1>4, <1>6, <1>8, WantsOne
<1>10. StateInv'
  BY <1>2, <1>8, CallMovesOn, StateFacts DEF EngineInv
<1>. QED BY <1>9, <1>10 DEF EngineInv

(* decode_batch begins.                                                    *)
LEMMA BatchBegins ==
  ASSUME EngineInv, NEW ids \in Batches, DecodeBatch(ids)
  PROVE  EngineInv'
<1> DEFINE Wants == [id : Ids, len : Nat \ {0}]
           todo == [i \in DOMAIN ids |-> OneToken(ids[i])]
<1>1. PICK n \in 1 .. MaxRequests : ids \in [1 .. n -> Ids]
  BY DEF Batches
<1>2. NoRepeats => \A i, j \in DOMAIN ids : ids[i] = ids[j] => i = j
  BY DEF Batches, NoRepeats
<1>3. n \in Nat /\ DOMAIN ids = 1 .. n
  BY <1>1, Bounds
<1>4. \A i \in DOMAIN ids : todo[i] \in Wants /\ todo[i].id = ids[i] /\ todo[i].len = 1
  BY <1>1 DEF OneToken
<1>5. todo \in Seq(Wants) /\ DOMAIN todo = DOMAIN ids
  <2> HIDE DEF Wants
  <2>. QED BY <1>3, <1>4
<1>6. /\ call' = [op |-> "batch", until_finished |-> FALSE, stage |-> "reserve",
                  todo |-> todo, rows |-> << >>, at |-> 0]
      /\ result' = "ok" /\ UNCHANGED <<reqs, bt, kv, faults>>
  BY DEF DecodeBatch, Start, NoCall
<1> HIDE DEF todo, Wants
<1>7. << >> \in Seq(Rows)
  OBVIOUS
<1>8. call' \in CallType
  BY <1>5, <1>6, <1>7 DEF CallType, Wants
<1>9. /\ call'.op = "batch" /\ call'.stage = "reserve" /\ call'.todo = todo /\ call'.rows = << >>
      /\ call'.until_finished = FALSE
  BY <1>6
<1>10. DOMAIN call'.rows = {} /\ Batched' /\ Pending' = {}
  BY <1>9 DEF Batched, Pending
<1>11. Shape'
  BY <1>9, <1>10 DEF Shape, Idle, Batched
<1>12. TodoFits'
  BY <1>4, <1>5, <1>9, <1>10 DEF TodoFits
<1>13. RowsMapped' /\ RowsUnmarked' /\ RowsFit' /\ RowMarked'
  BY <1>9, <1>10 DEF RowsMapped, RowsUnmarked, RowsFit, RowMarked
<1>14. Distinct'
  BY <1>2, <1>4, <1>5, <1>9, <1>10 DEF Distinct, NoRepeats
<1>15. StateInv'
  BY <1>6, <1>8, CallMovesOn, StateFacts DEF EngineInv, Results
<1>. QED BY <1>11, <1>12, <1>13, <1>14, <1>15 DEF EngineInv, CallInv

(* append_input_tokens, generate of nothing.                               *)
LEMMA TurnKeeps ==
  ASSUME EngineInv, NEW r \in Ids,
         \/ \E n \in AppendLens, max_new \in AppendMaxNews : AppendInput(r, n, max_new)
         \/ GenerateNothing(r)
  PROVE  EngineInv'
<1> DEFINE q == reqs[r]
<1>1. r \in DOMAIN reqs /\ UNCHANGED <<bt, kv, faults>> /\ call' = NoCall /\ result' \in Results
  BY DEF AppendInput, GenerateNothing, Known, Return, Results
<1>2. q \in RequestType /\ Counts(q)
  BY <1>1, StateFacts, RequestFields DEF EngineInv
<1>3. \E p \in RequestType :
        /\ reqs' = [reqs EXCEPT ![r] = p] /\ Counts(p) /\ p.table = q.table /\ q.input <= p.input
  <2>1. CASE GenerateNothing(r)
    <3> DEFINE p == FinishRequest(q)
    <3>1. p \in RequestType /\ Counts(p)
      BY <1>2, UpdateTypes, CountsFinish
    <3>2. p.table = q.table /\ p.input = q.input /\ q.input \in Nat
      BY <1>2 DEF FinishRequest, RequestType
    <3>3. reqs' = [reqs EXCEPT ![r] = p]
      BY <2>1 DEF GenerateNothing
    <3>4. q.input <= p.input
      BY <3>2
    <3>5. reqs' = [reqs EXCEPT ![r] = p] /\ Counts(p) /\ p.table = q.table /\ q.input <= p.input
      BY <3>1, <3>2, <3>3, <3>4
    <3> HIDE DEF p, q
    <3>. QED BY <3>1, <3>5, Zenon
  <2>2. CASE \E n \in AppendLens, max_new \in AppendMaxNews : AppendInput(r, n, max_new)
    <3>1. PICK n \in AppendLens, max_new \in AppendMaxNews : AppendInput(r, n, max_new)
      BY <2>2
    <3> DEFINE p == AppendInputTokens(q, n)
               b == ResetGenerationOptions(p, max_new)
    <3>2. n \in Nat /\ max_new \in Nat \cup {-1}
      BY CallerAssumption
    <3>3. /\ DeviceLen(p) + (IF max_new < 0 THEN p.max_new ELSE max_new) <= MaxLen
          /\ NoReuse => q.table # NoTable \/ q.cached = 0
          /\ IF max_new < 0 THEN reqs' = [reqs EXCEPT ![r] = p]
             ELSE reqs' = [reqs EXCEPT ![r] = b]
      BY <3>1 DEF AppendInput, NoReuse
    <3>4. p \in RequestType /\ (max_new >= 0 => b \in RequestType)
      <4>1. p \in RequestType
        BY <1>2, <3>2, UpdateTypes
      <4> HIDE DEF p
      <4>2. max_new >= 0 => max_new \in Nat
        BY <3>2
      <4>. QED BY <4>1, <4>2, UpdateTypes
    <3>5. IF max_new < 0 THEN Counts(p) ELSE Counts(b)
      <4> HIDE DEF q
      <4>. QED BY <1>2, <3>2, <3>3, CountsAppendInput
    <3>6. p.table = q.table /\ q.input <= p.input
      <4>1. q.input \in Nat
        BY <1>2, FieldsOf
      <4>2. CASE n = 0
        BY <4>1, <4>2 DEF AppendInputTokens
      <4>3. CASE n # 0
        BY <1>2, <3>2, <4>1, <4>3 DEF AppendInputTokens, NewTurn, RequestType, DeviceLen
      <4>. QED BY <4>2, <4>3
    <3>7. max_new >= 0 => b.table = p.table /\ b.input = p.input
      <4> HIDE DEF p
      <4>. QED BY <3>2, <3>4 DEF ResetGenerationOptions, NewTurn, RequestType, DeviceLen
    <3> HIDE DEF p, b, q
    <3>. QED BY <3>2, <3>3, <3>4, <3>5, <3>6, <3>7
  <2>. QED BY <2>1, <2>2
<1>4. PICK p \in RequestType :
        /\ reqs' = [reqs EXCEPT ![r] = p] /\ Counts(p) /\ p.table = q.table /\ q.input <= p.input
  BY <1>3
<1>5. CallInv' /\ call' \in CallType
  BY <1>1, CallOver
<1>6. StateInv'
  BY <1>1, <1>4, <1>5, RequestUpdated, StateFacts DEF EngineInv
<1>. QED BY <1>5, <1>6 DEF EngineInv

(* Every step of a caller.                                                 *)
LEMMA CallerKeeps ==
  ASSUME EngineInv, CallerStep
  PROVE  EngineInv'
<1>1. CASE \E n \in PromptLens, max_new \in MaxNews : AddRequest(n, max_new)
  <2>1. PICK n \in PromptLens, max_new \in MaxNews : AddRequest(n, max_new)
    BY <1>1
  <2>2. StateInv'
    BY <2>1, AddKeepsState DEF EngineInv
  <2>3. call' = NoCall
    BY <2>1 DEF AddRequest, Return
  <2>. QED BY <2>2, <2>3, CallOver DEF EngineInv
<1>2. CASE \E r \in Ids : Release(r)
  <2>1. PICK r \in Ids : Release(r)
    BY <1>2
  <2>2. StateInv'
    BY <2>1, ReleaseKeepsState DEF EngineInv
  <2>3. call' = NoCall
    BY <2>1 DEF Release, Return
  <2>. QED BY <2>2, <2>3, CallOver DEF EngineInv
<1>3. CASE \E r \in Ids : \/ \E n \in AppendLens, max_new \in AppendMaxNews : AppendInput(r, n, max_new)
                          \/ GenerateNothing(r)
  BY <1>3, TurnKeeps
<1>4. CASE \E r \in Ids : Prefill(r) \/ DecodeOneStep(r) \/ GenerateUntilFinished(r)
  BY <1>4, OneBegins
<1>5. CASE \E r \in Ids : AlreadyFinished(r) \/ CallRefused(r)
  <2>1. call' = NoCall /\ UNCHANGED <<reqs, bt, kv, faults>> /\ result' \in Results
    BY <1>5 DEF AlreadyFinished, CallRefused, Return, Results
  <2>. QED BY <2>1, OnlyReturns, StateFacts DEF EngineInv
<1>6. CASE \E ids \in Batches : DecodeBatch(ids)
  BY <1>6, BatchBegins
<1>. QED BY <1>1, <1>2, <1>3, <1>4, <1>5, <1>6 DEF CallerStep

-----------------------------------------------------------------------------
(* The steps inside a call.                                                *)

(* What the invariant says of the call, by name.                           *)
LEMMA CallFacts ==
  ASSUME EngineInv
  PROVE  /\ StateInv /\ CallInv /\ call \in CallType
         /\ Shape /\ TodoFits /\ RowsMapped /\ RowsUnmarked /\ RowsFit /\ RowMarked /\ Distinct
BY StateFacts DEF EngineInv, CallInv

(* A table that grows does not get shorter.                                *)
LEMMA LenKept ==
  ASSUME NEW m, WellFormed(m), NEW w, WellFormed(w), KeepsTables(m, w),
         NEW v \in LiveTables(m), v \in LiveTables(w)
  PROVE  /\ Len(m.tables[v]) \in Nat /\ Len(w.tables[v]) \in Nat
         /\ Len(m.tables[v]) <= Len(w.tables[v])
<1>1. m.tables[v] \in Seq(Blocks) /\ w.tables[v] \in Seq(Blocks)
  BY FieldTypes DEF WellFormed, LiveTables
<1>2. DOMAIN m.tables[v] \subseteq DOMAIN w.tables[v]
  BY DEF KeepsTables
<1>3. /\ DOMAIN m.tables[v] = 1 .. Len(m.tables[v]) /\ DOMAIN w.tables[v] = 1 .. Len(w.tables[v])
      /\ Len(m.tables[v]) \in Nat /\ Len(w.tables[v]) \in Nat
  BY <1>1
<1>4. CASE Len(m.tables[v]) = 0
  BY <1>3, <1>4
<1>5. CASE Len(m.tables[v]) # 0
  <2>1. Len(m.tables[v]) \in 1 .. Len(w.tables[v])
    BY <1>2, <1>3, <1>5
  <2>. QED BY <1>3, <2>1
<1>. QED BY <1>4, <1>5

(* decode_batch passes over a finished request.                            *)
LEMMA SkipsKeeps ==
  ASSUME EngineInv, ReserveSkips
  PROVE  EngineInv'
<1> DEFINE Wants == [id : Ids, len : Nat \ {0}]
<1>1. /\ Reserving /\ Batched /\ call' = [call EXCEPT !.todo = Tail(@)]
      /\ UNCHANGED <<reqs, bt, kv, result, faults>>
  BY DEF ReserveSkips
<1>2. /\ Tail(call.todo) \in Seq(Wants)
      /\ DOMAIN Tail(call.todo) = 1 .. Len(call.todo) - 1
      /\ \A j \in DOMAIN Tail(call.todo) :
           j + 1 \in DOMAIN call.todo /\ Tail(call.todo)[j] = call.todo[j + 1]
  BY <1>1, WantedFacts, CallFacts
<1>3. call \in CallType /\ call.stage = "reserve"
  BY <1>1, CallFacts DEF Reserving
<1>4. /\ call'.todo = Tail(call.todo) /\ call'.rows = call.rows /\ call'.stage = "reserve"
      /\ call'.op = call.op /\ call'.until_finished = call.until_finished /\ call'.at = call.at
  BY <1>1, <1>3 DEF CallType
<1>5. call' \in CallType
  <2> HIDE DEF Wants
  <2>. QED BY <1>1, <1>2, <1>3 DEF CallType, Wants
<1>6. Batched' /\ Pending' = Pending
  BY <1>1, <1>3, <1>4 DEF Batched, Pending
<1> HIDE DEF Wants
<1>7. Shape'
  BY <1>3, <1>4, <1>6, CallFacts DEF Shape, Idle, Batched
<1>8. TodoFits'
  BY <1>1, <1>2, <1>4, <1>6, CallFacts DEF TodoFits
<1>9. RowsMapped'
  BY <1>1, <1>4, <1>6, CallFacts DEF RowsMapped, Known
<1>10. RowsUnmarked' /\ RowsFit'
  BY <1>1, <1>3, <1>4, <1>6, CallFacts DEF RowsUnmarked, Unmarked, RowsFit, IsFinished
<1>11. RowMarked'
  BY <1>4 DEF RowMarked
<1>12. Distinct'
  <2>1. SUFFICES ASSUME NoRepeats
                 PROVE  /\ \A i, j \in DOMAIN call.rows : call.rows[i].id = call.rows[j].id => i = j
                        /\ \A i, j \in DOMAIN Tail(call.todo) :
                             Tail(call.todo)[i].id = Tail(call.todo)[j].id => i = j
                        /\ \A i \in DOMAIN call.rows, j \in DOMAIN Tail(call.todo) :
                             call.rows[i].id # Tail(call.todo)[j].id
    BY <1>4 DEF Distinct
  <2>2. \A i, j \in DOMAIN Tail(call.todo) : i + 1 = j + 1 => i = j
    BY <1>2, CallFacts, CallFields
  <2>. QED BY <1>2, <2>1, <2>2, CallFacts DEF Distinct
<1>13. StateInv'
  BY <1>1, <1>5, CallMovesOn, StateFacts, CallFacts
<1>. QED BY <1>7, <1>8, <1>9, <1>10, <1>11, <1>12, <1>13 DEF EngineInv, CallInv

(* ensure_blocks of the request that is wanted makes it a row.             *)
LEMMA ReserveKeeps ==
  ASSUME EngineInv, Reserve
  PROVE  EngineInv'
<1> DEFINE r == Wanted.id
           q == reqs[r]
           t == TableFor(bt, q)
           row == [id |-> r, past |-> q.cached, len |-> Wanted.len]
           Wants == [id : Ids, len : Nat \ {0}]
<1>1. Reserving /\ Accepted /\ Target <= Capacity /\ Target = q.cached + Wanted.len
  BY DEF Reserve, Target
<1>2. /\ r \in DOMAIN reqs /\ ~ IsFinished(q) /\ q.cached + Wanted.len <= q.input
      /\ q.cached > 0 \/ Batched => Wanted.len = 1
      /\ call.op # "prefill" => q.cached + Wanted.len = q.input
  BY <1>1, AcceptedFacts, CallFacts
<1>3. /\ Wanted = call.todo[1] /\ 1 \in DOMAIN call.todo
      /\ Len(Tail(call.todo)) = Len(call.todo) - 1
      /\ DOMAIN Tail(call.todo) = 1 .. Len(call.todo) - 1
      /\ \A j \in DOMAIN Tail(call.todo) :
           j + 1 \in DOMAIN call.todo /\ Tail(call.todo)[j] = call.todo[j + 1]
  BY <1>1, WantedFacts, CallFacts
<1>4. /\ call' \in CallType
      /\ call'.todo = Tail(call.todo) /\ call'.rows = Append(call.rows, row)
      /\ call'.stage = "reserve" /\ call'.op = call.op
      /\ call'.until_finished = call.until_finished
      /\ row \in Rows
  BY ReservedCall, CallFacts
<1>5. /\ t \in Nat \ {0}
      /\ q.table # NoTable => t = q.table
      /\ WellFormed(bt') /\ KeepsTables(bt, bt') /\ LiveTables(bt') = LiveTables(bt) \cup {t}
      /\ Len(bt'.tables[t]) >= NumRequiredBlocks(Target, PageSize)
      /\ DOMAIN reqs' = DOMAIN reqs
      /\ reqs'[r] = [q EXCEPT !.table = t] /\ \A s \in DOMAIN reqs \ {r} : reqs'[s] = reqs[s]
      /\ [q EXCEPT !.table = t].input = q.input /\ [q EXCEPT !.table = t].cached = q.cached
      /\ [q EXCEPT !.table = t].status = q.status /\ [q EXCEPT !.table = t].table = t
  BY ReserveTakes, CallFacts
<1>6. \A s \in DOMAIN reqs :
        /\ s \in DOMAIN reqs'
        /\ reqs'[s].input = reqs[s].input /\ reqs'[s].cached = reqs[s].cached
        /\ reqs'[s].status = reqs[s].status
        /\ reqs[s].table # NoTable => reqs'[s].table = reqs[s].table
  BY <1>5
<1>7. /\ reqs'[r].table = t /\ t # NoTable
      /\ row.id = r /\ row.past = q.cached /\ row.len = Wanted.len
  BY <1>5 DEF NoTable
<1>8. call.stage = "reserve" /\ call.todo # << >>
  BY <1>1 DEF Reserving
<1> HIDE DEF row, t, q, r
<1>9. /\ \A k \in DOMAIN call.rows : k \in DOMAIN call'.rows /\ call'.rows[k] = call.rows[k]
      /\ \A k \in DOMAIN call'.rows : \/ k \in DOMAIN call.rows /\ call'.rows[k] = call.rows[k]
                                      \/ k = Len(call.rows) + 1 /\ call'.rows[k] = row
      /\ Len(call'.rows) = Len(call.rows) + 1
  BY <1>4, AppendElements, CallFacts, CallFields
<1>10. Batched' = Batched /\ Pending = DOMAIN call.rows /\ Pending' = DOMAIN call'.rows
  BY <1>4, <1>8 DEF Batched, Pending
<1> DEFINE todos == Len(call.todo)
           rows == Len(call.rows)
           todos1 == Len(call'.todo)
           rows1 == Len(call'.rows)
<1>20. /\ todos \in Nat /\ rows \in Nat /\ todos >= 1
       /\ todos1 = todos - 1 /\ rows1 = rows + 1
       /\ ~ Batched => todos + rows = 1
  <2>1. todos \in Nat /\ rows \in Nat
    BY CallFacts, CallFields
  <2>2. todos >= 1
    BY <1>3, CallFacts, CallFields
  <2>. QED BY <1>3, <1>4, <1>8, <1>9, <2>1, <2>2, CallFacts DEF Shape
<1>11. Shape'
  <2>1. ~ Batched => todos1 + rows1 = 1
    <3> HIDE DEF todos, rows, todos1, rows1
    <3>. QED BY <1>20
  <2>2. ~ Batched => Len(call'.todo) + Len(call'.rows) = 1
    BY <2>1
  <2> HIDE DEF todos, rows, todos1, rows1
  <2>. QED BY <1>4, <1>8, <1>10, <2>2, CallFacts DEF Shape, Idle, Batched
<1>12. TodoFits'
  <2>1. CASE Batched
    BY <1>3, <1>4, <1>10, <2>1, CallFacts DEF TodoFits
  <2>2. CASE ~ Batched
    <3>1. todos = 1
      <4> HIDE DEF todos, rows, todos1, rows1
      <4>. QED BY <1>20, <2>2
    <3>2. DOMAIN call'.todo = {}
      BY <1>3, <1>4, <3>1
    <3>. QED BY <3>2 DEF TodoFits
  <2>. QED BY <2>1, <2>2
<1>13. RowsMapped'
  <2>1. SUFFICES ASSUME NEW k \in DOMAIN call'.rows
        PROVE  LET w == call'.rows[k]
               IN  /\ w.id \in DOMAIN reqs' /\ reqs'[w.id].table # NoTable
                   /\ w.past > 0 \/ Batched => w.len = 1
                   /\ w.past + w.len <= Capacity
                   /\ Len(bt'.tables[reqs'[w.id].table]) >= NumRequiredBlocks(w.past + w.len, PageSize)
    BY <1>10 DEF RowsMapped, Known
  <2>2. CASE k \in DOMAIN call.rows /\ call'.rows[k] = call.rows[k]
    <3> DEFINE w == call.rows[k]
               v == reqs[w.id].table
               m == NumRequiredBlocks(w.past + w.len, PageSize)
    <3>1. /\ w.id \in DOMAIN reqs /\ v # NoTable
          /\ w.past > 0 \/ Batched => w.len = 1
          /\ w.past + w.len <= Capacity /\ Len(bt.tables[v]) >= m
      BY <2>2, CallFacts DEF RowsMapped, Known
    <3>2. reqs'[w.id].table = v /\ w.id \in DOMAIN reqs'
      BY <1>6, <3>1
    <3>3. v \in LiveTables(bt) /\ v \in LiveTables(bt')
      BY <1>5, <3>1, StateFacts, CallFacts, UsedIsLive
    <3>4. m \in Nat
      <4>1. w.past \in Nat /\ w.len \in Nat
        BY <2>2, CallFacts, CallFields
      <4>. QED BY <4>1, Bounds, RequiredMonotone
    <3> HIDE DEF v
    <3>5. Len(bt'.tables[v]) >= m
      <4> HIDE DEF m
      <4>1. /\ Len(bt.tables[v]) \in Nat /\ Len(bt'.tables[v]) \in Nat
            /\ Len(bt.tables[v]) <= Len(bt'.tables[v])
        BY <1>5, <3>3, LenKept, StateFacts, CallFacts
      <4>. QED BY <3>1, <3>4, <4>1
    <3>. QED BY <2>2, <3>1, <3>2, <3>5
  <2>3. CASE call'.rows[k] = row
    BY <1>1, <1>2, <1>5, <1>6, <1>7, <2>3
  <2>. QED BY <1>9, <2>2, <2>3
<1>14. \A k \in DOMAIN call.rows : call.rows[k].id \in DOMAIN reqs
  BY CallFacts DEF RowsMapped, Known
<1>15. RowsUnmarked' /\ RowsFit'
  <2>1. ASSUME NEW k \in Pending'
        PROVE  LET w == call'.rows[k]
                   p == reqs'[w.id]
               IN  /\ ~ IsFinished(p) /\ w.past = p.cached /\ p.cached + w.len <= p.input
                   /\ call'.op # "prefill" => p.cached + w.len = p.input
    <3>1. CASE k \in DOMAIN call.rows /\ call'.rows[k] = call.rows[k]
      <4>1. Unmarked(call.rows[k])
        BY <1>8, <1>10, <3>1, CallFacts DEF RowsUnmarked
      <4>2. call.rows[k].id \in DOMAIN reqs
        BY <1>14, <3>1
      <4>. QED BY <1>4, <1>6, <3>1, <4>1, <4>2 DEF Unmarked, IsFinished
    <3>2. CASE call'.rows[k] = row
      BY <1>2, <1>4, <1>6, <1>7, <3>2 DEF IsFinished, q
    <3>. QED BY <1>9, <1>10, <3>1, <3>2
  <2>. QED BY <2>1 DEF RowsUnmarked, Unmarked, RowsFit
<1>16. RowMarked'
  BY <1>4 DEF RowMarked
<1>17. Distinct'
  <2>1. SUFFICES ASSUME NoRepeats
                 PROVE  /\ \A i, j \in DOMAIN call'.rows : call'.rows[i].id = call'.rows[j].id => i = j
                        /\ \A i, j \in DOMAIN call'.todo :
                             call'.todo[i].id = call'.todo[j].id => i = j
                        /\ \A i \in DOMAIN call'.rows, j \in DOMAIN call'.todo :
                             call'.rows[i].id # call'.todo[j].id
    BY DEF Distinct
  <2>2. \A i, j \in DOMAIN Tail(call.todo) : (i + 1 = j + 1 => i = j) /\ i + 1 # 1
    BY SMTT(30), <1>3, CallFacts, CallFields
  <2>3. \A i \in DOMAIN call.rows : call.rows[i].id # r
    BY <1>3, <2>1, CallFacts DEF Distinct, r
  <2>4. \A j \in DOMAIN call'.todo : call'.todo[j].id # r
    BY <1>3, <1>4, <2>1, <2>2, CallFacts DEF Distinct, r
  <2>5. \A i, j \in DOMAIN call'.todo : call'.todo[i].id = call'.todo[j].id => i = j
    BY <1>3, <1>4, <2>1, <2>2, CallFacts DEF Distinct
  <2>6. \A i \in DOMAIN call.rows, j \in DOMAIN call'.todo : call.rows[i].id # call'.todo[j].id
    BY <1>3, <1>4, <2>1, CallFacts DEF Distinct
  <2>7. \A i, j \in DOMAIN call.rows : call.rows[i].id = call.rows[j].id => i = j
    BY <2>1, CallFacts DEF Distinct
  <2>. QED BY <1>7, <1>9, <2>3, <2>4, <2>5, <2>6, <2>7
<1>18. StateInv'
  BY ReserveKeepsState, CallFacts
<1>. QED BY <1>11, <1>12, <1>13, <1>15, <1>16, <1>17, <1>18 DEF EngineInv, CallInv

(* Every block is reserved: the model runs, unless no row is left.         *)
LEMMA DoneKeeps ==
  ASSUME EngineInv, ReserveDone
  PROVE  EngineInv'
<1>1. call.stage = "reserve" /\ call.todo = << >> /\ UNCHANGED <<reqs, bt, kv, faults>>
  BY DEF ReserveDone
<1>2. CASE call.rows = << >>
  BY <1>1, <1>2, OnlyReturns, StateFacts, CallFacts DEF ReserveDone, Return, Results
<1>3. CASE call.rows # << >>
  <2>1. call' = [call EXCEPT !.stage = "forward", !.at = 0] /\ UNCHANGED result
    BY <1>3 DEF ReserveDone
  <2>2. /\ call'.todo = call.todo /\ call'.rows = call.rows /\ call'.stage = "forward"
        /\ call'.op = call.op /\ call'.until_finished = call.until_finished /\ call'.at = 0
        /\ call' \in CallType
    BY <2>1, CallFacts DEF CallType
  <2>3. Batched' = Batched /\ Pending' = Pending
    BY <1>1, <2>2 DEF Batched, Pending
  <2>4. Shape'
    BY <1>1, <1>3, <2>2, <2>3, Bounds, CallFacts DEF Shape, Idle, Batched
  <2>5. TodoFits' /\ RowMarked'
    BY <1>1, <2>2 DEF TodoFits, RowMarked
  <2>6. RowsMapped'
    BY <1>1, <2>2, <2>3, CallFacts DEF RowsMapped, Known
  <2>7. RowsUnmarked' /\ RowsFit'
    BY <1>1, <2>2, <2>3, CallFacts DEF RowsUnmarked, Unmarked, RowsFit, IsFinished
  <2>8. Distinct'
    BY <2>2, CallFacts DEF Distinct
  <2>9. StateInv'
    BY <1>1, <2>1, <2>2, CallMovesOn, StateFacts, CallFacts
  <2>. QED BY <2>4, <2>5, <2>6, <2>7, <2>8, <2>9 DEF EngineInv, CallInv
<1>. QED BY <1>2, <1>3

(* One layer writes and attends.                                           *)
LEMMA ForwardKeeps ==
  ASSUME EngineInv, Forward
  PROVE  EngineInv'
<1>1. /\ Forwarding /\ kv' = UpdateLayer(call.at + 1, RowTokens)
      /\ call' = [call EXCEPT !.at = call.at + 1] /\ UNCHANGED <<reqs, bt, result, faults>>
  BY CallFacts DEF Forward, CallType
<1>2. call.stage = "forward" /\ call.at < NumLayers /\ call.at \in Nat
      /\ Len(call.rows) \in Nat
  BY <1>1, CallFacts, CallFields DEF Forwarding
<1>3. call.at + 1 \in Layers /\ RowTokens \in SUBSET RowTokens
  BY <1>2, Bounds DEF Layers
<1>4. /\ call'.todo = call.todo /\ call'.rows = call.rows /\ call'.stage = "forward"
      /\ call'.op = call.op /\ call'.until_finished = call.until_finished
      /\ call'.at = call.at + 1 /\ call' \in CallType
  BY <1>1, <1>2, CallFacts DEF CallType
<1>5. Batched' = Batched /\ Pending' = Pending
  BY <1>2, <1>4 DEF Batched, Pending
<1>6. Shape'
  <2>1. call.at + 1 <= NumLayers
    BY <1>2, Bounds
  <2>. QED BY <1>2, <1>4, <1>5, <2>1, CallFacts DEF Shape, Idle, Batched
<1>7. TodoFits' /\ RowMarked'
  <2>1. call.todo = << >>
    BY <1>2, CallFacts DEF Shape
  <2>. QED BY <1>4, <2>1 DEF TodoFits, RowMarked
<1>8. RowsMapped'
  BY <1>1, <1>4, <1>5, CallFacts DEF RowsMapped, Known
<1>9. RowsUnmarked' /\ RowsFit'
  BY <1>1, <1>2, <1>4, <1>5, CallFacts DEF RowsUnmarked, Unmarked, RowsFit, IsFinished
<1>10. Distinct'
  BY <1>4, CallFacts DEF Distinct
<1>11. StateInv'
  <2>1. kv' \in [Layers -> [Slots -> (Ids \cup {0}) \X Nat]]
    BY <1>1, <1>3, UpdateType, StateFacts, CallFacts
  <2>. QED BY <1>1, <1>4, <2>1, PoolsWritten, StateFacts, CallFacts
<1>. QED BY <1>6, <1>7, <1>8, <1>9, <1>10, <1>11 DEF EngineInv, CallInv

(* An exception leaves the pools with some of the rows written.            *)
LEMMA FaultKeeps ==
  ASSUME EngineInv, FaultInForward \/ FaultInSample
  PROVE  EngineInv'
<1>1. /\ call' = NoCall /\ result' \in Results /\ UNCHANGED <<reqs, bt>>
      /\ faults < MaxFaults /\ faults' = faults + 1
  BY DEF FaultInForward, FaultInSample, Return, Results
<1>2. faults' \in 0 .. MaxFaults
  BY <1>1, Bounds, StateFacts, CallFacts
<1>3. CASE FaultInForward
  <2>1. /\ call.stage = "forward" /\ call.at < NumLayers
        /\ \/ kv' = UpdateLayer(call.at + 1, RowTokens)
           \/ \E w \in RowTokens, torn \in BOOLEAN : kv' = UpdateFails(call.at + 1, w, torn)
    BY <1>3 DEF FaultInForward, Forwarding
  <2>2. call.at + 1 \in Layers
    BY <2>1, Bounds, CallFacts, CallFields DEF Layers
  <2>3. kv' \in [Layers -> [Slots -> (Ids \cup {0}) \X Nat]]
    <3>1. /\ kv \in [Layers -> [Slots -> (Ids \cup {0}) \X Nat]] /\ call \in CallType
      BY StateFacts, CallFacts
    <3>2. CASE kv' = UpdateLayer(call.at + 1, RowTokens)
      <4>1. RowTokens \in SUBSET RowTokens
        OBVIOUS
      <4>. QED BY <2>2, <3>1, <3>2, <4>1, UpdateType
    <3>3. CASE \E w \in RowTokens, torn \in BOOLEAN : kv' = UpdateFails(call.at + 1, w, torn)
      BY <2>2, <3>1, <3>3, FailedUpdateType
    <3>. QED BY <2>1, <3>2, <3>3
  <2>. QED BY <1>1, <1>2, <2>3, PoolsWritten, CallOver, CallFacts DEF EngineInv
<1>4. CASE FaultInSample
  <2>1. UNCHANGED kv
    BY <1>4 DEF FaultInSample
  <2>. QED BY <1>1, <1>2, <2>1, OnlyReturns, CallFacts
<1>. QED BY <1>3, <1>4

(* The row the steps after the model are about.                            *)
LEMMA RowFacts ==
  ASSUME EngineInv, call.stage \in {"sample", "append"} \/ MayMark
  PROVE  /\ Row \in Rows /\ Row.id \in Ids /\ Row.past \in Nat /\ Row.len \in Nat \ {0}
         /\ Row.id \in DOMAIN reqs
         /\ reqs[Row.id] \in RequestType /\ Counts(reqs[Row.id])
         /\ reqs[Row.id].table # NoTable
         /\ Batched => call.at \in DOMAIN call.rows /\ Row = call.rows[call.at]
         /\ ~ Batched => DOMAIN call.rows = {1} /\ Row = call.rows[1]
<1>1. call.rows # << >> /\ call.rows \in Seq(Rows)
  BY CallFacts, CallFields DEF Shape, MayMark, Forwarded
<1>2. 1 \in DOMAIN call.rows
  BY <1>1
<1>3. Batched => call.at \in DOMAIN call.rows
  BY CallFacts DEF Shape, MayMark
<1>4. ~ Batched => DOMAIN call.rows = {1}
  <2>1. Len(call.todo) \in Nat /\ Len(call.rows) \in Nat /\ DOMAIN call.rows = 1 .. Len(call.rows)
    BY CallFacts, CallFields
  <2>2. ~ Batched => Len(call.todo) + Len(call.rows) <= 1
    BY CallFacts DEF Shape
  <2> DEFINE todos == Len(call.todo)
             rows == Len(call.rows)
  <2>3. ~ Batched => rows <= 1
    <3>1. todos \in Nat /\ rows \in Nat /\ (~ Batched => todos + rows <= 1)
      BY <2>1, <2>2
    <3> HIDE DEF todos, rows
    <3>. QED BY <3>1
  <2>4. rows >= 1
    BY <1>2, <2>1
  <2>5. ~ Batched => rows = 1
    <3>1. rows \in Nat
      BY <2>1
    <3> HIDE DEF rows
    <3>. QED BY <2>3, <2>4, <3>1
  <2>6. DOMAIN call.rows = 1 .. rows
    BY <2>1
  <2> HIDE DEF todos, rows
  <2>. QED BY <2>5, <2>6
<1>5. \E k \in DOMAIN call.rows : Row = call.rows[k]
  BY <1>2, <1>3 DEF Row
<1>6. PICK k \in DOMAIN call.rows : Row = call.rows[k]
  BY <1>5
<1>7. Row \in Rows /\ Row.id \in Ids /\ Row.past \in Nat /\ Row.len \in Nat \ {0}
  BY <1>6, CallFacts, CallFields
<1>8. Row.id \in DOMAIN reqs /\ reqs[Row.id].table # NoTable
  BY <1>6, CallFacts DEF RowsMapped, Known
<1>9. reqs[Row.id] \in RequestType /\ Counts(reqs[Row.id])
  BY <1>8, CallFacts, StateFacts, RequestFields
<1>. QED BY <1>3, <1>4, <1>7, <1>8, <1>9 DEF Row

(* The row to mark is one the model has yet to be told about.              *)
LEMMA MarkFacts ==
  ASSUME EngineInv, MayMark
  PROVE  /\ reqs[Row.id].cached + Row.len <= reqs[Row.id].input
         /\ NoRepeats \/ ~ Batched => Unmarked(Row)
<1>1. \E k \in Pending : Row = call.rows[k]
  <2>1. CASE Batched
    <3>1. call.stage = "mark" /\ call.at \in DOMAIN call.rows /\ Row = call.rows[call.at]
      BY <2>1, RowFacts DEF MayMark
    <3>2. call.at \in Pending
      BY <3>1, CallFacts, CallFields DEF Pending
    <3>. QED BY <3>1, <3>2
  <2>2. CASE ~ Batched
    <3>1. call.stage = "forward" /\ 1 \in DOMAIN call.rows /\ Row = call.rows[1]
      BY <2>2, RowFacts DEF MayMark, Forwarded
    <3>. QED BY <3>1 DEF Pending
  <2>. QED BY <2>1, <2>2
<1>2. PICK k \in Pending : Row = call.rows[k]
  BY <1>1
<1>3. call.stage # "append"
  BY DEF MayMark, Forwarded
<1>4. reqs[Row.id].cached + Row.len <= reqs[Row.id].input
  BY <1>2, <1>3, CallFacts DEF RowsFit
<1>5. NoRepeats \/ ~ Batched => Unmarked(Row)
  BY <1>2, CallFacts DEF RowsUnmarked, MayMark, Forwarded
<1>. QED BY <1>4, <1>5

(* What mark_forward_done does to a request.                               *)
LEMMA MarkedFields ==
  ASSUME NEW q \in RequestType, NEW n \in Nat
  PROVE  LET p == MarkForwardDone(q, n)
         IN  /\ p.input = q.input /\ p.cached = q.cached + n /\ p.table = q.table
             /\ p.generated = q.generated /\ p.max_new = q.max_new /\ p.prompt = q.prompt
             /\ p.eos = q.eos
             /\ p.status = IF q.status = "Finished" THEN q.status ELSE "Decoding"
BY DEF MarkForwardDone, RequestType

(* mark_forward_done of the row the model has just been through.           *)
LEMMA MarkKeeps ==
  ASSUME EngineInv, Mark
  PROVE  EngineInv'
<1> DEFINE r == Row.id
           q == reqs[r]
           p == MarkForwardDone(q, Row.len)
           stage == IF Batched THEN "append" ELSE "sample"
<1>1. /\ MayMark /\ reqs' = [reqs EXCEPT ![r] = p] /\ call' = [call EXCEPT !.stage = stage]
      /\ UNCHANGED <<bt, kv, result, faults>>
  BY DEF Mark
<1>2. /\ r \in DOMAIN reqs /\ q \in RequestType /\ Counts(q) /\ q.table # NoTable
      /\ Row.len \in Nat
  BY <1>1, RowFacts
<1>3. q.cached + Row.len <= q.input /\ (NoRepeats \/ ~ Batched => Unmarked(Row))
  BY <1>1, MarkFacts
<1>4. /\ p.input = q.input /\ p.cached = q.cached + Row.len /\ p.table = q.table
      /\ p.status = IF q.status = "Finished" THEN q.status ELSE "Decoding"
      /\ p \in RequestType
  BY <1>2, MarkedFields, UpdateTypes
<1>5. Counts(p)
  <2> HIDE DEF q
  <2>. QED BY <1>2, <1>3, CountsMark
<1>6. /\ call'.todo = call.todo /\ call'.rows = call.rows /\ call'.stage = stage
      /\ call'.op = call.op /\ call'.until_finished = call.until_finished
      /\ call'.at = call.at /\ call' \in CallType
  BY <1>1, CallFacts DEF CallType
<1>7. Batched' = Batched /\ Row' = Row
  BY <1>6 DEF Batched, Row
<1>8. q.input \in Nat
  BY <1>2, FieldsOf
<1> HIDE DEF p, q, r
<1>9. StateInv'
  <2>1. q.input <= p.input
    BY <1>4, <1>8
  <2>. QED BY <1>1, <1>2, <1>4, <1>5, <1>6, <2>1, RequestUpdated, StateFacts, CallFacts DEF q
<1>10. /\ DOMAIN reqs' = DOMAIN reqs /\ reqs'[r] = p
       /\ \A s \in DOMAIN reqs \ {r} : reqs'[s] = reqs[s]
  BY <1>1, <1>2, <1>4, ReplaceRequest, StateFacts, CallFacts
<1>11. \A s \in DOMAIN reqs : reqs'[s].table = reqs[s].table
  BY <1>4, <1>10 DEF q
<1>12. call.todo = << >> /\ call.rows # << >>
  BY <1>1, CallFacts DEF Shape, MayMark, Forwarded
<1>13. Shape'
  <2>1. call.stage \in {"forward", "mark"} /\ (Batched => call.stage = "mark")
    BY <1>1 DEF MayMark, Forwarded
  <2>. QED BY <1>6, <1>7, <1>12, <2>1, CallFacts DEF Shape, Idle, Batched
<1>14. TodoFits'
  BY <1>6, <1>12 DEF TodoFits
<1>15. RowsMapped'
  <2>1. \A k \in DOMAIN call.rows : call.rows[k].id \in DOMAIN reqs
    BY CallFacts DEF RowsMapped, Known
  <2>. QED BY <1>1, <1>6, <1>7, <1>10, <1>11, <2>1, CallFacts DEF RowsMapped, Known
<1>16. /\ ~ Batched => Pending' = {}
       /\ Batched => /\ Pending' = {k \in DOMAIN call.rows : call.at < k}
                     /\ Pending' \subseteq Pending /\ call.at \in DOMAIN call.rows
                     /\ Row = call.rows[call.at]
  <2>1. CASE ~ Batched
    BY <1>6, <1>7, <2>1 DEF Pending
  <2>2. CASE Batched
    <3>1. call.stage = "mark" /\ call.at \in DOMAIN call.rows /\ Row = call.rows[call.at]
      BY <1>1, <2>2, RowFacts DEF MayMark
    <3>2. Pending = {k \in DOMAIN call.rows : call.at <= k}
      BY <3>1 DEF Pending
    <3>3. Pending' = {k \in DOMAIN call.rows : call.at < k}
      BY <1>6, <1>7, <2>2 DEF Pending
    <3>4. \A k \in DOMAIN call.rows : call.at < k => call.at <= k
      BY <3>1, CallFacts, CallFields
    <3>. QED BY <2>2, <3>1, <3>2, <3>3, <3>4
  <2>. QED BY <2>1, <2>2
<1>17. \A k \in DOMAIN call.rows : call.rows[k].id \in DOMAIN reqs
  BY CallFacts DEF RowsMapped, Known
<1>18. RowsUnmarked'
  <2>1. SUFFICES ASSUME NoRepeats, Batched, NEW k \in Pending' PROVE Unmarked(call.rows[k])'
    BY <1>6, <1>16 DEF RowsUnmarked
  <2>2. /\ k \in DOMAIN call.rows /\ k # call.at /\ k \in Pending /\ call.at \in DOMAIN call.rows
    BY <1>16, <2>1, CallFacts, CallFields
  <2>3. call.rows[k].id # r
    BY <1>16, <2>1, <2>2, CallFacts DEF Distinct, r
  <2>4. Unmarked(call.rows[k])
    BY <2>1, <2>2, CallFacts DEF RowsUnmarked
  <2>5. reqs'[call.rows[k].id] = reqs[call.rows[k].id]
    BY <1>10, <1>17, <2>2, <2>3
  <2>. QED BY <1>6, <2>4, <2>5 DEF Unmarked, IsFinished
<1>19. RowsFit'
  <2>1. SUFFICES ASSUME Batched, NEW k \in Pending', call.rows[k].id # r
                 PROVE  reqs'[call.rows[k].id].cached + call.rows[k].len <= reqs'[call.rows[k].id].input
    BY <1>6, <1>7, <1>16 DEF RowsFit, r
  <2>2. k \in DOMAIN call.rows /\ k \in Pending /\ call.stage = "mark"
    BY <1>1, <1>16, <2>1 DEF MayMark
  <2>3. reqs'[call.rows[k].id] = reqs[call.rows[k].id]
    BY <1>10, <1>17, <2>1, <2>2
  <2>. QED BY <2>2, <2>3, CallFacts DEF RowsFit
<1>20. RowMarked'
  <2>1. NoRepeats \/ ~ Batched => p.status = "Decoding"
    BY <1>3, <1>4 DEF Unmarked, IsFinished, q, r
  <2>2. (NoRepeats \/ ~ Batched) /\ call.op # "prefill" => p.cached = p.input
    BY <1>3, <1>4 DEF Unmarked, q, r
  <2>3. Batched => call.op # "prefill"
    BY DEF Batched
  <2>4. reqs'[Row'.id] = p
    BY <1>7, <1>10 DEF r
  <2>5. /\ call'.stage = "sample" <=> ~ Batched
        /\ call'.stage = "append" <=> Batched
    BY <1>6
  <2>. QED BY <1>6, <1>7, <2>1, <2>2, <2>3, <2>4, <2>5 DEF RowMarked
<1>21. Distinct'
  BY <1>6, CallFacts DEF Distinct
<1>. QED BY <1>9, <1>13, <1>14, <1>15, <1>18, <1>19, <1>20, <1>21 DEF EngineInv, CallInv

(* A batch samples all its rows at once.                                   *)
LEMMA SampleBatchKeeps ==
  ASSUME EngineInv, SampleBatch
  PROVE  EngineInv'
<1>1. /\ Batched /\ call.stage = "forward" /\ UNCHANGED <<reqs, bt, kv, result, faults>>
      /\ call' = [call EXCEPT !.stage = "mark", !.at = 1]
  BY DEF SampleBatch, Forwarded
<1>2. /\ call'.todo = call.todo /\ call'.rows = call.rows /\ call'.stage = "mark"
      /\ call'.op = call.op /\ call'.until_finished = call.until_finished /\ call'.at = 1
      /\ call' \in CallType
  BY <1>1, CallFacts DEF CallType
<1>3. call.todo = << >> /\ call.rows # << >> /\ 1 \in DOMAIN call.rows
  BY <1>1, CallFacts, CallFields DEF Shape
<1>4. Batched' /\ Pending' = DOMAIN call.rows /\ Pending = DOMAIN call.rows
  BY <1>1, <1>2, CallFacts, CallFields DEF Batched, Pending
<1>5. Shape'
  BY <1>1, <1>2, <1>3, <1>4, CallFacts DEF Shape, Idle, Batched
<1>6. TodoFits' /\ RowMarked'
  BY <1>2, <1>3 DEF TodoFits, RowMarked
<1>7. RowsMapped'
  BY <1>1, <1>2, <1>4, CallFacts DEF RowsMapped, Known
<1>8. RowsUnmarked' /\ RowsFit'
  BY <1>1, <1>2, <1>4, CallFacts DEF RowsUnmarked, Unmarked, RowsFit, IsFinished
<1>9. Distinct'
  BY <1>2, CallFacts DEF Distinct
<1>10. StateInv'
  BY <1>1, <1>2, CallMovesOn, StateFacts, CallFacts
<1>. QED BY <1>5, <1>6, <1>7, <1>8, <1>9, <1>10 DEF EngineInv, CallInv

(* A single request samples, or prefill feeds its next token first.        *)
LEMMA SampleKeeps ==
  ASSUME EngineInv, Sample
  PROVE  EngineInv'
<1> DEFINE r == Row.id
           q == reqs[r]
           w == OneToken(r)
           Wants == [id : Ids, len : Nat \ {0}]
<1>1. call.stage = "sample" /\ UNCHANGED <<reqs, bt, kv, result, faults>>
  BY DEF Sample
<1>2. r \in DOMAIN reqs /\ q \in RequestType /\ Counts(q) /\ r \in Ids
  BY <1>1, RowFacts
<1>3. q.status = "Decoding" /\ (call.op # "prefill" => q.cached = q.input)
  BY <1>1, CallFacts DEF RowMarked
<1>4. q.cached \in Nat /\ q.input \in Nat
  BY <1>2, FieldsOf
<1>5. ~ Batched
  BY <1>1, CallFacts DEF Shape
<1>6. CASE call.op = "prefill" /\ ExtendLen(q) > 0
  <2>1. call' = [call EXCEPT !.stage = "reserve", !.todo = <<w>>, !.rows = << >>, !.at = 0]
    BY <1>6 DEF Sample
  <2>2. w \in Wants /\ w.id = r /\ w.len = 1
    BY <1>2 DEF OneToken
  <2>3. <<w>> \in Seq(Wants) /\ << >> \in Seq(Rows)
    <3> HIDE DEF w, Wants
    <3>. QED BY <2>2
  <2>4. /\ call'.op = "prefill" /\ call'.stage = "reserve" /\ call'.todo = <<w>>
        /\ call'.rows = << >>
    <3> HIDE DEF w
    <3>. QED BY <1>6, <2>1, CallFacts DEF CallType
  <2>5. call' \in CallType
    <3> HIDE DEF w, Wants
    <3>. QED BY <2>1, <2>3, CallFacts DEF CallType, Wants
  <2>6. q.cached + 1 <= q.input
    BY <1>4, <1>6 DEF ExtendLen, DeviceLen
  <2>7. /\ w.id \in DOMAIN reqs' /\ ~ IsFinished(reqs'[w.id])
        /\ reqs'[w.id].cached + w.len <= reqs'[w.id].input
    BY <1>1, <1>2, <1>3, <2>2, <2>6 DEF IsFinished
  <2> HIDE DEF w
  <2>8. CallInv'
    BY <2>2, <2>4, <2>7, WantsOne
  <2>9. StateInv'
    BY <1>1, <2>5, CallMovesOn, StateFacts, CallFacts
  <2>. QED BY <2>8, <2>9 DEF EngineInv
<1>7. CASE ~ (call.op = "prefill" /\ ExtendLen(q) > 0)
  <2>1. call' = [call EXCEPT !.stage = "append"]
    BY <1>7 DEF Sample
  <2>2. /\ call'.todo = call.todo /\ call'.rows = call.rows /\ call'.stage = "append"
        /\ call'.op = call.op /\ call'.until_finished = call.until_finished
        /\ call'.at = call.at /\ call' \in CallType
    BY <2>1, CallFacts DEF CallType
  <2>3. ~ Batched' /\ Row' = Row /\ Pending' = {}
    BY <1>5, <2>2 DEF Batched, Row, Pending
  <2>4. Shape'
    BY <1>1, <1>5, <2>2, <2>3, CallFacts DEF Shape, Idle, Batched
  <2>5. TodoFits'
    BY <1>1, <2>2, CallFacts DEF TodoFits, Shape
  <2>6. RowsMapped'
    BY <1>1, <1>5, <2>2, <2>3, CallFacts DEF RowsMapped, Known
  <2>7. RowsUnmarked' /\ RowsFit'
    BY <2>3 DEF RowsUnmarked, RowsFit
  <2>8. q.cached = q.input
    BY <1>2, <1>3, <1>4, <1>7 DEF Counts, ExtendLen, DeviceLen
  <2>9. RowMarked'
    BY <1>1, <1>3, <2>2, <2>3, <2>8 DEF RowMarked
  <2>10. Distinct'
    BY <2>2, CallFacts DEF Distinct
  <2>11. StateInv'
    BY <1>1, <2>1, <2>2, CallMovesOn, StateFacts, CallFacts
  <2>. QED BY <2>4, <2>5, <2>6, <2>7, <2>9, <2>10, <2>11 DEF EngineInv, CallInv
<1>. QED BY <1>6, <1>7

(* What append_token does to a request.                                    *)
LEMMA AppendedFields ==
  ASSUME NEW q \in RequestType, NEW is_eos \in BOOLEAN
  PROVE  LET p == AppendToken(q, is_eos)
         IN  /\ p.input = q.input + 1 /\ p.generated = q.generated + 1 /\ p.prompt = q.prompt
             /\ p.cached = q.cached /\ p.max_new = q.max_new /\ p.table = q.table
             /\ p.eos = is_eos
             /\ p.status = IF is_eos \/ q.generated + 1 >= q.max_new THEN "Finished" ELSE "Decoding"
BY DEF AppendToken, RequestType

(* The sampled token is appended, and the call goes on or ends.            *)
LEMMA AppendKeeps ==
  ASSUME EngineInv, NEW is_eos \in BOOLEAN, AppendSampled(is_eos)
  PROVE  EngineInv'
<1> DEFINE r == Row.id
           q == reqs[r]
           p == AppendToken(q, is_eos)
           w == OneToken(r)
           Wants == [id : Ids, len : Nat \ {0}]
<1>1. /\ call.stage = "append" /\ q.status = "Decoding" /\ reqs' = [reqs EXCEPT ![r] = p]
      /\ Proceed(p) /\ UNCHANGED <<bt, kv, faults>>
  BY DEF AppendSampled, MayAppend
<1>2. /\ r \in DOMAIN reqs /\ q \in RequestType /\ Counts(q) /\ q.table # NoTable /\ r \in Ids
  BY <1>1, RowFacts
<1>3. /\ p.input = q.input + 1 /\ p.cached = q.cached /\ p.table = q.table /\ p \in RequestType
  BY <1>2, AppendedFields, UpdateTypes
<1>4. Counts(p)
  <2> HIDE DEF q
  <2>. QED BY <1>1, <1>2, CountsAppendToken
<1>5. q.input \in Nat /\ q.cached \in Nat /\ q.cached <= q.input
  BY <1>2, FieldsOf DEF Counts
<1> HIDE DEF p, q, r
<1>6. /\ DOMAIN reqs' = DOMAIN reqs /\ reqs'[r] = p
      /\ \A s \in DOMAIN reqs \ {r} : reqs'[s] = reqs[s]
  BY <1>1, <1>2, <1>3, ReplaceRequest, StateFacts, CallFacts
<1>7. ASSUME call' \in CallType, result' \in Results PROVE StateInv'
  <2>1. q.input <= p.input
    BY <1>3, <1>5
  <2>. QED BY <1>1, <1>2, <1>3, <1>4, <1>7, <2>1, RequestUpdated, StateFacts, CallFacts DEF q
<1>8. CASE Batched /\ call.at < Len(call.rows)
  <2>1. call' = [call EXCEPT !.stage = "mark", !.at = call.at + 1] /\ UNCHANGED result
    <3>1. call' = [call EXCEPT !.stage = "mark", !.at = @ + 1] /\ UNCHANGED result
      <4>1. ~ call.until_finished
        BY <1>8, CallFacts DEF Shape
      <4>. QED BY <1>1, <1>8, <4>1 DEF Proceed
    <3>. QED BY <3>1
  <2>2. call.at + 1 \in Nat /\ call.at \in DOMAIN call.rows /\ Row = call.rows[call.at]
    BY <1>1, <1>8, RowFacts, CallFacts, CallFields
  <2>3. /\ call'.todo = call.todo /\ call'.rows = call.rows /\ call'.stage = "mark"
        /\ call'.op = call.op /\ call'.until_finished = call.until_finished
        /\ call'.at = call.at + 1 /\ call' \in CallType
    BY <2>1, <2>2, CallFacts DEF CallType
  <2>4. call.at + 1 \in DOMAIN call.rows
    BY <1>8, <2>2, CallFacts, CallFields
  <2>5. Batched' /\ Pending' = Pending /\ \A k \in Pending : k \in DOMAIN call.rows /\ k # call.at
    <3>1. \A k \in DOMAIN call.rows : call.at + 1 <= k <=> call.at < k
      BY <2>2, CallFacts, CallFields
    <3>2. Batched' /\ Pending' = {k \in DOMAIN call.rows : call.at + 1 <= k}
      BY <1>8, <2>3 DEF Batched, Pending
    <3>3. Pending = {k \in DOMAIN call.rows : call.at < k}
      BY <1>1, <1>8 DEF Pending
    <3>. QED BY <3>1, <3>2, <3>3, CallFacts, CallFields
  <2>6. Shape'
    BY <1>1, <1>8, <2>3, <2>4, <2>5, CallFacts DEF Shape, Idle, Batched
  <2>7. TodoFits' /\ RowMarked'
    BY <1>1, <2>3, CallFacts DEF TodoFits, RowMarked, Shape
  <2>8. \A k \in DOMAIN call.rows : call.rows[k].id \in DOMAIN reqs
    BY CallFacts DEF RowsMapped, Known
  <2>9. \A s \in DOMAIN reqs : reqs'[s].table = reqs[s].table
    BY <1>3, <1>6 DEF q
  <2>10. RowsMapped'
    BY <1>1, <1>6, <1>8, <2>3, <2>5, <2>8, <2>9, CallFacts DEF RowsMapped, Known
  <2>11. RowsUnmarked'
    <3>1. SUFFICES ASSUME NoRepeats, NEW k \in Pending' PROVE Unmarked(call.rows[k])'
      BY <2>3 DEF RowsUnmarked
    <3>2. k \in DOMAIN call.rows /\ k # call.at /\ k \in Pending
      BY <2>5, <3>1
    <3>3. call.rows[k].id # r
      BY <2>2, <3>1, <3>2, CallFacts DEF Distinct, r
    <3>4. reqs'[call.rows[k].id] = reqs[call.rows[k].id]
      BY <1>6, <2>8, <3>2, <3>3
    <3>5. Unmarked(call.rows[k])
      BY <3>1, <3>2, CallFacts DEF RowsUnmarked
    <3>. QED BY <2>3, <3>4, <3>5 DEF Unmarked, IsFinished
  <2>12. RowsFit'
    <3>1. SUFFICES ASSUME NEW k \in Pending'
                   PROVE  reqs'[call.rows[k].id].cached + call.rows[k].len <= reqs'[call.rows[k].id].input
      BY <2>3 DEF RowsFit
    <3>2. k \in DOMAIN call.rows /\ k \in Pending
      BY <2>5, <3>1
    <3>3. CASE call.rows[k].id = r
      <4>1. call.rows[k].len = 1
        BY <1>8, <3>2, CallFacts DEF RowsMapped
      <4>. QED BY <1>3, <1>5, <1>6, <3>3, <4>1
    <3>4. CASE call.rows[k].id # r
      <4>1. reqs'[call.rows[k].id] = reqs[call.rows[k].id]
        BY <1>6, <2>8, <3>2, <3>4
      <4>. QED BY <3>2, <3>4, <4>1, CallFacts DEF RowsFit, r
    <3>. QED BY <3>3, <3>4
  <2>13. Distinct'
    BY <2>3, CallFacts DEF Distinct
  <2>14. StateInv'
    BY <1>7, <2>1, <2>3, StateFacts, CallFacts
  <2>. QED BY <2>6, <2>7, <2>10, <2>11, <2>12, <2>13, <2>14 DEF EngineInv, CallInv
<1>9. CASE ~ (Batched /\ call.at < Len(call.rows)) /\ call.until_finished /\ ~ IsFinished(p)
  <2>1. Start("decode", TRUE, <<w>>)
    BY <1>1, <1>9 DEF Proceed, r
  <2>2. w \in Wants /\ w.id = r /\ w.len = 1
    BY <1>2 DEF OneToken
  <2> HIDE DEF w
  <2>3. /\ call' \in CallType /\ call'.op = "decode" /\ call'.stage = "reserve"
        /\ call'.todo = <<w>> /\ call'.rows = << >> /\ result' \in Results
    BY <2>1, <2>2, Started
  <2>4. ~ Batched
    BY <1>9, CallFacts DEF Shape
  <2>5. q.cached = q.input
    BY <1>1, <2>4, CallFacts DEF RowMarked, q, r
  <2>6. /\ w.id \in DOMAIN reqs' /\ ~ IsFinished(reqs'[w.id])
        /\ reqs'[w.id].cached + w.len = reqs'[w.id].input
        /\ reqs'[w.id].cached + w.len <= reqs'[w.id].input
    BY <1>2, <1>3, <1>5, <1>6, <1>9, <2>2, <2>5
  <2>7. CallInv'
    BY <2>2, <2>3, <2>6, WantsOne
  <2>. QED BY <1>7, <2>3, <2>7 DEF EngineInv
<1>10. CASE ~ (Batched /\ call.at < Len(call.rows)) /\ ~ (call.until_finished /\ ~ IsFinished(p))
  <2>1. call' = NoCall /\ result' \in Results
    BY <1>1, <1>10 DEF Proceed, Return, Results
  <2>2. call' \in CallType /\ CallInv'
    BY <2>1, CallOver
  <2>. QED BY <1>7, <2>1, <2>2 DEF EngineInv
<1>. QED BY <1>8, <1>9, <1>10

(* Every step of the engine.                                               *)
LEMMA EngineKeeps ==
  ASSUME EngineInv, EngineStep
  PROVE  EngineInv'
<1>1. CASE ReserveRefused \/ ReserveTooLong \/ AppendRefused
  <2>1. call' = NoCall /\ UNCHANGED <<reqs, bt, kv, faults>> /\ result' \in Results
    BY <1>1 DEF ReserveRefused, ReserveTooLong, AppendRefused, Return, Results
  <2>. QED BY <2>1, OnlyReturns, StateFacts, CallFacts
<1>2. CASE ReserveExhausted
  <2>1. Reserving /\ Accepted /\ call' = NoCall
    BY <1>2 DEF ReserveExhausted, Return
  <2>2. Wanted.id \in DOMAIN reqs
    BY <2>1, AcceptedFacts, CallFacts
  <2>3. StateInv'
    BY <1>2, <2>2, ExhaustedKeepsState, CallFacts
  <2>. QED BY <2>1, <2>3, CallOver DEF EngineInv
<1>. QED
  BY <1>1, <1>2, SkipsKeeps, ReserveKeeps, DoneKeeps, ForwardKeeps, MarkKeeps, SampleKeeps,
     SampleBatchKeeps, AppendKeeps DEF EngineStep

(* No step at all.                                                         *)
LEMMA StutterKeeps ==
  ASSUME EngineInv, UNCHANGED vars
  PROVE  EngineInv'
<1>1. UNCHANGED <<reqs, bt, kv, call, result, faults>>
  BY DEF vars
<1>2. StateInv'
  BY <1>1, CallMovesOn, StateFacts, CallFacts
<1>3. Batched' = Batched /\ Pending' = Pending /\ Row' = Row /\ Idle' = Idle
  BY <1>1 DEF Batched, Pending, Row, Idle
<1>4. Shape' /\ TodoFits' /\ RowsMapped'
  BY <1>1, <1>3, CallFacts DEF Shape, TodoFits, RowsMapped, Known
<1>5. RowsUnmarked' /\ RowsFit' /\ RowMarked' /\ Distinct'
  BY <1>1, <1>3, CallFacts DEF RowsUnmarked, Unmarked, RowsFit, RowMarked, Distinct
<1>. QED BY <1>2, <1>4, <1>5 DEF EngineInv, CallInv

(* EngineInv holds in every state the engine reaches.                      *)
THEOREM SpecInv == Spec => []EngineInv
<1>1. EngineInv /\ [Next]_vars => EngineInv'
  <2> SUFFICES ASSUME EngineInv, [Next]_vars PROVE EngineInv'
    OBVIOUS
  <2>. QED
    BY CallerKeeps, EngineKeeps, FaultKeeps, StutterKeeps DEF Next
<1>. QED BY InitHolds, <1>1, PTL DEF Spec

-----------------------------------------------------------------------------
(* What follows from it.                                                   *)

(* Every field keeps its type.                                             *)
THEOREM TypeCorrect == Spec => []TypeOK
<1>1. EngineInv => TypeOK
  BY DEF EngineInv, StateInv
<1>. QED BY SpecInv, <1>1, PTL

(* A live block table belongs to exactly one request.                      *)
THEOREM TablesOwned == Spec => []TableOwners
<1>1. EngineInv => TableOwners
  BY DEF EngineInv, StateInv
<1>. QED BY SpecInv, <1>1, PTL

(* No request holds more blocks than its tokens need.                      *)
THEOREM NothingHoarded == Spec => []NoHoarding
<1>1. EngineInv => NoHoarding
  BY DEF EngineInv, StateInv
<1>. QED BY SpecInv, <1>1, PTL

(* A row whose table is long enough has all its tokens mapped.             *)
LEMMA RowIsMapped ==
  ASSUME EngineInv, NEW k \in DOMAIN call.rows,
         NEW pos \in 0 .. (call.rows[k].past + call.rows[k].len - 1)
  PROVE  IsMapped(bt, reqs[call.rows[k].id].table, pos, PageSize)
<1> DEFINE row == call.rows[k]
           t == reqs[row.id].table
           n == row.past + row.len
           m == NumRequiredBlocks(n, PageSize)
<1>1. /\ row.id \in DOMAIN reqs /\ t # NoTable /\ Len(bt.tables[t]) >= m
  BY CallFacts DEF RowsMapped, Known
<1>2. n \in Nat /\ pos \in 0 .. (n - 1)
  BY CallFacts, CallFields
<1>3. IsTableUsed(bt, t)
  BY <1>1, CallFacts, StateFacts
<1> HIDE DEF row, t, n
<1>4. Len(bt.tables[t]) \in Nat
  <2>1. \A v \in DOMAIN bt.tables : Len(bt.tables[v]) \in Nat
    BY CallFacts, StateFacts, FieldTypes
  <2>. QED BY <1>3, <2>1 DEF IsTableUsed
<1>5. m \in Nat /\ pos \div PageSize \in Nat /\ pos \div PageSize < m
  <2>1. m \in Nat
    BY <1>2, Bounds, RequiredMonotone
  <2>2. pos \div PageSize \in Nat /\ pos \div PageSize < m
    BY <1>2, Bounds, RequiredCovers
  <2>. QED BY <2>1, <2>2
<1> HIDE DEF m
<1>6. pos \in Nat
  BY <1>2
<1>7. pos \div PageSize < Len(bt.tables[t])
  BY <1>1, <1>4, <1>5
<1>. QED BY <1>3, <1>6, <1>7 DEF IsMapped, t, row

(* What the model and its caches throw on never reaches them.              *)
THEOREM ModelNeverThrows == Spec => []ModelAccepts
<1>1. ASSUME EngineInv PROVE ModelAccepts
  <2>1. SUFFICES ASSUME call.stage = "forward", NEW k \in DOMAIN call.rows
                 PROVE  LET row == call.rows[k]
                        IN  /\ row.past > 0 \/ Batched => row.len = 1
                            /\ row.past = reqs[row.id].cached
                            /\ row.past + row.len <= Capacity
                            /\ \A pos \in row.past .. (row.past + row.len - 1) :
                                 IsMapped(bt, reqs[row.id].table, pos, PageSize)
    BY DEF ModelAccepts
  <2>2. k \in Pending
    BY <2>1 DEF Pending
  <2>3. Unmarked(call.rows[k])
    BY <1>1, <2>1, <2>2, CallFacts DEF RowsUnmarked
  <2>4. \A pos \in call.rows[k].past .. (call.rows[k].past + call.rows[k].len - 1) :
          pos \in 0 .. (call.rows[k].past + call.rows[k].len - 1)
    BY <1>1, CallFacts, CallFields
  <2>. QED BY <1>1, <2>3, <2>4, RowIsMapped, CallFacts DEF Unmarked, RowsMapped
<1>. QED BY SpecInv, <1>1, PTL

(* The check_valid assertion of a request holds when every turn may sample *)
(* at least one token.                                                     *)
THEOREM LenIsWithinMax == ASSUME QuotaGiven PROVE Spec => []LenWithinMax
<1>1. ASSUME EngineInv PROVE LenWithinMax
  <2>1. SUFFICES ASSUME NEW r \in DOMAIN reqs
                 PROVE  reqs[r].cached <= reqs[r].input
                        /\ reqs[r].input <= reqs[r].prompt + reqs[r].max_new
    BY DEF LenWithinMax, DeviceLen, MaxDeviceLen
  <2>2. Counts(reqs[r]) /\ reqs[r] \in RequestType
    BY <1>1, CallFacts, StateFacts, RequestFields
  <2>3. /\ reqs[r].prompt \in Nat /\ reqs[r].generated \in Nat /\ reqs[r].max_new \in Nat
    BY <2>2, FieldsOf
  <2>. QED BY <2>2, <2>3 DEF Counts
<1>. QED BY SpecInv, <1>1, PTL

-----------------------------------------------------------------------------
(* The updates of a turn, field by field.                                  *)

(* What append_input_tokens does to a request.                             *)
LEMMA InputFields ==
  ASSUME NEW q \in RequestType, NEW n \in Nat
  PROVE  LET p == AppendInputTokens(q, n)
         IN  /\ p \in RequestType
             /\ p.input = q.input + n /\ p.cached = q.cached /\ p.max_new = q.max_new
             /\ p.table = q.table
             /\ n = 0 => p = q
             /\ n # 0 => p.generated = 0 /\ ~ IsFinished(p)
<1>1. AppendInputTokens(q, n) \in RequestType
  BY UpdateTypes
<1>2. CASE n = 0
  BY <1>1, <1>2, FieldsOf DEF AppendInputTokens
<1>3. CASE n # 0
  BY <1>1, <1>3 DEF AppendInputTokens, NewTurn, RequestType, DeviceLen, IsFinished
<1>. QED BY <1>2, <1>3

(* What reset_generation_options does to a request.                        *)
LEMMA OptionsFields ==
  ASSUME NEW q \in RequestType, NEW max_new \in Nat
  PROVE  LET p == ResetGenerationOptions(q, max_new)
         IN  /\ p \in RequestType
             /\ p.input = q.input /\ p.cached = q.cached /\ p.max_new = max_new
             /\ p.table = q.table /\ p.generated = 0 /\ ~ IsFinished(p)
<1>1. ResetGenerationOptions(q, max_new) \in RequestType
  BY UpdateTypes
<1>. QED BY <1>1 DEF ResetGenerationOptions, NewTurn, RequestType, DeviceLen, IsFinished

(* A new turn has sampled no EOS yet.                                      *)
LEMMA NewTurnEos ==
  ASSUME NEW q \in RequestType
  PROVE  /\ \A n \in Nat \ {0} : AppendInputTokens(q, n).eos = FALSE
         /\ \A max_new \in Nat : ResetGenerationOptions(q, max_new).eos = FALSE
<1>1. ASSUME NEW p \in RequestType PROVE NewTurn(p).eos = FALSE
  BY DEF NewTurn, RequestType
<1>2. ASSUME NEW n \in Nat \ {0} PROVE AppendInputTokens(q, n).eos = FALSE
  <2>1. [q EXCEPT !.input = @ + n] \in RequestType
    BY DEF RequestType
  <2>2. AppendInputTokens(q, n) = NewTurn([q EXCEPT !.input = @ + n])
    BY DEF AppendInputTokens
  <2>. QED BY <1>1, <2>1, <2>2
<1>3. ASSUME NEW max_new \in Nat PROVE ResetGenerationOptions(q, max_new).eos = FALSE
  <2>1. [q EXCEPT !.max_new = max_new] \in RequestType
    BY DEF RequestType
  <2>2. ResetGenerationOptions(q, max_new) = NewTurn([q EXCEPT !.max_new = max_new])
    BY DEF ResetGenerationOptions
  <2>. QED BY <1>1, <2>1, <2>2
<1>. QED BY <1>2, <1>3

(* What finish_request does to a request, with or without its table.       *)
LEMMA FinishFields ==
  ASSUME NEW q \in RequestType, NEW p,
         p = FinishRequest(q) \/ p = FinishRequest([q EXCEPT !.table = NoTable])
  PROVE  /\ p \in RequestType /\ IsFinished(p)
         /\ p.input = q.input /\ p.cached = q.cached /\ p.max_new = q.max_new
         /\ p.generated = q.generated /\ p.prompt = q.prompt /\ p.eos = q.eos
<1>1. CASE p = FinishRequest(q)
  BY <1>1 DEF FinishRequest, RequestType, IsFinished, Statuses
<1>2. CASE p = FinishRequest([q EXCEPT !.table = NoTable])
  BY <1>2 DEF FinishRequest, RequestType, IsFinished, NoTable, Statuses
<1>. QED BY <1>1, <1>2

-----------------------------------------------------------------------------
(* A request always has a token to feed, but while it awaits one.          *)

(* A step that leaves every request at least as many tokens to feed.       *)
LEMMA TokensStay ==
  ASSUME EngineInv, EngineInv', HasToken, call.stage \notin {"sample", "append"},
         \A r \in DOMAIN reqs' :
           \/ /\ r \in DOMAIN reqs /\ reqs'[r].cached = reqs[r].cached
              /\ reqs[r].input <= reqs'[r].input
           \/ reqs'[r].cached < reqs'[r].input
  PROVE  HasToken'
<1>1. SUFFICES ASSUME NoRepeats, SampleSafe, NEW r \in DOMAIN reqs'
               PROVE  reqs'[r].input - reqs'[r].cached > 0
  BY DEF HasToken, ExtendLen, DeviceLen
<1>2. reqs'[r].input \in Nat /\ reqs'[r].cached \in Nat
  <2>1. reqs' \in Seq(RequestType)
    BY DEF EngineInv, StateInv, TypeOK
  <2>. QED BY <1>1, <2>1, FieldsOf
<1>3. CASE r \in DOMAIN reqs /\ reqs'[r].cached = reqs[r].cached /\ reqs[r].input <= reqs'[r].input
  <2>1. reqs[r].input - reqs[r].cached > 0
    BY <1>1, <1>3 DEF HasToken, ExtendLen, DeviceLen
  <2>2. reqs[r].input \in Nat /\ reqs[r].cached \in Nat
    BY <1>3, CallFacts, StateFacts, RequestFields
  <2>. QED BY <1>2, <1>3, <2>1, <2>2
<1>4. CASE reqs'[r].cached < reqs'[r].input
  BY <1>2, <1>4
<1>. QED BY <1>1, <1>3, <1>4

(* A step that leaves the requests alone.                                  *)
LEMMA TokensUnchanged ==
  ASSUME EngineInv, EngineInv', HasToken, UNCHANGED reqs,
         call.stage \notin {"sample", "append"}
  PROVE  HasToken'
<1>1. \A r \in DOMAIN reqs' :
        r \in DOMAIN reqs /\ reqs'[r].cached = reqs[r].cached /\ reqs[r].input <= reqs'[r].input
  BY CallFacts, StateFacts, RequestFields
<1>. QED BY <1>1, TokensStay

(* A step that replaces one request by one with more tokens.               *)
LEMMA TokensOfOne ==
  ASSUME EngineInv, EngineInv', HasToken, call.stage \notin {"sample", "append"},
         NEW r \in DOMAIN reqs, NEW p, reqs' = [reqs EXCEPT ![r] = p],
         p.cached = reqs[r].cached, reqs[r].input <= p.input
  PROVE  HasToken'
<1>1. \A s \in DOMAIN reqs' :
        /\ s \in DOMAIN reqs /\ reqs'[s].cached = reqs[s].cached
        /\ reqs[s].input <= reqs'[s].input
  <2>1. \A s \in DOMAIN reqs : reqs[s].input \in Nat
    BY CallFacts, StateFacts, RequestFields
  <2>. QED BY <2>1
<1>. QED BY <1>1, TokensStay

(* No step of a caller takes the last token to feed away.                  *)
LEMMA CallerLeavesTokens ==
  ASSUME EngineInv, EngineInv', HasToken, CallerStep
  PROVE  HasToken'
<1>1. call.stage \notin {"sample", "append"}
  BY DEF CallerStep, AddRequest, AppendInput, Release, Prefill, DecodeOneStep,
         GenerateUntilFinished, GenerateNothing, AlreadyFinished, CallRefused, DecodeBatch, Idle
<1>2. CASE \E n \in PromptLens, max_new \in MaxNews : AddRequest(n, max_new)
  <2>1. PICK n \in PromptLens, max_new \in MaxNews : AddRequest(n, max_new)
    BY <1>2
  <2> DEFINE q == NewRequest(n, max_new)
  <2>2. n \in Nat \ {0} /\ max_new \in Nat
    BY CallerAssumption
  <2>3. q \in RequestType /\ q.input = n /\ q.cached = 0
    BY <2>2 DEF NewRequest, RequestType, Statuses, NoTable
  <2> HIDE DEF q
  <2>4. reqs' = Append(reqs, q)
    BY <2>1 DEF AddRequest, q
  <2>5. \A s \in DOMAIN reqs' : \/ s \in DOMAIN reqs /\ reqs'[s] = reqs[s]
                                \/ reqs'[s] = q
    BY <2>3, <2>4, StateFacts, CallFacts, AppendElements
  <2>6. \A s \in DOMAIN reqs : reqs[s].input \in Nat
    BY CallFacts, StateFacts, RequestFields
  <2>7. \A s \in DOMAIN reqs' :
          \/ /\ s \in DOMAIN reqs /\ reqs'[s].cached = reqs[s].cached
             /\ reqs[s].input <= reqs'[s].input
          \/ reqs'[s].cached < reqs'[s].input
    BY <2>2, <2>3, <2>5, <2>6
  <2>. QED BY <1>1, <2>7, TokensStay
<1>3. CASE \E r \in Ids, n \in AppendLens, max_new \in AppendMaxNews : AppendInput(r, n, max_new)
  <2>1. PICK r \in Ids, n \in AppendLens, max_new \in AppendMaxNews : AppendInput(r, n, max_new)
    BY <1>3
  <2> DEFINE q == reqs[r]
             p == AppendInputTokens(q, n)
             b == ResetGenerationOptions(p, max_new)
  <2>2. n \in Nat /\ max_new \in Nat \cup {-1}
    BY CallerAssumption
  <2>3. r \in DOMAIN reqs /\ reqs' = [reqs EXCEPT ![r] = IF max_new < 0 THEN p ELSE b]
    BY <2>1 DEF AppendInput, Known
  <2>4. q \in RequestType /\ q.input \in Nat
    BY <2>3, StateFacts, CallFacts, RequestFields
  <2>5. p \in RequestType /\ p.cached = q.cached /\ q.input <= p.input /\ p.input \in Nat
    <3> HIDE DEF q
    <3>1. p \in RequestType /\ p.cached = q.cached /\ p.input = q.input + n
      BY <2>2, <2>4, InputFields
    <3>. QED BY <2>2, <2>4, <3>1
  <2>6. max_new >= 0 => b.cached = q.cached /\ q.input <= b.input
    <3> HIDE DEF p, q
    <3>. QED BY <2>2, <2>5, OptionsFields
  <2> DEFINE z == IF max_new < 0 THEN p ELSE b
  <2>7. z.cached = q.cached /\ q.input <= z.input
    BY <2>2, <2>5, <2>6
  <2>8. reqs' = [reqs EXCEPT ![r] = z]
    BY <2>3
  <2> HIDE DEF z, p, b
  <2>. QED BY <1>1, <2>3, <2>7, <2>8, TokensOfOne
<1>4. CASE \E r \in Ids : Release(r) \/ GenerateNothing(r)
  <2>1. PICK r \in Ids : Release(r) \/ GenerateNothing(r)
    BY <1>4
  <2>2. r \in DOMAIN reqs
    BY <2>1 DEF Release, GenerateNothing, Known
  <2>3. \E p : /\ reqs' = [reqs EXCEPT ![r] = p]
               /\ p = FinishRequest(reqs[r]) \/ p = FinishRequest([reqs[r] EXCEPT !.table = NoTable])
    BY <2>1 DEF Release, GenerateNothing
  <2>4. PICK p : /\ reqs' = [reqs EXCEPT ![r] = p]
                 /\ p = FinishRequest(reqs[r]) \/ p = FinishRequest([reqs[r] EXCEPT !.table = NoTable])
    BY <2>3
  <2>5. reqs[r] \in RequestType /\ reqs[r].input \in Nat
    BY <2>2, StateFacts, CallFacts, RequestFields
  <2>6. p.cached = reqs[r].cached /\ p.input = reqs[r].input
    BY <2>4, <2>5, FinishFields
  <2>7. reqs[r].input <= p.input
    BY <2>5, <2>6
  <2>. QED BY <1>1, <2>2, <2>4, <2>6, <2>7, TokensOfOne
<1>5. CASE UNCHANGED reqs
  BY <1>1, <1>5, TokensUnchanged
<1>. QED
  BY <1>2, <1>3, <1>4, <1>5
     DEF CallerStep, Prefill, DecodeOneStep, GenerateUntilFinished, AlreadyFinished, CallRefused,
         DecodeBatch

(* Nor does the engine, which samples what it has fed.                     *)
LEMMA EngineLeavesTokens ==
  ASSUME EngineInv, EngineInv', HasToken, EngineStep
  PROVE  HasToken'
<1>1. CASE ReserveSkips \/ ReserveRefused \/ ReserveTooLong \/ ReserveExhausted \/ ReserveDone
           \/ Forward \/ SampleBatch
  <2>1. UNCHANGED reqs /\ call.stage \notin {"sample", "append"}
    BY <1>1 DEF ReserveSkips, ReserveRefused, ReserveTooLong, ReserveExhausted, ReserveDone,
                Forward, SampleBatch, Reserving, Forwarding, Forwarded
  <2>. QED BY <2>1, TokensUnchanged
<1>2. CASE Reserve
  <2> DEFINE r == Wanted.id
             p == [reqs[r] EXCEPT !.table = TableFor(bt, reqs[r])]
  <2>1. /\ r \in DOMAIN reqs /\ reqs[r] \in RequestType
        /\ p.input = reqs[r].input /\ p.cached = reqs[r].cached
    BY <1>2, ReserveTakes, CallFacts
  <2>2. reqs' = [reqs EXCEPT ![r] = p] /\ call.stage = "reserve"
    BY <1>2 DEF Reserve, Reserving
  <2>3. reqs[r].input \in Nat
    BY <2>1, FieldsOf
  <2>4. reqs[r].input <= p.input /\ call.stage \notin {"sample", "append"}
    BY <2>1, <2>2, <2>3
  <2> HIDE DEF p, r
  <2>. QED BY <2>1, <2>2, <2>4, TokensOfOne
<1>3. CASE Mark
  <2>1. SUFFICES ASSUME NoRepeats, SampleSafe, NEW s \in DOMAIN reqs', s # Row'.id
                 PROVE  ExtendLen(reqs'[s]) > 0
    <3>1. call'.stage \in {"sample", "append"}
      BY <1>3, CallFacts DEF Mark, CallType
    <3>. QED BY <3>1 DEF HasToken
  <2>2. /\ Row' = Row /\ Row.id \in DOMAIN reqs /\ call.stage \notin {"sample", "append"}
        /\ reqs' = [reqs EXCEPT ![Row.id] = MarkForwardDone(@, Row.len)]
    <3>1. call'.rows = call.rows /\ call'.at = call.at /\ call'.op = call.op
      BY <1>3, CallFacts DEF Mark, CallType
    <3>2. MayMark
      BY <1>3 DEF Mark
    <3>. QED BY <1>3, <3>1, <3>2, RowFacts DEF Mark, Row, Batched, MayMark, Forwarded
  <2>3. s \in DOMAIN reqs /\ reqs'[s] = reqs[s]
    BY <2>1, <2>2
  <2>. QED BY <2>1, <2>2, <2>3 DEF HasToken
<1>4. CASE Sample
  <2>1. SUFFICES ASSUME NoRepeats, SampleSafe, NEW s \in DOMAIN reqs'
                 PROVE  \/ ExtendLen(reqs'[s]) > 0
                        \/ call'.stage \in {"sample", "append"} /\ s = Row'.id
    BY DEF HasToken
  <2>2. call.stage = "sample" /\ UNCHANGED reqs
    BY <1>4 DEF Sample
  <2>3. CASE call.op = "prefill" /\ ExtendLen(reqs[Row.id]) > 0
    BY <2>1, <2>2, <2>3 DEF HasToken
  <2>4. CASE ~ (call.op = "prefill" /\ ExtendLen(reqs[Row.id]) > 0)
    <3>1. /\ call'.rows = call.rows /\ call'.at = call.at /\ call'.op = call.op
          /\ call'.stage = "append"
      BY <1>4, <2>4, CallFacts DEF Sample, CallType
    <3>2. Row' = Row
      BY <3>1 DEF Row, Batched
    <3>. QED BY <2>1, <2>2, <3>1, <3>2 DEF HasToken
  <2>. QED BY <2>3, <2>4
<1>5. CASE AppendRefused
  <2>1. SUFFICES ASSUME NoRepeats PROVE FALSE
    BY DEF HasToken
  <2>. QED BY <1>5, <2>1, CallFacts DEF AppendRefused, MayAppend, RowMarked
<1>6. CASE \E is_eos \in BOOLEAN : AppendSampled(is_eos)
  <2>1. PICK is_eos \in BOOLEAN : AppendSampled(is_eos)
    BY <1>6
  <2>2. SUFFICES ASSUME NoRepeats, SampleSafe, NEW s \in DOMAIN reqs'
                 PROVE  reqs'[s].input - reqs'[s].cached > 0
    BY DEF HasToken, ExtendLen, DeviceLen
  <2> DEFINE q == reqs[Row.id]
             p == AppendToken(q, is_eos)
  <2>3. call.stage = "append" /\ reqs' = [reqs EXCEPT ![Row.id] = p]
    BY <2>1 DEF AppendSampled
  <2>4. Row.id \in DOMAIN reqs /\ q \in RequestType /\ Counts(q)
    BY <2>3, RowFacts
  <2>5. p.input = q.input + 1 /\ p.cached = q.cached
    <3> HIDE DEF q
    <3>. QED BY <2>4, AppendedFields
  <2>6. q.input \in Nat /\ q.cached \in Nat /\ q.cached <= q.input
    BY <2>4, FieldsOf DEF Counts
  <2>7. CASE s = Row.id
    <3>1. reqs'[s] = p
      BY <2>3, <2>4, <2>7
    <3>. QED BY <2>5, <2>6, <3>1
  <2>8. CASE s # Row.id
    <3>1. s \in DOMAIN reqs /\ reqs'[s] = reqs[s]
      BY <2>2, <2>3, <2>8
    <3>. QED BY <2>2, <2>8, <3>1 DEF HasToken, ExtendLen, DeviceLen
  <2>. QED BY <2>7, <2>8
<1>. QED BY <1>1, <1>2, <1>3, <1>4, <1>5, <1>6 DEF EngineStep

(* The engine keeps a token to feed for every request.                     *)
THEOREM TokenLeft == Spec => []HasToken
<1>1. Init => HasToken
  BY DEF Init, HasToken
<1>2. ASSUME EngineInv, EngineInv', HasToken, [Next]_vars PROVE HasToken'
  <2>1. CASE FaultInForward
    BY <1>2, <2>1, TokensUnchanged DEF FaultInForward, Forwarding
  <2>2. CASE FaultInSample
    <3>1. SUFFICES ASSUME SampleSafe PROVE call.stage \notin {"sample", "append"}
      BY <1>2, <2>2, TokensUnchanged DEF FaultInSample, HasToken
    <3>. QED BY <2>2, <3>1 DEF FaultInSample, SampleSafe, Forwarded
  <2>3. CASE UNCHANGED vars
    BY <1>2, <2>3 DEF vars, HasToken, Row, Batched
  <2>. QED BY <1>2, <2>1, <2>2, <2>3, CallerLeavesTokens, EngineLeavesTokens DEF Next
<1>. QED BY SpecInv, <1>1, <1>2, PTL DEF Spec

(* Between calls an unfinished request has a token to feed, when callers   *)
(* list no request twice in a batch and sampling does not throw.           *)
THEOREM RequestsResumable == ASSUME NoRepeats, SampleSafe PROVE Spec => []Resumable
<1>1. HasToken => Resumable
  BY DEF HasToken, Resumable, Idle
<1>. QED BY TokenLeft, <1>1, PTL

-----------------------------------------------------------------------------
(* The slots of the pools hold the tokens of their owners.                 *)

(* Two requests share no slot: it belongs to one token of one of them.     *)
LEMMA SlotOwned ==
  ASSUME EngineInv, NEW r \in DOMAIN reqs, NEW s \in DOMAIN reqs, NEW i \in Nat, NEW j \in Nat,
         reqs[r].table # NoTable, reqs[s].table # NoTable,
         IsMapped(bt, reqs[r].table, i, PageSize), IsMapped(bt, reqs[s].table, j, PageSize)
  PROVE  /\ Slot(r, i) \in Slots
         /\ Slot(r, i) = Slot(s, j) => r = s /\ i = j
<1> DEFINE t == reqs[r].table
           u == reqs[s].table
<1>1. t \in LiveTables(bt) /\ u \in LiveTables(bt) /\ WellFormed(bt) /\ PageSize \in Nat \ {0}
  BY CallFacts, StateFacts, UsedIsLive, Bounds
<1>2. t = u => r = s
  BY CallFacts DEF StateInv, TableOwners
<1>3. IsMapped(bt, t, i, PageSize) /\ IsMapped(bt, u, j, PageSize)
  OBVIOUS
<1>4. Slot(r, i) = PhysicalTokenIndex(bt, t, i, PageSize)
      /\ Slot(s, j) = PhysicalTokenIndex(bt, u, j, PageSize)
  BY DEF Slot
<1> HIDE DEF t, u
<1>5. /\ PhysicalTokenIndex(bt, t, i, PageSize) \in 0 .. (NumBlocks * PageSize - 1)
      /\ PhysicalTokenIndex(bt, t, i, PageSize) = PhysicalTokenIndex(bt, u, j, PageSize)
           => t = u /\ i = j
  BY <1>1, <1>3, PhysicalInjective
<1>. QED BY <1>2, <1>4, <1>5 DEF Slots

(* Where a row's write lands: a slot of that row's request.                *)
LEMMA WriteFacts ==
  ASSUME EngineInv, NEW w \in RowTokens
  PROVE  LET row == call.rows[w[1]]
             pos == row.past + w[2]
         IN  /\ w[1] \in DOMAIN call.rows /\ row.id \in DOMAIN reqs /\ pos \in Nat
             /\ reqs[row.id].table # NoTable
             /\ IsMapped(bt, reqs[row.id].table, pos, PageSize)
             /\ SlotOfWrite(w) = Slot(row.id, pos) /\ pos >= row.past
<1> DEFINE row == call.rows[w[1]]
           pos == row.past + w[2]
<1>1. SlotOfWrite(w) = Slot(row.id, pos)
  BY DEF SlotOfWrite
<1>2. w \in (DOMAIN call.rows) \X Nat /\ w[2] < row.len
  BY TokensMember, CallFacts
<1>3. w[1] \in DOMAIN call.rows /\ w[2] \in Nat
  BY <1>2, CallFacts, CallFields
<1>4. row.past \in Nat /\ row.len \in Nat \ {0}
  BY <1>3, CallFacts, CallFields
<1>5. pos \in 0 .. (row.past + row.len - 1) /\ pos \in Nat /\ pos >= row.past
  <2> DEFINE past == row.past
             len == row.len
             o == w[2]
  <2>1. past \in Nat /\ len \in Nat /\ o \in Nat /\ o < len
    BY <1>2, <1>3, <1>4
  <2> HIDE DEF past, len, o
  <2>2. past + o \in 0 .. (past + len - 1) /\ past + o \in Nat /\ past + o >= past
    BY <2>1
  <2>. QED BY <2>2 DEF past, len, o
<1>6. row.id \in DOMAIN reqs /\ reqs[row.id].table # NoTable
  BY <1>3, CallFacts DEF RowsMapped, Known
<1>7. IsMapped(bt, reqs[row.id].table, pos, PageSize)
  <2> HIDE DEF pos
  <2>. QED BY <1>3, <1>5, RowIsMapped
<1>. QED BY <1>1, <1>3, <1>5, <1>6, <1>7

(* What a layer writes to the slot of a token is that token.               *)
LEMMA WritesOwn ==
  ASSUME EngineInv, NEW T \in SUBSET RowTokens, NEW r \in DOMAIN reqs, NEW i \in Nat,
         reqs[r].table # NoTable, IsMapped(bt, reqs[r].table, i, PageSize),
         WritesTo(Slot(r, i), T) # {}
  PROVE  Written(Slot(r, i), T) = Tag(r, i)
<1> DEFINE s == Slot(r, i)
           w == LastWrite(s, T)
           row == call.rows[w[1]]
           pos == row.past + w[2]
<1>1. w \in RowTokens /\ SlotOfWrite(w) = s
  <2>1. w \in WritesTo(s, T)
    BY LastExists, CallFacts
  <2> HIDE DEF w
  <2>. QED BY <2>1 DEF WritesTo
<1> HIDE DEF s, w
<1>2. /\ row.id \in DOMAIN reqs /\ pos \in Nat /\ reqs[row.id].table # NoTable
      /\ IsMapped(bt, reqs[row.id].table, pos, PageSize) /\ Slot(row.id, pos) = s
  BY <1>1, WriteFacts
<1>3. Written(s, T) = Tag(row.id, pos)
  BY DEF Written, w
<1> DEFINE b == row.id
<1> HIDE DEF row, pos
<1>4. b = r /\ pos = i
  <2>1. Slot(r, i) = Slot(b, pos)
    BY <1>2 DEF s
  <2> HIDE DEF b
  <2>2. b \in DOMAIN reqs /\ reqs[b].table # NoTable /\ IsMapped(bt, reqs[b].table, pos, PageSize)
    BY <1>2 DEF b
  <2>. QED BY <1>2, <2>1, <2>2, SlotOwned
<1>. QED BY <1>3, <1>4 DEF s

(* A token that is in a layer's pool stays there, whatever is written.     *)
LEMMA TokenStays ==
  ASSUME EngineInv, NEW l \in Layers, NEW T \in SUBSET RowTokens,
         NEW m \in Layers, NEW r \in DOMAIN reqs, NEW i \in Nat,
         reqs[r].table # NoTable, IsMapped(bt, reqs[r].table, i, PageSize),
         kv[m][Slot(r, i)] = Tag(r, i) \/ (m = l /\ WritesTo(Slot(r, i), T) # {})
  PROVE  UpdateLayer(l, T)[m][Slot(r, i)] = Tag(r, i)
<1>1. Slot(r, i) \in Slots
  BY SlotOwned
<1>2. kv \in [Layers -> [Slots -> (Ids \cup {0}) \X Nat]]
  BY CallFacts, StateFacts
<1>3. WritesTo(Slot(r, i), T) # {} => Written(Slot(r, i), T) = Tag(r, i)
  BY WritesOwn
<1> DEFINE s == Slot(r, i)
           e == [x \in Slots |-> IF WritesTo(x, T) = {} THEN kv[l][x] ELSE Written(x, T)]
<1>4. UpdateLayer(l, T) = [kv EXCEPT ![l] = e]
  BY DEF UpdateLayer
<1>5. e[s] = IF WritesTo(s, T) = {} THEN kv[l][s] ELSE Written(s, T)
  BY <1>1
<1> HIDE DEF e, s
<1>6. UpdateLayer(l, T)[m] = IF m = l THEN e ELSE kv[m]
  BY <1>2, <1>4
<1>. QED BY <1>3, <1>5, <1>6 DEF s

(* The tokens of a row are written by the layer that runs.                 *)
LEMMA RowWrites ==
  ASSUME EngineInv, NEW k \in DOMAIN call.rows,
         NEW pos \in call.rows[k].past .. (call.rows[k].past + call.rows[k].len - 1)
  PROVE  WritesTo(Slot(call.rows[k].id, pos), RowTokens) # {}
<1> DEFINE row == call.rows[k]
           w == <<k, pos - row.past>>
<1>1. row.past \in Nat /\ row.len \in Nat \ {0}
  BY CallFacts, CallFields
<1>2. pos - row.past \in Nat /\ pos - row.past < row.len /\ row.past + (pos - row.past) = pos
  BY SMTT(30), <1>1
<1>3. w \in (DOMAIN call.rows) \X Nat /\ w[1] = k /\ w[2] = pos - row.past
  BY <1>1, <1>2
<1>4. w \in RowTokens
  <2> HIDE DEF w
  <2>. QED BY <1>2, <1>3, TokensMember, CallFacts
<1>5. Slot(call.rows[w[1]].id, call.rows[w[1]].past + w[2]) = Slot(row.id, pos)
  BY <1>2, <1>3
<1> HIDE DEF w
<1>. QED BY <1>4, <1>5 DEF WritesTo, SlotOfWrite

-----------------------------------------------------------------------------
(* The invariant of the pools.                                             *)

(* No layer has run in these stages.                                       *)
LEMMA NothingRun ==
  ASSUME call'.stage \notin {"forward", "mark", "append"}
  PROVE  RowsWritten'
BY DEF RowsWritten, LayersDone

(* Requests that keep their tables and counts, in tables that only grow.   *)
LEMMA CacheFrame ==
  ASSUME EngineInv, EngineInv', CacheHolds, UNCHANGED kv, KeepsTables(bt, bt'),
         \A r \in DOMAIN reqs' : reqs'[r].table # NoTable =>
           \/ reqs'[r].cached = 0
           \/ r \in DOMAIN reqs /\ reqs'[r].table = reqs[r].table /\ reqs'[r].cached = reqs[r].cached
  PROVE  CacheHolds'
<1>1. SUFFICES ASSUME NEW r \in DOMAIN reqs', reqs'[r].table # NoTable, NEW l \in Layers,
                      NEW i \in 0 .. (reqs'[r].cached - 1)
               PROVE  /\ IsMapped(bt', reqs'[r].table, i, PageSize)
                      /\ kv'[l][PhysicalTokenIndex(bt', reqs'[r].table, i, PageSize)] = Tag(r, i)
  BY DEF CacheHolds, Holds, Slot
<1>2. reqs'[r].cached # 0
  BY <1>1
<1>3. r \in DOMAIN reqs /\ reqs'[r].table = reqs[r].table /\ reqs'[r].cached = reqs[r].cached
  BY <1>1, <1>2
<1> DEFINE t == reqs[r].table
<1>4. /\ IsMapped(bt, t, i, PageSize)
      /\ kv[l][PhysicalTokenIndex(bt, t, i, PageSize)] = Tag(r, i)
  BY <1>1, <1>3 DEF CacheHolds, Holds, Slot
<1>5. t \in LiveTables(bt) /\ t \in LiveTables(bt')
  <2>1. IsTableUsed(bt', reqs'[r].table)
    BY <1>1 DEF EngineInv, StateInv, TableOwners
  <2>2. IsTableUsed(bt, t)
    BY <1>1, <1>3, CallFacts, StateFacts
  <2>. QED BY <1>3, <2>1, <2>2, UsedIsLive
<1>6. WellFormed(bt) /\ WellFormed(bt') /\ PageSize \in Nat \ {0} /\ i \in Nat
  BY <1>1, Bounds DEF EngineInv, StateInv
<1> HIDE DEF t
<1>7. /\ IsMapped(bt', t, i, PageSize)
      /\ PhysicalTokenIndex(bt', t, i, PageSize) = PhysicalTokenIndex(bt, t, i, PageSize)
  BY <1>4, <1>5, <1>6, SlotKept
<1>. QED BY <1>3, <1>4, <1>7 DEF t

(* Tables that stay where they are.                                        *)
LEMMA SameTablesKept ==
  ASSUME NEW m, NEW w,
         \A v \in LiveTables(m) \cap LiveTables(w) : w.tables[v] = m.tables[v]
  PROVE  KeepsTables(m, w)
BY DEF KeepsTables

(* A call that is over, or has not run the model yet, and leaves the       *)
(* requests, tables and pools alone.                                       *)
LEMMA CacheUntouched ==
  ASSUME EngineInv, EngineInv', CacheHolds, UNCHANGED <<reqs, bt, kv>>
  PROVE  CacheHolds'
BY DEF CacheHolds, Holds, Slot

(* A call that is over or begins has run no layer.                         *)
LEMMA StagesOfCallers ==
  /\ \A outcome : Return(outcome) => call'.stage = "idle"
  /\ \A op, until_finished, todo : Start(op, until_finished, todo) => call'.stage = "reserve"
<1>1. \A outcome : Return(outcome) => call'.stage = "idle"
  BY DEF Return, NoCall
<1>2. ASSUME NEW op, NEW until_finished, NEW todo, Start(op, until_finished, todo)
      PROVE  call'.stage = "reserve"
  <2>1. call' = [op |-> op, until_finished |-> until_finished, stage |-> "reserve",
                 todo |-> todo, rows |-> << >>, at |-> 0]
    BY <1>2 DEF Start, NoCall
  <2>. QED BY <2>1
<1>. QED BY <1>1, <1>2

(* No step of a caller moves a cached token.                               *)
LEMMA CallerKeepsCache ==
  ASSUME EngineInv, EngineInv', CacheHolds, CallerStep
  PROVE  CacheHolds' /\ RowsWritten'
<1>1. call'.stage \notin {"forward", "mark", "append"}
  <2>1. \/ \E outcome : Return(outcome)
        \/ \E op, until_finished, todo : Start(op, until_finished, todo)
    BY DEF CallerStep, AddRequest, AppendInput, Release, Prefill, DecodeOneStep,
           GenerateUntilFinished, GenerateNothing, AlreadyFinished, CallRefused, DecodeBatch
  <2>. QED BY <2>1, StagesOfCallers
<1>2. CASE \E n \in PromptLens, max_new \in MaxNews : AddRequest(n, max_new)
  <2>1. PICK n \in PromptLens, max_new \in MaxNews : AddRequest(n, max_new)
    BY <1>2
  <2> DEFINE q == NewRequest(n, max_new)
  <2>2. q.cached = 0 /\ reqs' = Append(reqs, q) /\ UNCHANGED <<bt, kv>>
    BY <2>1 DEF AddRequest, NewRequest
  <2>3. q \in RequestType
    <3>1. n \in Nat /\ max_new \in Nat
      BY CallerAssumption
    <3>. QED BY <3>1 DEF NewRequest, RequestType, Statuses, NoTable
  <2> HIDE DEF q
  <2>4. \A s \in DOMAIN reqs' : \/ s \in DOMAIN reqs /\ reqs'[s] = reqs[s]
                                \/ reqs'[s] = q
    BY <2>2, <2>3, StateFacts, CallFacts, AppendElements
  <2>5. KeepsTables(bt, bt')
    BY <2>2, SameTablesKept
  <2>6. CacheHolds'
    BY <2>2, <2>4, <2>5, CacheFrame
  <2>. QED BY <1>1, <2>6, NothingRun
<1>3. CASE \E r \in Ids, n \in AppendLens, max_new \in AppendMaxNews : AppendInput(r, n, max_new)
  <2>1. PICK r \in Ids, n \in AppendLens, max_new \in AppendMaxNews : AppendInput(r, n, max_new)
    BY <1>3
  <2> DEFINE q == reqs[r]
             p == AppendInputTokens(q, n)
             b == ResetGenerationOptions(p, max_new)
             z == IF max_new < 0 THEN p ELSE b
  <2>2. n \in Nat /\ max_new \in Nat \cup {-1}
    BY CallerAssumption
  <2>3. r \in DOMAIN reqs /\ reqs' = [reqs EXCEPT ![r] = z] /\ UNCHANGED <<bt, kv>>
    BY <2>1 DEF AppendInput, Known
  <2>4. q \in RequestType
    BY <2>3, StateFacts, CallFacts, RequestFields
  <2>5. p \in RequestType /\ p.cached = q.cached /\ p.table = q.table
    <3> HIDE DEF q
    <3>. QED BY <2>2, <2>4, InputFields
  <2>6. max_new >= 0 => b.cached = q.cached /\ b.table = q.table
    <3> HIDE DEF p, q
    <3>. QED BY <2>2, <2>5, OptionsFields
  <2>7. z.cached = q.cached /\ z.table = q.table
    BY <2>2, <2>5, <2>6
  <2> HIDE DEF z, p, b
  <2>8. \A s \in DOMAIN reqs' : s \in DOMAIN reqs /\ reqs'[s].table = reqs[s].table
                                /\ reqs'[s].cached = reqs[s].cached
    BY <2>3, <2>7
  <2>9. KeepsTables(bt, bt')
    BY <2>3, SameTablesKept
  <2>10. CacheHolds'
    BY <2>3, <2>8, <2>9, CacheFrame
  <2>. QED BY <1>1, <2>10, NothingRun
<1>4. CASE \E r \in Ids : Release(r)
  <2>1. PICK r \in Ids : Release(r)
    BY <1>4
  <2> DEFINE q == reqs[r]
             p == FinishRequest([q EXCEPT !.table = NoTable])
  <2>2. /\ r \in DOMAIN reqs /\ bt' = WithoutTable(bt, q) /\ reqs' = [reqs EXCEPT ![r] = p]
        /\ UNCHANGED kv
    BY <2>1 DEF Release, Known
  <2>3. q \in RequestType /\ (q.table # NoTable => IsTableUsed(bt, q.table)) /\ WellFormed(bt)
    BY <2>2, StateFacts, CallFacts, RequestFields
  <2>4. p.table = NoTable
    BY <2>3 DEF FinishRequest, RequestType
  <2>5. KeepsTables(bt, bt')
    <3> HIDE DEF q
    <3>1. /\ LiveTables(bt') = LiveTables(bt) \ {q.table}
          /\ \A v \in LiveTables(bt) \ {q.table} : bt'.tables[v] = bt.tables[v]
      BY <2>2, <2>3, GivesBack
    <3>. QED BY <3>1, SameTablesKept
  <2> HIDE DEF p
  <2>6. \A s \in DOMAIN reqs' : reqs'[s].table # NoTable =>
          s \in DOMAIN reqs /\ reqs'[s].table = reqs[s].table /\ reqs'[s].cached = reqs[s].cached
    BY <2>2, <2>4
  <2>7. CacheHolds'
    BY <2>2, <2>5, <2>6, CacheFrame
  <2>. QED BY <1>1, <2>7, NothingRun
<1>5. CASE \E r \in Ids : GenerateNothing(r)
  <2>1. PICK r \in Ids : GenerateNothing(r)
    BY <1>5
  <2>2. /\ r \in DOMAIN reqs /\ reqs' = [reqs EXCEPT ![r] = FinishRequest(@)]
        /\ UNCHANGED <<bt, kv>>
    BY <2>1 DEF GenerateNothing, Known
  <2>3. reqs[r] \in RequestType
    BY <2>2, StateFacts, CallFacts, RequestFields
  <2>4. FinishRequest(reqs[r]).cached = reqs[r].cached /\ FinishRequest(reqs[r]).table = reqs[r].table
    BY <2>3 DEF FinishRequest, RequestType
  <2>5. \A s \in DOMAIN reqs' : s \in DOMAIN reqs /\ reqs'[s].table = reqs[s].table
                                /\ reqs'[s].cached = reqs[s].cached
    BY <2>2, <2>4
  <2>6. KeepsTables(bt, bt')
    BY <2>2, SameTablesKept
  <2>7. CacheHolds'
    BY <2>2, <2>5, <2>6, CacheFrame
  <2>. QED BY <1>1, <2>7, NothingRun
<1>6. CASE UNCHANGED <<reqs, bt, kv>>
  BY <1>1, <1>6, CacheUntouched, NothingRun
<1>. QED
  BY <1>2, <1>3, <1>4, <1>5, <1>6
     DEF CallerStep, Prefill, DecodeOneStep, GenerateUntilFinished, AlreadyFinished, CallRefused,
         DecodeBatch

(* The rows of a batch that are still pending stay written.                *)
LEMMA RowsStay ==
  ASSUME EngineInv, RowsWritten, UNCHANGED <<bt, kv>>, call'.rows = call.rows,
         Pending' \subseteq Pending, LayersDone' \subseteq LayersDone,
         \A r \in DOMAIN reqs : reqs'[r].table = reqs[r].table
  PROVE  RowsWritten'
<1>1. SUFFICES ASSUME NEW k \in Pending', NEW l \in LayersDone',
                      NEW pos \in call.rows[k].past .. (call.rows[k].past + call.rows[k].len - 1)
               PROVE  kv[l][PhysicalTokenIndex(bt, reqs'[call.rows[k].id].table, pos, PageSize)]
                        = Tag(call.rows[k].id, pos)
  BY DEF RowsWritten, Slot
<1>2. k \in Pending /\ l \in LayersDone
  BY <1>1
<1>3. call.rows[k].id \in DOMAIN reqs
  BY <1>2, CallFacts DEF Pending, RowsMapped, Known
<1>4. kv[l][PhysicalTokenIndex(bt, reqs[call.rows[k].id].table, pos, PageSize)]
        = Tag(call.rows[k].id, pos)
  BY <1>2 DEF RowsWritten, Slot
<1>. QED BY <1>3, <1>4

(* What the layers of a call have written when its rows are marked.        *)
LEMMA AllLayersDone ==
  ASSUME EngineInv, MayMark
  PROVE  LayersDone = Layers
<1>1. CASE Batched
  BY <1>1 DEF MayMark, LayersDone
<1>2. CASE ~ Batched
  BY <1>2 DEF MayMark, Forwarded, LayersDone, Layers
<1>. QED BY <1>1, <1>2

(* The steps that reserve blocks.                                          *)
LEMMA ReservingKeepsCache ==
  ASSUME EngineInv, EngineInv', NoRepeats, NoReuse, CacheHolds,
         ReserveSkips \/ Reserve \/ ReserveExhausted \/ ReserveDone
  PROVE  CacheHolds' /\ RowsWritten'
<1>1. CASE ReserveSkips
  <2>1. call'.stage = "reserve" /\ UNCHANGED <<reqs, bt, kv>>
    BY <1>1, CallFacts DEF ReserveSkips, Reserving, CallType
  <2>. QED BY <2>1, CacheUntouched, NothingRun
<1>2. CASE Reserve
  <2> DEFINE r == Wanted.id
             q == reqs[r]
             t == TableFor(bt, q)
             p == [q EXCEPT !.table = t]
  <2>1. /\ r \in DOMAIN reqs /\ p.cached = q.cached /\ p.table = t
        /\ DOMAIN reqs' = DOMAIN reqs /\ reqs'[r] = p
        /\ \A s \in DOMAIN reqs \ {r} : reqs'[s] = reqs[s]
        /\ q.table # NoTable => t = q.table
        /\ KeepsTables(bt, bt')
    BY <1>2, ReserveTakes, CallFacts
  <2>2. q.table # NoTable \/ q.cached = 0
    <3>1. ~ IsFinished(q)
      BY <1>2, AcceptedFacts, CallFacts DEF Reserve
    <3>2. Counts(q)
      BY <2>1, CallFacts, StateFacts
    <3>. QED BY <3>1, <3>2 DEF Counts
  <2>3. call'.stage = "reserve" /\ UNCHANGED kv
    BY <1>2, ReservedCall, CallFacts DEF Reserve
  <2> HIDE DEF p, t, q, r
  <2>4. ASSUME NEW s \in DOMAIN reqs', reqs'[s].table # NoTable
        PROVE  \/ reqs'[s].cached = 0
               \/ s \in DOMAIN reqs /\ reqs'[s].table = reqs[s].table /\ reqs'[s].cached = reqs[s].cached
    <3>1. CASE s = r
      BY <2>1, <2>2, <3>1 DEF q
    <3>2. CASE s # r
      BY <2>1, <2>4, <3>2
    <3>. QED BY <3>1, <3>2
  <2>5. CacheHolds'
    BY <2>1, <2>3, <2>4, CacheFrame
  <2>. QED BY <2>3, <2>5, NothingRun
<1>3. CASE ReserveExhausted
  <2>1. /\ bt' = RolledBack(bt, reqs[Wanted.id]) /\ call' = NoCall /\ UNCHANGED <<reqs, kv>>
        /\ Reserving /\ Accepted
    BY <1>3 DEF ReserveExhausted, Return
  <2>2. Wanted.id \in DOMAIN reqs
    BY <2>1, AcceptedFacts, CallFacts
  <2> DEFINE q == reqs[Wanted.id]
  <2>3. q \in RequestType /\ (q.table # NoTable => IsTableUsed(bt, q.table)) /\ WellFormed(bt)
    BY <2>2, StateFacts, CallFacts, RequestFields
  <2>4. KeepsTables(bt, bt')
    <3> HIDE DEF q
    <3>1. \A v \in LiveTables(bt) : bt'.tables[v] = bt.tables[v]
      BY <2>1, <2>3, RollsBack DEF q
    <3>. QED BY <3>1, SameTablesKept
  <2>5. CacheHolds'
    <3>1. \A s \in DOMAIN reqs' : s \in DOMAIN reqs /\ reqs'[s].table = reqs[s].table
                                  /\ reqs'[s].cached = reqs[s].cached
      BY <2>1
    <3>. QED BY <2>1, <2>4, <3>1, CacheFrame
  <2>6. call'.stage = "idle"
    BY <2>1 DEF NoCall
  <2>. QED BY <2>5, <2>6, NothingRun
<1>4. CASE ReserveDone
  <2>1. UNCHANGED <<reqs, bt, kv>>
    BY <1>4 DEF ReserveDone
  <2>2. CASE call.rows = << >>
    <3>1. call'.stage = "idle"
      BY <1>4, <2>2 DEF ReserveDone, Return, NoCall
    <3>. QED BY <2>1, <3>1, CacheUntouched, NothingRun
  <2>3. CASE call.rows # << >>
    <3>1. call'.stage = "forward" /\ call'.at = 0
      BY <1>4, <2>3, CallFacts DEF ReserveDone, CallType
    <3>2. LayersDone' = 1 .. 0
      BY <3>1 DEF LayersDone
    <3>3. RowsWritten'
      BY <3>2 DEF RowsWritten
    <3>. QED BY <2>1, <3>3, CacheUntouched
  <2>. QED BY <2>2, <2>3
<1>. QED BY <1>1, <1>2, <1>3, <1>4

(* Whatever a layer writes of its rows, every cached token stays.          *)
LEMMA WritingKeepsCache ==
  ASSUME EngineInv, CacheHolds, NEW l \in Layers, NEW T \in SUBSET RowTokens,
         NEW r \in DOMAIN reqs, reqs[r].table # NoTable, NEW m \in Layers,
         NEW i \in 0 .. (reqs[r].cached - 1)
  PROVE  /\ IsMapped(bt, reqs[r].table, i, PageSize)
         /\ UpdateLayer(l, T)[m][Slot(r, i)] = Tag(r, i)
<1>1. IsMapped(bt, reqs[r].table, i, PageSize) /\ kv[m][Slot(r, i)] = Tag(r, i)
  BY DEF CacheHolds, Holds
<1>2. i \in Nat
  OBVIOUS
<1>. QED BY <1>1, <1>2, TokenStays

(* Also when a copy fails: the token it was for is not yet counted.        *)
LEMMA FailingKeepsCache ==
  ASSUME EngineInv, NoRepeats, CacheHolds, Forwarding,
         NEW l \in Layers, NEW w \in RowTokens, NEW torn \in BOOLEAN,
         NEW r \in DOMAIN reqs, reqs[r].table # NoTable, NEW m \in Layers,
         NEW i \in 0 .. (reqs[r].cached - 1)
  PROVE  UpdateFails(l, w, torn)[m][Slot(r, i)] = Tag(r, i)
<1> DEFINE row == call.rows[w[1]]
           pos == row.past + w[2]
           T == {v \in RowTokens : Before(v, w)}
           done == UpdateLayer(l, T)
<1>1. /\ IsMapped(bt, reqs[r].table, i, PageSize) /\ done[m][Slot(r, i)] = Tag(r, i)
  BY WritingKeepsCache
<1>2. done \in [Layers -> [Slots -> (Ids \cup {0}) \X Nat]]
  BY UpdateType, StateFacts, CallFacts
<1>3. UpdateFails(l, w, torn) = IF torn THEN [done EXCEPT ![l][SlotOfWrite(w)] = NoTag] ELSE done
  BY DEF UpdateFails
<1>4. /\ w[1] \in DOMAIN call.rows /\ row.id \in DOMAIN reqs /\ pos \in Nat
      /\ reqs[row.id].table # NoTable /\ IsMapped(bt, reqs[row.id].table, pos, PageSize)
      /\ SlotOfWrite(w) = Slot(row.id, pos) /\ pos >= row.past
  BY WriteFacts
<1>5. row.past = reqs[row.id].cached
  <2>1. w[1] \in Pending
    BY <1>4 DEF Pending, Forwarding
  <2>. QED BY <2>1, CallFacts DEF RowsUnmarked, Unmarked
<1>6. Slot(r, i) # Slot(row.id, pos)
  <2> DEFINE b == row.id
             p == pos
  <2>1. b \in DOMAIN reqs /\ p \in Nat /\ p >= reqs[b].cached
    BY <1>4, <1>5
  <2>2. reqs[b].table # NoTable /\ IsMapped(bt, reqs[b].table, p, PageSize)
    BY <1>4
  <2> HIDE DEF b, p
  <2>3. reqs[r].cached \in Nat /\ i \in Nat /\ i < reqs[r].cached
    BY StateFacts, CallFacts, RequestFields
  <2>4. ~ (b = r /\ p = i)
    BY <2>1, <2>3
  <2>5. Slot(r, i) # Slot(b, p)
    BY <1>1, <2>1, <2>2, <2>3, <2>4, SlotOwned
  <2>. QED BY <2>5 DEF b, p
<1> HIDE DEF done, row, pos
<1>. QED BY <1>1, <1>2, <1>3, <1>4, <1>6

(* A layer that runs leaves every cached token.                            *)
LEMMA LayerKeepsCache ==
  ASSUME EngineInv, CacheHolds, UNCHANGED <<reqs, bt>>,
         NEW l \in Layers, kv' = UpdateLayer(l, RowTokens)
  PROVE  CacheHolds'
<1>1. RowTokens \in SUBSET RowTokens
  OBVIOUS
<1>2. SUFFICES ASSUME NEW r \in DOMAIN reqs, reqs[r].table # NoTable, NEW m \in Layers,
                      NEW i \in 0 .. (reqs[r].cached - 1)
               PROVE  IsMapped(bt, reqs[r].table, i, PageSize) /\ kv'[m][Slot(r, i)] = Tag(r, i)
  BY DEF CacheHolds, Holds, Slot
<1>. QED BY <1>1, <1>2, WritingKeepsCache

(* A layer that throws leaves every cached token.                          *)
LEMMA ThrowingKeepsCache ==
  ASSUME EngineInv, NoRepeats, CacheHolds, UNCHANGED <<reqs, bt>>, Forwarding,
         NEW l \in Layers, NEW w \in RowTokens, NEW torn \in BOOLEAN,
         kv' = UpdateFails(l, w, torn)
  PROVE  CacheHolds'
<1>1. SUFFICES ASSUME NEW r \in DOMAIN reqs, reqs[r].table # NoTable, NEW m \in Layers,
                      NEW i \in 0 .. (reqs[r].cached - 1)
               PROVE  IsMapped(bt, reqs[r].table, i, PageSize) /\ kv'[m][Slot(r, i)] = Tag(r, i)
  BY DEF CacheHolds, Holds, Slot
<1>2. IsMapped(bt, reqs[r].table, i, PageSize)
  BY <1>1 DEF CacheHolds, Holds
<1>. QED BY <1>1, <1>2, FailingKeepsCache

(* One layer writes its rows, over none of the others.                     *)
LEMMA ForwardKeepsCache ==
  ASSUME EngineInv, CacheHolds, RowsWritten, Forward
  PROVE  CacheHolds' /\ RowsWritten'
<1> DEFINE T == RowTokens
           l == call.at + 1
<1>1. /\ Forwarding /\ kv' = UpdateLayer(l, T) /\ UNCHANGED <<reqs, bt>>
      /\ call' = [call EXCEPT !.at = call.at + 1]
  BY CallFacts DEF Forward, CallType
<1>2. call.stage = "forward" /\ call.at < NumLayers /\ call.at \in Nat
  BY <1>1, CallFacts, CallFields DEF Forwarding
<1>3. l \in Layers /\ LayersDone = 1 .. call.at
  BY <1>2, Bounds DEF Layers, LayersDone
<1>4. /\ call'.rows = call.rows /\ call'.stage = "forward" /\ call'.at = call.at + 1
      /\ call'.op = call.op
  BY <1>1, <1>2, CallFacts DEF CallType
<1>5. CacheHolds'
  <2> HIDE DEF l
  <2>. QED BY <1>1, <1>3, LayerKeepsCache
<1>6. Pending' = DOMAIN call.rows /\ Pending = DOMAIN call.rows
  BY <1>2, <1>4 DEF Pending
<1>7. LayersDone' = 1 .. l
  BY <1>4 DEF LayersDone
<1>8. \A m \in LayersDone' : m \in LayersDone \/ m = l
  BY <1>2, <1>3, <1>7
<1>9. RowsWritten'
  <2>1. SUFFICES ASSUME NEW k \in DOMAIN call.rows, NEW m \in LayersDone',
                        NEW pos \in call.rows[k].past .. (call.rows[k].past + call.rows[k].len - 1)
                 PROVE  kv'[m][Slot(call.rows[k].id, pos)] = Tag(call.rows[k].id, pos)
    BY <1>1, <1>4, <1>6 DEF RowsWritten, Slot
  <2> DEFINE r == call.rows[k].id
  <2>2. call.rows[k].past \in Nat /\ call.rows[k].len \in Nat
    BY CallFacts, CallFields
  <2>3. pos \in Nat /\ pos \in 0 .. (call.rows[k].past + call.rows[k].len - 1)
    BY <2>2
  <2>4. r \in DOMAIN reqs /\ reqs[r].table # NoTable
    BY CallFacts DEF RowsMapped, Known
  <2>5. IsMapped(bt, reqs[r].table, pos, PageSize)
    BY <2>3, RowIsMapped
  <2>6. WritesTo(Slot(r, pos), T) # {} /\ T \in SUBSET RowTokens
    BY RowWrites
  <2>7. m \in LayersDone => kv[m][Slot(r, pos)] = Tag(r, pos)
    BY <1>6 DEF RowsWritten
  <2>8. m \in Layers /\ (m \in LayersDone \/ m = l)
    BY <1>2, <1>3, <1>7, <1>8, Bounds DEF Layers
  <2> HIDE DEF r, l, T
  <2>. QED BY <1>1, <1>3, <2>3, <2>4, <2>5, <2>6, <2>7, <2>8, TokenStays DEF r
<1>. QED BY <1>5, <1>9

(* An exception may leave some tokens of the rows, which nobody counts.    *)
LEMMA FaultKeepsCache ==
  ASSUME EngineInv, EngineInv', NoRepeats, CacheHolds, FaultInForward \/ FaultInSample
  PROVE  CacheHolds' /\ RowsWritten'
<1>1. call'.stage = "idle" /\ UNCHANGED <<reqs, bt>>
  BY StagesOfCallers DEF FaultInForward, FaultInSample
<1>2. CASE FaultInForward
  <2>1. /\ Forwarding
        /\ \/ kv' = UpdateLayer(call.at + 1, RowTokens)
           \/ \E w \in RowTokens, torn \in BOOLEAN : kv' = UpdateFails(call.at + 1, w, torn)
    BY <1>2 DEF FaultInForward
  <2>2. call.at + 1 \in Layers
    BY <2>1, CallFacts, CallFields, Bounds DEF Forwarding, Layers
  <2>3. CacheHolds'
    BY <1>1, <2>1, <2>2, LayerKeepsCache, ThrowingKeepsCache
  <2>. QED BY <1>1, <2>3, NothingRun
<1>3. CASE FaultInSample
  BY <1>1, <1>3, CacheUntouched, NothingRun DEF FaultInSample
<1>. QED BY <1>2, <1>3

(* mark_forward_done counts the tokens every layer has written.            *)
LEMMA MarkKeepsCache ==
  ASSUME EngineInv, EngineInv', NoRepeats, CacheHolds, RowsWritten, Mark
  PROVE  CacheHolds' /\ RowsWritten'
<1> DEFINE r == Row.id
           q == reqs[r]
           p == MarkForwardDone(q, Row.len)
<1>1. /\ MayMark /\ reqs' = [reqs EXCEPT ![r] = p] /\ UNCHANGED <<bt, kv>>
      /\ call' = [call EXCEPT !.stage = IF Batched THEN "append" ELSE "sample"]
  BY DEF Mark
<1>2. r \in DOMAIN reqs /\ q \in RequestType /\ q.table # NoTable /\ Row.len \in Nat
  BY <1>1, RowFacts
<1>3. p.cached = q.cached + Row.len /\ p.table = q.table
  <2> HIDE DEF q
  <2>. QED BY <1>2, MarkedFields
<1>4. PICK k \in Pending : Row = call.rows[k]
  <2>1. CASE Batched
    <3>1. call.stage = "mark" /\ call.at \in DOMAIN call.rows /\ Row = call.rows[call.at]
      BY <1>1, <2>1, RowFacts DEF MayMark
    <3>2. call.at \in Pending
      BY <3>1, CallFacts, CallFields DEF Pending
    <3>. QED BY <3>1, <3>2
  <2>2. CASE ~ Batched
    <3>1. call.stage = "forward" /\ 1 \in DOMAIN call.rows /\ Row = call.rows[1]
      BY <1>1, <2>2, RowFacts DEF MayMark, Forwarded
    <3>. QED BY <3>1 DEF Pending
  <2>. QED BY <2>1, <2>2
<1>5. k \in DOMAIN call.rows /\ Row.past = q.cached /\ q.cached \in Nat
  BY <1>1, <1>2, <1>4, MarkFacts, FieldsOf DEF Pending, Unmarked
<1>6. \A l \in Layers, i \in q.cached .. (q.cached + Row.len - 1) : kv[l][Slot(r, i)] = Tag(r, i)
  BY <1>1, <1>4, <1>5, AllLayersDone DEF RowsWritten
<1>7. \A i \in 0 .. (q.cached + Row.len - 1) : IsMapped(bt, q.table, i, PageSize)
  BY <1>4, <1>5, RowIsMapped
<1>8. \A s \in DOMAIN reqs : reqs'[s].table = reqs[s].table
  BY <1>1, <1>2, <1>3
<1>9. \A s \in DOMAIN reqs : reqs'[s] = IF s = r THEN p ELSE reqs[s]
  BY <1>1, <1>2
<1>10. DOMAIN reqs' = DOMAIN reqs
  BY <1>1
<1> HIDE DEF p
<1>11. CacheHolds'
  <2>1. SUFFICES ASSUME NEW s \in DOMAIN reqs, reqs[s].table # NoTable, NEW l \in Layers,
                        NEW i \in 0 .. (reqs'[s].cached - 1)
                 PROVE  IsMapped(bt, reqs[s].table, i, PageSize) /\ kv[l][Slot(s, i)] = Tag(s, i)
    BY <1>1, <1>8, <1>10 DEF CacheHolds, Holds, Slot
  <2>2. CASE s # r
    <3>1. reqs'[s] = reqs[s]
      BY <1>9, <2>2
    <3>. QED BY <2>1, <3>1 DEF CacheHolds, Holds
  <2>3. CASE s = r
    <3>1. i \in 0 .. (q.cached + Row.len - 1)
      <4>1. reqs'[s].cached = q.cached + Row.len
        BY <1>3, <1>9, <2>3
      <4>. QED BY <1>2, <1>5, <2>1, <4>1
    <3>2. CASE i < q.cached
      <4>1. i \in 0 .. (q.cached - 1)
        BY <1>5, <3>1, <3>2
      <4>. QED BY <2>1, <2>3, <4>1 DEF CacheHolds, Holds
    <3>3. CASE ~ (i < q.cached)
      <4>1. i \in q.cached .. (q.cached + Row.len - 1)
        BY <1>2, <1>5, <3>1, <3>3
      <4>. QED BY <1>6, <1>7, <2>3, <3>1, <4>1
    <3>. QED BY <3>2, <3>3
  <2>. QED BY <2>2, <2>3
<1>12. RowsWritten'
  <2>1. /\ call'.rows = call.rows /\ call'.at = call.at /\ call'.op = call.op
        /\ call'.stage = IF Batched THEN "append" ELSE "sample"
    BY <1>1, CallFacts DEF CallType
  <2>2. CASE ~ Batched
    BY <2>1, <2>2, NothingRun
  <2>3. CASE Batched
    <3>1. call.stage = "mark" /\ call.at \in DOMAIN call.rows
      BY <1>1, <2>3, RowFacts DEF MayMark
    <3>2. Pending' \subseteq Pending
      <4>1. \A j \in DOMAIN call.rows : call.at < j => call.at <= j
        BY <3>1, CallFacts, CallFields
      <4>. QED BY <2>1, <2>3, <3>1, <4>1 DEF Pending, Batched
    <3>3. LayersDone' \subseteq LayersDone
      BY <2>1, <2>3, <3>1 DEF LayersDone, Layers
    <3>. QED BY <1>1, <1>8, <2>1, <3>2, <3>3, RowsStay
  <2>. QED BY <2>2, <2>3
<1>. QED BY <1>11, <1>12

(* The sampled token is appended, and the next row of a batch is marked.   *)
LEMMA AppendKeepsCache ==
  ASSUME EngineInv, EngineInv', CacheHolds, RowsWritten,
         NEW is_eos \in BOOLEAN, AppendSampled(is_eos)
  PROVE  CacheHolds' /\ RowsWritten'
<1> DEFINE r == Row.id
           q == reqs[r]
           p == AppendToken(q, is_eos)
<1>1. /\ call.stage = "append" /\ reqs' = [reqs EXCEPT ![r] = p] /\ Proceed(p)
      /\ UNCHANGED <<bt, kv>>
  BY DEF AppendSampled
<1>2. r \in DOMAIN reqs /\ q \in RequestType
  BY <1>1, RowFacts
<1>3. p.cached = q.cached /\ p.table = q.table
  <2> HIDE DEF q
  <2>. QED BY <1>2, AppendedFields
<1>4. \A s \in DOMAIN reqs : reqs'[s].table = reqs[s].table /\ reqs'[s].cached = reqs[s].cached
  BY <1>1, <1>2, <1>3
<1> HIDE DEF p
<1>5. CacheHolds'
  <2>1. KeepsTables(bt, bt')
    BY <1>1, SameTablesKept
  <2>2. DOMAIN reqs' = DOMAIN reqs
    BY <1>1
  <2>. QED BY <1>1, <1>4, <2>1, <2>2, CacheFrame
<1>6. RowsWritten'
  <2>1. CASE Batched /\ call.at < Len(call.rows)
    <3>1. call' = [call EXCEPT !.stage = "mark", !.at = @ + 1]
      <4>1. ~ call.until_finished
        BY <2>1, CallFacts DEF Shape
      <4>. QED BY <1>1, <2>1, <4>1 DEF Proceed
    <3>2. /\ call'.rows = call.rows /\ call'.stage = "mark" /\ call'.op = call.op
          /\ call'.at = call.at + 1
      BY <3>1, CallFacts DEF CallType
    <3>3. Pending' \subseteq Pending
      <4>1. \A j \in DOMAIN call.rows : call.at + 1 <= j => call.at < j
        BY CallFacts, CallFields
      <4>. QED BY <1>1, <2>1, <3>2, <4>1 DEF Pending
    <3>4. LayersDone' \subseteq LayersDone
      BY <1>1, <3>2 DEF LayersDone, Layers
    <3>. QED BY <1>1, <1>4, <3>2, <3>3, <3>4, RowsStay
  <2>2. CASE ~ (Batched /\ call.at < Len(call.rows))
    <3>1. \/ Start("decode", TRUE, <<OneToken(r)>>)
          \/ Return("ok")
      BY <1>1, <2>2 DEF Proceed
    <3>. QED BY <3>1, StagesOfCallers, NothingRun
  <2>. QED BY <2>1, <2>2
<1>. QED BY <1>5, <1>6

(* Sampling moves the call on.                                             *)
LEMMA SamplingKeepsCache ==
  ASSUME EngineInv, EngineInv', CacheHolds, RowsWritten, SampleBatch \/ Sample
  PROVE  CacheHolds' /\ RowsWritten'
<1>1. UNCHANGED <<reqs, bt, kv>>
  BY DEF SampleBatch, Sample
<1>2. CacheHolds'
  BY <1>1, CacheUntouched
<1>3. RowsWritten'
  <2>1. CASE SampleBatch
    <3>1. Batched /\ Forwarded /\ call' = [call EXCEPT !.stage = "mark", !.at = 1]
      BY <2>1 DEF SampleBatch
    <3>2. call'.rows = call.rows /\ call'.stage = "mark"
      BY <3>1, CallFacts DEF CallType
    <3>3. Pending' \subseteq Pending
      BY <3>1, <3>2 DEF Pending, Forwarded
    <3>4. LayersDone' \subseteq LayersDone
      BY <3>1, <3>2 DEF LayersDone, Layers, Forwarded
    <3>. QED BY <1>1, <3>2, <3>3, <3>4, RowsStay
  <2>2. CASE Sample
    <3>1. ~ Batched
      BY <2>2, CallFacts DEF Sample, Shape
    <3>2. \/ call' = [call EXCEPT !.stage = "reserve", !.todo = <<OneToken(Row.id)>>,
                                  !.rows = << >>, !.at = 0]
          \/ call' = [call EXCEPT !.stage = "append"]
      BY <2>2 DEF Sample
    <3>3. CASE call' = [call EXCEPT !.stage = "append"]
      <4>1. call'.stage = "append" /\ call'.op = call.op
        BY <3>3, CallFacts DEF CallType
      <4>2. Pending' = {}
        BY <3>1, <4>1 DEF Pending, Batched
      <4>. QED BY <4>2 DEF RowsWritten
    <3>4. CASE call' = [call EXCEPT !.stage = "reserve", !.todo = <<OneToken(Row.id)>>,
                                    !.rows = << >>, !.at = 0]
      <4>1. call'.stage = "reserve"
        BY <3>4, CallFacts DEF CallType
      <4>. QED BY <4>1, NothingRun
    <3>. QED BY <3>2, <3>3, <3>4
  <2>. QED BY <2>1, <2>2
<1>. QED BY <1>2, <1>3

(* A call that is refused leaves everything where it is.                   *)
LEMMA RefusingKeepsCache ==
  ASSUME EngineInv, EngineInv', CacheHolds,
         ReserveRefused \/ ReserveTooLong \/ AppendRefused
  PROVE  CacheHolds' /\ RowsWritten'
<1>1. UNCHANGED <<reqs, bt, kv>> /\ \E outcome : Return(outcome)
  BY DEF ReserveRefused, ReserveTooLong, AppendRefused
<1>. QED BY <1>1, StagesOfCallers, CacheUntouched, NothingRun

(* Every cached token stays in its slot of every layer's pool, and what a  *)
(* call has run is written, when callers list no request twice in a batch  *)
(* and take up none they have released.                                    *)
THEOREM CacheIsHeld == Spec => []CacheInv
<1>1. Init => CacheInv
  <2>1. Init => DOMAIN reqs = {} /\ LayersDone = {}
    BY DEF Init, NoCall, LayersDone
  <2>. QED BY <2>1 DEF CacheInv, CacheHolds, RowsWritten
<1>2. ASSUME EngineInv, EngineInv', CacheInv, [Next]_vars PROVE CacheInv'
  <2>1. SUFFICES ASSUME NoRepeats, NoReuse PROVE CacheHolds' /\ RowsWritten'
    BY DEF CacheInv, NoRepeats, NoReuse
  <2>2. CacheHolds /\ RowsWritten
    BY <1>2, <2>1 DEF CacheInv
  <2>3. CASE CallerStep
    BY <1>2, <2>2, <2>3, CallerKeepsCache
  <2>4. CASE EngineStep
    BY <1>2, <2>1, <2>2, <2>4, ReservingKeepsCache, ForwardKeepsCache, MarkKeepsCache,
       SamplingKeepsCache, RefusingKeepsCache, AppendKeepsCache DEF EngineStep
  <2>5. CASE FaultInForward \/ FaultInSample
    BY <1>2, <2>1, <2>2, <2>5, FaultKeepsCache
  <2>6. CASE UNCHANGED vars
    BY <2>2, <2>6 DEF vars, CacheHolds, Holds, Slot, RowsWritten, Pending, Batched, Row,
                      LayersDone
  <2>. QED BY <1>2, <2>3, <2>4, <2>5, <2>6 DEF Next
<1>. QED BY SpecInv, <1>1, <1>2, PTL DEF Spec

(* Every token counted in cached_len is in the pool of every layer, where  *)
(* its block table says.                                                   *)
THEOREM CachedTokensHeld == ASSUME NoRepeats, NoReuse PROVE Spec => []CacheHolds
<1>1. CacheInv => CacheHolds
  BY DEF CacheInv
<1>. QED BY <1>1, CacheIsHeld, PTL

(* While a layer attends, each row finds the K/V of all its tokens.        *)
THEOREM AttentionFinds == ASSUME NoRepeats, NoReuse PROVE Spec => []AttentionReads
<1>1. ASSUME EngineInv, CacheInv PROVE AttentionReads
  <2>1. SUFFICES ASSUME call.stage = "forward", call.at > 0, NEW k \in DOMAIN call.rows,
                        NEW pos \in 0 .. (call.rows[k].past + call.rows[k].len - 1)
                 PROVE  Holds(call.at, call.rows[k].id, pos)
    BY DEF AttentionReads
  <2> DEFINE row == call.rows[k]
             r == row.id
  <2>2. r \in DOMAIN reqs /\ reqs[r].table # NoTable
    BY <1>1, CallFacts DEF RowsMapped, Known
  <2>3. row.past \in Nat /\ row.len \in Nat /\ call.at \in Nat
    BY <1>1, CallFacts, CallFields
  <2>4. k \in Pending
    BY <2>1 DEF Pending
  <2>5. row.past = reqs[r].cached
    BY <1>1, <2>1, <2>4, CallFacts DEF RowsUnmarked, Unmarked
  <2>6. call.at \in Layers /\ call.at \in LayersDone
    BY <1>1, <2>1, <2>3, CallFacts, Bounds DEF Shape, Layers, LayersDone
  <2>7. IsMapped(bt, reqs[r].table, pos, PageSize)
    BY <1>1, RowIsMapped
  <2>8. kv[call.at][Slot(r, pos)] = Tag(r, pos)
    <3>1. CASE pos < row.past
      <4>1. pos \in 0 .. (reqs[r].cached - 1)
        BY <2>3, <2>5, <3>1
      <4>. QED BY <1>1, <2>2, <2>6, <4>1 DEF CacheInv, CacheHolds, Holds
    <3>2. CASE ~ (pos < row.past)
      <4>1. pos \in row.past .. (row.past + row.len - 1)
        BY <2>3, <3>2
      <4>. QED BY <1>1, <2>4, <2>6, <4>1 DEF CacheInv, RowsWritten
    <3>. QED BY <3>1, <3>2
  <2>. QED BY <2>7, <2>8 DEF Holds
<1>. QED BY <1>1, SpecInv, CacheIsHeld, PTL

-----------------------------------------------------------------------------
(* Sums.  MapThenSumSet takes an element out of the set at a time; the sum *)
(* is the number of units, each a pair of an element and a number below    *)
(* its weight.                                                             *)
Units(w, s) == {u \in s \X Nat : u[2] < w[u[1]]}

Chosen(s) == CHOOSE x \in s : TRUE

SumStep(w, F, s) == IF s = {} THEN 0 ELSE w[Chosen(s)] + F[s \ {Chosen(s)}]

(* Of any subsets of a finite set there is one that contains no other.     *)
LEMMA SmallestSubset ==
  ASSUME NEW S, IsFiniteSet(S), NEW bad \in SUBSET (SUBSET S), bad # {}
  PROVE  \E s \in bad : \A t \in bad : t \subseteq s => t = s
<1>1. IsWellFoundedOn(StrictSubsetOrdering(S), SUBSET S)
  <2>1. IsWellFoundedOn(StrictSubsetOrdering(S), FiniteSubsetsOf(S))
    BY FS_StrictSubsetOrderingWellFounded
  <2>2. FiniteSubsetsOf(S) = SUBSET S
    BY FS_FiniteSubsetsOfFinite
  <2>. QED BY <2>1, <2>2
<1>2. PICK s \in bad : \A t \in bad : ~ (<<t, s>> \in StrictSubsetOrdering(S))
  BY <1>1, WFMin
<1>3. ASSUME NEW t \in bad, t \subseteq s PROVE t = s
  <2>1. <<t, s>> \in (SUBSET S) \X (SUBSET S)
    BY <1>2
  <2>. QED BY <1>2, <1>3, <2>1 DEF StrictSubsetOrdering
<1>. QED BY <1>2, <1>3

(* An element adds its weight to the units.                                *)
LEMMA UnitsAdd ==
  ASSUME NEW S, NEW w \in [S -> Nat], NEW s \in SUBSET S, NEW x \in s,
         IsFiniteSet(Units(w, s \ {x}))
  PROVE  /\ IsFiniteSet(Units(w, s))
         /\ Cardinality(Units(w, s)) = w[x] + Cardinality(Units(w, s \ {x}))
<1> DEFINE A == {x} \X (0 .. (w[x] - 1))
           B == Units(w, s \ {x})
<1>1. w[x] \in Nat
  OBVIOUS
<1>2. IsFiniteSet(A) /\ Cardinality(A) = w[x]
  <2>1. IsFiniteSet({x}) /\ Cardinality({x}) = 1
    BY FS_Singleton
  <2>2. IsFiniteSet(0 .. (w[x] - 1)) /\ Cardinality(0 .. (w[x] - 1)) = w[x]
    BY <1>1, FS_Interval
  <2>. QED BY <1>1, <2>1, <2>2, FS_Product
<1>3. Units(w, s) = A \cup B
  <2>1. \A y, i : <<y, i>> \in A <=> y = x /\ i \in Nat /\ i < w[x]
    BY <1>1
  <2>. QED BY <2>1 DEF Units
<1>4. A \cap B = {}
  BY DEF Units
<1> HIDE DEF A, B
<1>5. IsFiniteSet(B) /\ Cardinality(B) \in Nat
  BY FS_CardinalityType DEF B
<1>6. Cardinality(A \cap B) = 0
  BY <1>4, FS_EmptySet
<1>7. IsFiniteSet(A \cup B) /\ Cardinality(A \cup B) = Cardinality(A) + Cardinality(B) - Cardinality(A \cap B)
  BY <1>2, <1>5, FS_Union
<1>. QED BY <1>1, <1>2, <1>3, <1>5, <1>6, <1>7 DEF B

(* They are as many as any function that adds up gives.                    *)
LEMMA UnitsAreSum ==
  ASSUME NEW S, IsFiniteSet(S), NEW w \in [S -> Nat],
         NEW F, \A s \in SUBSET S : F[s] = SumStep(w, F, s)
  PROVE  \A s \in SUBSET S : IsFiniteSet(Units(w, s)) /\ F[s] = Cardinality(Units(w, s))
<1> DEFINE Sums(s) == IsFiniteSet(Units(w, s)) /\ F[s] = Cardinality(Units(w, s))
           bad == {s \in SUBSET S : ~ Sums(s)}
<1>1. SUFFICES ASSUME bad # {} PROVE FALSE
  OBVIOUS
<1>2. PICK s \in bad : \A t \in bad : t \subseteq s => t = s
  <2>1. bad \in SUBSET (SUBSET S)
    OBVIOUS
  <2> HIDE DEF bad
  <2>. QED BY <1>1, <2>1, SmallestSubset
<1>3. s \in SUBSET S /\ ~ Sums(s) /\ F[s] = SumStep(w, F, s)
  BY <1>2
<1>4. CASE s = {}
  <2>1. Units(w, s) = {}
    BY <1>4 DEF Units
  <2>2. IsFiniteSet({}) /\ Cardinality({}) = 0
    BY FS_EmptySet
  <2>3. F[s] = 0
    BY <1>3, <1>4 DEF SumStep
  <2>. QED BY <1>3, <2>1, <2>2, <2>3
<1>5. CASE s # {}
  <2> DEFINE x == Chosen(s)
             t == s \ {x}
  <2>1. x \in s /\ F[s] = w[x] + F[t]
    BY <1>3, <1>5 DEF SumStep, Chosen
  <2>2. t \in SUBSET S /\ t \subseteq s /\ t # s
    BY <1>3, <2>1
  <2>3. Sums(t)
    BY <1>2, <2>2
  <2>4. /\ IsFiniteSet(Units(w, s))
        /\ Cardinality(Units(w, s)) = w[x] + Cardinality(Units(w, t))
    <3> HIDE DEF x
    <3>. QED BY <1>3, <2>1, <2>3, UnitsAdd
  <2>. QED BY <1>3, <2>1, <2>3, <2>4
<1>. QED BY <1>4, <1>5

(* Counting units adds up.                                                 *)
LEMMA UnitsAddUp ==
  ASSUME NEW S, IsFiniteSet(S), NEW w \in [S -> Nat]
  PROVE  LET F == [s \in SUBSET S |-> Cardinality(Units(w, s))]
         IN  F = [s \in SUBSET S |-> SumStep(w, F, s)]
<1> DEFINE F == [s \in SUBSET S |-> Cardinality(Units(w, s))]
           Finite(s) == IsFiniteSet(Units(w, s))
           bad == {s \in SUBSET S : ~ Finite(s)}
<1>1. ASSUME NEW s \in SUBSET S, s # {} PROVE Chosen(s) \in s /\ s \ {Chosen(s)} \in SUBSET S
  BY <1>1 DEF Chosen
<1>2. Units(w, {}) = {} /\ IsFiniteSet({}) /\ Cardinality({}) = 0
  BY FS_EmptySet DEF Units
<1>3. bad = {}
  <2>1. SUFFICES ASSUME bad # {} PROVE FALSE
    OBVIOUS
  <2>2. PICK s \in bad : \A t \in bad : t \subseteq s => t = s
    <3>1. bad \in SUBSET (SUBSET S)
      OBVIOUS
    <3> HIDE DEF bad
    <3>. QED BY <2>1, <3>1, SmallestSubset
  <2>3. s # {}
    BY <1>2, <2>2
  <2>4. s \ {Chosen(s)} \in SUBSET S /\ s \ {Chosen(s)} # s /\ Chosen(s) \in s
    BY <1>1, <2>2, <2>3
  <2>5. Finite(s \ {Chosen(s)})
    BY <2>2, <2>4
  <2>. QED BY <2>2, <2>4, <2>5, UnitsAdd
<1>4. ASSUME NEW s \in SUBSET S PROVE F[s] = SumStep(w, F, s)
  <2>1. CASE s = {}
    BY <1>2, <2>1 DEF SumStep
  <2>2. CASE s # {}
    <3>1. Chosen(s) \in s /\ s \ {Chosen(s)} \in SUBSET S
      BY <1>1, <2>2
    <3>2. Finite(s \ {Chosen(s)})
      BY <1>3, <3>1
    <3>3. Cardinality(Units(w, s)) = w[Chosen(s)] + Cardinality(Units(w, s \ {Chosen(s)}))
      BY <3>1, <3>2, UnitsAdd
    <3>. QED BY <2>2, <3>1, <3>3 DEF SumStep
  <2>. QED BY <2>1, <2>2
<1>. QED BY <1>4

(* What the requests need together.                                        *)
LEMMA NeedsSum ==
  ASSUME NEW S, IsFiniteSet(S), \A r \in S : Need(r) \in Nat
  PROVE  LET w == [r \in S |-> Need(r)]
         IN  /\ IsFiniteSet(Units(w, S))
             /\ MapThenSumSet(Need, S) = Cardinality(Units(w, S))
<1> DEFINE w == [r \in S |-> Need(r)]
           Step(F, s) == IF s = {} THEN 0 ELSE Need(Chosen(s)) + F[s \ {Chosen(s)}]
           Sum == CHOOSE F : F = [s \in SUBSET S |-> Step(F, s)]
           G == [s \in SUBSET S |-> Cardinality(Units(w, s))]
<1>1. w \in [S -> Nat]
  OBVIOUS
<1>2. \A F : \A s \in SUBSET S : SumStep(w, F, s) = Step(F, s)
  <2>1. \A s \in SUBSET S : s # {} => Chosen(s) \in S
    BY DEF Chosen
  <2>. QED BY <2>1 DEF SumStep
<1>3. MapThenSumSet(Need, S) = Sum[S]
  BY DEF MapThenSumSet, MapThenFoldSet, Chosen
<1>4. G = [s \in SUBSET S |-> SumStep(w, G, s)]
  <2> HIDE DEF w
  <2>. QED BY <1>1, UnitsAddUp
<1> HIDE DEF w, Step, G
<1>5. G = [s \in SUBSET S |-> Step(G, s)]
  BY <1>2, <1>4
<1>6. Sum = [s \in SUBSET S |-> Step(Sum, s)]
  BY <1>5
<1> HIDE DEF Sum
<1>7. \A s \in SUBSET S : Sum[s] = SumStep(w, Sum, s)
  BY <1>2, <1>6
<1>8. IsFiniteSet(Units(w, S)) /\ Sum[S] = Cardinality(Units(w, S))
  BY <1>1, <1>7, UnitsAreSum
<1>. QED BY <1>3, <1>8 DEF w

(* The blocks a request has.                                               *)
Held(r) == IF reqs[r].table = NoTable THEN 0 ELSE Len(bt.tables[reqs[r].table])

(* A call that finds too few blocks free.                                  *)
LEMMA TooFewFree ==
  ASSUME EngineInv, ReserveExhausted
  PROVE  /\ Wanted.id \in DOMAIN reqs /\ Need(Wanted.id) \in Nat \ {0}
         /\ Held(Wanted.id) + Len(bt.free_blocks) < Need(Wanted.id)
<1> DEFINE q == reqs[Wanted.id]
           m == WithTable(bt, q)
           t == TableFor(bt, q)
           required == NumRequiredBlocks(Target, PageSize)
<1>1. StateInv /\ CallInv /\ Reserving /\ Accepted /\ ~ Suffices
  BY DEF EngineInv, ReserveExhausted
<1>2. Wanted.id \in DOMAIN reqs /\ Target \in Nat
  BY <1>1, AcceptedFacts
<1>3. q \in RequestType /\ WellFormed(bt) /\ (q.table # NoTable => IsTableUsed(bt, q.table))
  BY <1>1, <1>2, StateFacts, RequestFields
<1>4. required \in Nat
  BY <1>2, Bounds, RequiredMonotone
<1>5. Need(Wanted.id) = required
  BY <1>1 DEF Need, Reserving
<1>6. IsTableUsed(m, t) /\ Len(m.tables[t]) = Held(Wanted.id)
  BY <1>3, TakesTable DEF Held
<1>7. m.free_blocks = bt.free_blocks
  <2>1. AllocateTable(bt).free_blocks = bt.free_blocks
    <3>1. bt = [bt EXCEPT !.tables = bt.tables] /\ DOMAIN bt = DOMAIN [free_blocks |-> 0, block_used |-> 0,
            tables |-> 0, table_used |-> 0, free_table_indices |-> 0]
      BY <1>3 DEF WellFormed, WellTyped, ManagerType
    <3>. QED BY <1>3 DEF AllocateTable, WellFormed, WellTyped, ManagerType
  <2>. QED BY <2>1 DEF WithTable
<1>8. ~ EnsureReturns(m, t, required)
  BY <1>1 DEF Suffices, BlocksSuffice
<1>9. Held(Wanted.id) \in Nat /\ Len(bt.free_blocks) \in Nat
  <2>1. bt.free_blocks \in Seq(Blocks)
    BY <1>3, FieldTypes DEF WellFormed
  <2>2. q.table # NoTable => bt.tables[q.table] \in Seq(Blocks)
    BY <1>3, FieldTypes DEF WellFormed, IsTableUsed
  <2>. QED BY <2>1, <2>2 DEF Held
<1> HIDE DEF q, m, t, required
<1>. QED
  BY <1>2, <1>4, <1>5, <1>6, <1>7, <1>8, <1>9 DEF EnsureReturns, HasFreeBlocks, NeedBlocks

(* Every block is in the table of a request or free.                       *)
LEMMA HeldOrFree ==
  ASSUME StateInv
  PROVE  /\ \A r \in DOMAIN reqs : \A i \in 0 .. (Held(r) - 1) :
              bt.tables[reqs[r].table][i + 1] \in Blocks
         /\ \A r \in DOMAIN reqs : Held(r) \in Nat
         /\ bt.free_blocks \in Seq(Blocks)
         /\ \A b \in Blocks :
              \/ \E r \in DOMAIN reqs : \E i \in 0 .. (Held(r) - 1) :
                   bt.tables[reqs[r].table][i + 1] = b
              \/ \E j \in 1 .. Len(bt.free_blocks) : bt.free_blocks[j] = b
<1>1. WellFormed(bt) /\ bt.free_blocks \in Seq(Blocks)
  BY StateFacts, FieldTypes DEF WellFormed
<1>2. ASSUME NEW r \in DOMAIN reqs
      PROVE  /\ Held(r) \in Nat
             /\ reqs[r].table # NoTable =>
                  /\ bt.tables[reqs[r].table] \in Seq(Blocks)
                  /\ DOMAIN bt.tables[reqs[r].table] = 1 .. Held(r)
  <2>1. reqs[r].table # NoTable => reqs[r].table \in DOMAIN bt.tables
    BY StateFacts DEF IsTableUsed
  <2>2. reqs[r].table # NoTable => bt.tables[reqs[r].table] \in Seq(Blocks)
    BY <1>1, <2>1, FieldTypes DEF WellFormed
  <2>. QED BY <2>2 DEF Held
<1>3. ASSUME NEW r \in DOMAIN reqs, NEW i \in 0 .. (Held(r) - 1)
      PROVE  bt.tables[reqs[r].table][i + 1] \in Blocks
  <2>1. reqs[r].table # NoTable /\ i + 1 \in 1 .. Held(r)
    BY <1>2, <1>3 DEF Held
  <2>. QED BY <1>2, <2>1
<1>4. ASSUME NEW b \in Blocks, b \notin BlocksOf(bt.free_blocks)
      PROVE  \E r \in DOMAIN reqs : \E i \in 0 .. (Held(r) - 1) : bt.tables[reqs[r].table][i + 1] = b
  <2>1. PICK h \in LiveTables(bt) : b \in BlocksOf(bt.tables[h])
    BY <1>1, <1>4, FreeIsUnowned
  <2>2. PICK r \in DOMAIN reqs : reqs[r].table = h
    BY <2>1 DEF StateInv, TableOwners
  <2>3. h # NoTable
    <3>1. DOMAIN bt.tables = 1 .. Len(bt.tables)
      BY <1>1, FieldTypes DEF WellFormed
    <3>. QED BY <2>1, <3>1 DEF LiveTables, NoTable
  <2>4. PICK k \in 1 .. Held(r) : bt.tables[h][k] = b
    BY <1>2, <2>1, <2>2, <2>3 DEF BlocksOf
  <2>5. k - 1 \in 0 .. (Held(r) - 1) /\ (k - 1) + 1 = k
    BY <1>2, <2>4
  <2>. QED BY <2>2, <2>4, <2>5
<1>5. DOMAIN bt.free_blocks = 1 .. Len(bt.free_blocks)
  BY <1>1
<1>. QED BY <1>1, <1>2, <1>3, <1>4, <1>5 DEF BlocksOf

(* A block is a unit of the need of the request that has it, and a free    *)
(* one a unit of the request that finds too few; one unit is left over.    *)
LEMMA NeedsExceed ==
  ASSUME EngineInv, ReserveExhausted
  PROVE  MapThenSumSet(Need, DOMAIN reqs) > NumBlocks
<1> DEFINE S == DOMAIN reqs
           id == Wanted.id
           w == [r \in S |-> Need(r)]
           free == bt.free_blocks
           last == <<id, Need(id) - 1>>
           U == Units(w, S) \ {last}
<1>1. StateInv
  BY DEF EngineInv
<1>2. id \in S /\ Need(id) \in Nat \ {0} /\ Held(id) + Len(free) < Need(id)
  BY TooFewFree
<1>3. ASSUME NEW r \in S PROVE Need(r) \in Nat /\ (r # id => Held(r) <= Need(r))
  <2>1. CASE r = id
    BY <1>2, <2>1
  <2>2. CASE r # id
    <3>1. reqs[r].input \in Nat
      BY <1>1, StateFacts, RequestFields
    <3>2. NumRequiredBlocks(DeviceLen(reqs[r]), PageSize) \in Nat
      BY <3>1, Bounds, RequiredMonotone DEF DeviceLen
    <3>3. reqs[r].table # NoTable => Held(r) <= NumRequiredBlocks(DeviceLen(reqs[r]), PageSize)
      BY <1>1 DEF StateInv, NoHoarding, Held
    <3>. QED BY <2>2, <3>2, <3>3 DEF Need, Held
  <2>. QED BY <2>1, <2>2
<1>4. IsFiniteSet(S)
  <2>1. S = 1 .. Len(reqs) /\ Len(reqs) \in Nat
    BY <1>1, StateFacts, RequestFields
  <2>. QED BY <2>1, FS_Interval
<1>5. IsFiniteSet(Units(w, S)) /\ MapThenSumSet(Need, S) = Cardinality(Units(w, S))
  BY <1>3, <1>4, NeedsSum
<1>6. last \in Units(w, S)
  BY <1>2 DEF Units
<1>7. \A r \in S, i \in Nat : <<r, i>> \in U <=> i < Need(r) /\ ~ (r = id /\ i = Need(id) - 1)
  BY DEF Units
<1>8. \A u \in U : u[1] \in S /\ u[2] \in Nat
  BY DEF Units
<1> DEFINE block(r, i) == IF i < Held(r) THEN bt.tables[reqs[r].table][i + 1]
                          ELSE IF i - Held(r) + 1 \in 1 .. Len(free) THEN free[i - Held(r) + 1] ELSE 0
           f == [u \in U |-> block(u[1], u[2])]
<1>9. /\ \A r \in S : Held(r) \in Nat /\ \A i \in 0 .. (Held(r) - 1) : bt.tables[reqs[r].table][i + 1] \in Blocks
      /\ free \in Seq(Blocks) /\ Len(free) \in Nat
      /\ \A b \in Blocks :
           \/ \E r \in S : \E i \in 0 .. (Held(r) - 1) : bt.tables[reqs[r].table][i + 1] = b
           \/ \E j \in 1 .. Len(free) : free[j] = b
  BY <1>1, HeldOrFree
<1> HIDE DEF S, id, w, free, last, U
<1>10. \A r \in S, i \in Nat : block(r, i) \in Blocks
  <2>1. 0 \in Blocks
    BY DEF Blocks
  <2>2. \A j \in 1 .. Len(free) : free[j] \in Blocks
    BY <1>9
  <2>3. \A r \in S, i \in Nat : i < Held(r) => i \in 0 .. (Held(r) - 1)
    BY <1>9
  <2>. QED BY <1>9, <2>1, <2>2, <2>3
<1>11. ASSUME NEW b \in Blocks PROVE \E u \in U : f[u] = b
  <2>1. CASE \E r \in S : \E i \in 0 .. (Held(r) - 1) : bt.tables[reqs[r].table][i + 1] = b
    <3>0. PICK r \in S : \E i \in 0 .. (Held(r) - 1) : bt.tables[reqs[r].table][i + 1] = b
      BY <2>1
    <3>1. PICK i \in 0 .. (Held(r) - 1) : bt.tables[reqs[r].table][i + 1] = b
      BY <3>0
    <3>2. i \in Nat /\ i < Held(r) /\ Held(r) \in Nat
      BY <1>9, <3>1
    <3>3. <<r, i>> \in U
      BY <1>2, <1>3, <1>7, <1>9, <3>2
    <3>4. block(r, i) = b
      BY <3>1, <3>2
    <3>. QED BY <3>3, <3>4
  <2>2. CASE \E j \in 1 .. Len(free) : free[j] = b
    <3>1. PICK j \in 1 .. Len(free) : free[j] = b
      BY <2>2
    <3> DEFINE i == Held(id) + j - 1
    <3>2. i \in Nat /\ ~ (i < Held(id)) /\ i - Held(id) + 1 = j /\ i < Need(id) /\ i # Need(id) - 1
      BY <1>2, <1>9
    <3> HIDE DEF i
    <3>3. <<id, i>> \in U
      BY <1>2, <1>7, <3>2
    <3>4. block(id, i) = b
      BY <3>1, <3>2
    <3>. QED BY <3>3, <3>4
  <2>. QED BY <1>9, <2>1, <2>2
<1>12. f \in Surjection(U, Blocks)
  <2>1. f \in [U -> Blocks]
    BY <1>8, <1>10
  <2> HIDE DEF f
  <2>. QED BY <1>11, <2>1 DEF Surjection
<1> HIDE DEF f, block
<1>13. IsFiniteSet(U) /\ Cardinality(U) = Cardinality(Units(w, S)) - 1
  BY <1>5, <1>6, FS_RemoveElement DEF U
<1>14. Cardinality(Blocks) <= Cardinality(U)
  BY <1>12, <1>13, FS_Surjection
<1>15. Cardinality(Blocks) = NumBlocks
  BY FS_Interval DEF Blocks
<1>16. Cardinality(Units(w, S)) \in Nat
  BY <1>5, FS_CardinalityType
<1>. QED BY <1>5, <1>13, <1>14, <1>15, <1>16 DEF S

(* Blocks run out only if the requests that have tables, with the one that *)
(* asks, need more than there are: none is lost, and none held in vain.    *)
THEOREM StarvingIsFull == Spec => StarvesOnlyWhenFull
<1>1. ASSUME EngineInv, Next, call.stage = "reserve", Idle', result' = "exhausted"
      PROVE  ReserveExhausted
  <2>1. CASE CallerStep
    BY <1>1, <2>1 DEF CallerStep, AddRequest, AppendInput, Release, Prefill, DecodeOneStep,
       GenerateUntilFinished, GenerateNothing, AlreadyFinished, CallRefused, DecodeBatch, Idle
  <2>2. CASE ReserveSkips
    <3>1. call'.stage = call.stage
      BY <1>1, <2>2, StateFacts DEF ReserveSkips, EngineInv, CallType
    <3>. QED BY <1>1, <3>1 DEF Idle
  <2>3. CASE Reserve
    <3>1. call'.stage = call.stage
      BY <1>1, <2>3, StateFacts DEF Reserve, EngineInv, CallType
    <3>. QED BY <1>1, <3>1 DEF Idle
  <2>4. CASE ReserveDone
    <3>1. \/ result' = "ok"
          \/ call'.stage = "forward"
      BY <1>1, <2>4, StateFacts DEF ReserveDone, Return, EngineInv, CallType
    <3>. QED BY <1>1, <3>1 DEF Idle
  <2>5. CASE ReserveRefused \/ ReserveTooLong
    BY <1>1, <2>5 DEF ReserveRefused, ReserveTooLong, Return
  <2>6. CASE Forward \/ Mark \/ Sample \/ SampleBatch \/ AppendRefused
             \/ (\E is_eos \in BOOLEAN : AppendSampled(is_eos)) \/ FaultInForward \/ FaultInSample
    BY <1>1, <2>6 DEF Forward, Mark, MayMark, Sample, SampleBatch, AppendRefused, AppendSampled,
       FaultInForward, FaultInSample, Forwarding, Forwarded
  <2>. QED BY <1>1, <2>1, <2>2, <2>3, <2>4, <2>5, <2>6 DEF Next, EngineStep
<1>2. EngineInv /\ [Next]_vars =>
        [ call.stage = "reserve" /\ Idle' /\ result' = "exhausted" =>
            MapThenSumSet(Need, DOMAIN reqs) > NumBlocks ]_vars
  BY <1>1, NeedsExceed
<1>. QED BY SpecInv, <1>2, PTL DEF Spec, StarvesOnlyWhenFull

-----------------------------------------------------------------------------
(* The engine implements the token streams.                                *)

(* A request as a token stream.                                            *)
TokenStreamOf(len, fed, sampled, eos, quota, running) ==
  [len |-> len, fed |-> fed, sampled |-> sampled, eos |-> eos, quota |-> quota,
   running |-> running]

Running(q) == ~ IsFinished(q)

StreamOf(q) == TokenStreamOf(q.input, q.cached, q.generated, q.eos, q.max_new, Running(q))

(* The fields of a stream.                                                 *)
LEMMA StreamFields ==
  ASSUME NEW q
  PROVE  /\ StreamOf(q).len = q.input /\ StreamOf(q).fed = q.cached
         /\ StreamOf(q).sampled = q.generated /\ StreamOf(q).quota = q.max_new
         /\ StreamOf(q).running = Running(q)
BY DEF StreamOf, TokenStreamOf

(* A step that replaces a request replaces its stream.                     *)
LEMMA StreamReplaced ==
  ASSUME NEW r \in DOMAIN reqs, NEW p, reqs' = [reqs EXCEPT ![r] = p]
  PROVE  /\ Streams' = [Streams EXCEPT ![r] = StreamOf(p)]
         /\ Streams[r] = StreamOf(reqs[r]) /\ DOMAIN Streams = DOMAIN reqs
         /\ Stream!Known(r)
<1>1. DOMAIN Streams = DOMAIN reqs /\ DOMAIN reqs' = DOMAIN reqs
  BY DEF Streams
<1>2. \A s \in DOMAIN reqs : Streams[s] = StreamOf(reqs[s])
  BY DEF Streams, StreamOf, TokenStreamOf, Running, DeviceLen
<1>3. Streams' = [s \in DOMAIN reqs |-> StreamOf(reqs'[s])]
  BY <1>1 DEF Streams, StreamOf, TokenStreamOf, Running, DeviceLen
<1>4. Streams = [s \in DOMAIN reqs |-> StreamOf(reqs[s])]
  BY DEF Streams, StreamOf, TokenStreamOf, Running, DeviceLen
<1> HIDE DEF StreamOf
<1>5. Streams' = [Streams EXCEPT ![r] = StreamOf(p)]
  BY <1>3, <1>4
<1>. QED BY <1>1, <1>2, <1>5 DEF Stream!Known, StreamOf

(* A request leaves the stream it was when its tokens, its quota and       *)
(* whether it is finished stay.                                            *)
LEMMA StreamKept ==
  ASSUME NEW r \in DOMAIN reqs, NEW p, reqs' = [reqs EXCEPT ![r] = p],
         p.input = reqs[r].input, p.cached = reqs[r].cached, p.status = reqs[r].status,
         p.generated = reqs[r].generated, p.eos = reqs[r].eos, p.max_new = reqs[r].max_new
  PROVE  UNCHANGED Streams
<1>1. StreamOf(p) = StreamOf(reqs[r])
  BY DEF StreamOf, Running, IsFinished
<1>2. Streams' = [Streams EXCEPT ![r] = StreamOf(reqs[r])] /\ Streams[r] = StreamOf(reqs[r])
      /\ r \in DOMAIN Streams
  <2>1. /\ Streams' = [Streams EXCEPT ![r] = StreamOf(p)]
        /\ Streams[r] = StreamOf(reqs[r]) /\ DOMAIN Streams = DOMAIN reqs
    BY StreamReplaced
  <2> HIDE DEF StreamOf
  <2>. QED BY <1>1, <2>1
<1>3. Streams = [s \in DOMAIN reqs |-> Streams[s]]
  BY DEF Streams
<1>. QED BY <1>2, <1>3

(* finish_request finishes the stream.                                     *)
LEMMA FinishIsFinish ==
  ASSUME EngineInv, NEW r \in Ids, Release(r) \/ GenerateNothing(r)
  PROVE  Stream!Finish(r)
<1>1. r \in DOMAIN reqs
  BY DEF Release, GenerateNothing, Known
<1>2. \E p : /\ reqs' = [reqs EXCEPT ![r] = p]
             /\ p = FinishRequest(reqs[r]) \/ p = FinishRequest([reqs[r] EXCEPT !.table = NoTable])
  BY DEF Release, GenerateNothing
<1>3. PICK p : /\ reqs' = [reqs EXCEPT ![r] = p]
               /\ p = FinishRequest(reqs[r]) \/ p = FinishRequest([reqs[r] EXCEPT !.table = NoTable])
  BY <1>2
<1>4. reqs[r] \in RequestType
  BY <1>1, CallFacts, StateFacts, RequestFields
<1>5. /\ IsFinished(p) /\ p.input = reqs[r].input /\ p.cached = reqs[r].cached
      /\ p.max_new = reqs[r].max_new /\ p.generated = reqs[r].generated /\ p.eos = reqs[r].eos
  BY <1>3, <1>4, FinishFields
<1>6. StreamOf(p) = [StreamOf(reqs[r]) EXCEPT !.running = FALSE]
  <2> DEFINE q == reqs[r]
             no == FALSE
  <2>1. Running(p) = no
    BY <1>5, Zenon DEF Running
  <2> HIDE DEF no
  <2>2. StreamOf(p) = TokenStreamOf(q.input, q.cached, q.generated, q.eos, q.max_new, no)
    BY <1>5, <2>1 DEF StreamOf
  <2>3. [StreamOf(q) EXCEPT !.running = no]
          = TokenStreamOf(q.input, q.cached, q.generated, q.eos, q.max_new, no)
    BY DEF StreamOf, TokenStreamOf
  <2>. QED BY <2>2, <2>3 DEF no
<1>7. /\ Streams' = [Streams EXCEPT ![r] = StreamOf(p)]
      /\ Streams[r] = StreamOf(reqs[r]) /\ Stream!Known(r)
  BY <1>1, <1>3, StreamReplaced
<1> HIDE DEF StreamOf
<1>. QED BY <1>6, <1>7 DEF Stream!Finish

(* add_request starts a stream.                                            *)
LEMMA AddIsNew ==
  ASSUME EngineInv, NEW n \in PromptLens, NEW max_new \in MaxNews, AddRequest(n, max_new)
  PROVE  Stream!New(n, max_new) /\ n \in 0 .. MaxLen /\ max_new \in 0 .. MaxLen
<1> DEFINE q == NewRequest(n, max_new)
           s == StreamOf(q)
<1>1. n \in Nat /\ max_new \in Nat /\ n + max_new <= MaxLen /\ reqs' = Append(reqs, q)
  BY CallerAssumption DEF AddRequest
<1>2. n \in 0 .. MaxLen /\ max_new \in 0 .. MaxLen
  BY <1>1, Bounds
<1>3. s = [len |-> n, fed |-> 0, sampled |-> 0, eos |-> FALSE, quota |-> max_new,
           running |-> max_new > 0]
  <2>1. s = TokenStreamOf(n, 0, 0, FALSE, max_new, Running(q))
    BY DEF NewRequest, StreamOf
  <2> DEFINE more == max_new > 0
  <2>2. IsFinished(q) <=> ~ more
    BY <1>1 DEF NewRequest, IsFinished
  <2>3. more \in BOOLEAN
    OBVIOUS
  <2> HIDE DEF s, q, more
  <2>4. Running(q) = more
    BY <2>2, <2>3, Zenon DEF Running
  <2>. QED BY <2>1, <2>4 DEF TokenStreamOf, more
<1>4. /\ Len(reqs) \in Nat /\ DOMAIN reqs = 1 .. Len(reqs) /\ reqs \in Seq(RequestType)
  BY CallFacts, StateFacts, RequestFields
<1>5. q \in RequestType
  BY <1>1 DEF NewRequest, RequestType, Statuses, NoTable
<1> HIDE DEF q
<1>6. /\ DOMAIN reqs' = 1 .. (Len(reqs) + 1) /\ reqs'[Len(reqs) + 1] = q
      /\ \A r \in 1 .. Len(reqs) : reqs'[r] = reqs[r]
  BY <1>1, <1>4, <1>5, AppendProperties
<1>7. Streams = [r \in 1 .. Len(reqs) |-> StreamOf(reqs[r])]
  BY <1>4 DEF Streams, StreamOf, TokenStreamOf, Running, DeviceLen
<1>8. Streams' = [r \in 1 .. (Len(reqs) + 1) |-> StreamOf(reqs'[r])]
  BY <1>6 DEF Streams, StreamOf, TokenStreamOf, Running, DeviceLen
<1> HIDE DEF StreamOf
<1> DEFINE S == {StreamOf(reqs[r]) : r \in DOMAIN reqs} \cup {s}
<1>9. Streams \in Seq(S) /\ s \in S /\ Len(Streams) = Len(reqs)
  BY <1>4, <1>7
<1> HIDE DEF S
<1>10. /\ Append(Streams, s) \in Seq(S) /\ Len(Append(Streams, s)) = Len(reqs) + 1
       /\ Append(Streams, s)[Len(reqs) + 1] = s
       /\ \A r \in 1 .. Len(reqs) : Append(Streams, s)[r] = Streams[r]
  BY <1>9, AppendProperties
<1>11. Streams' = Append(Streams, s)
  <2> DEFINE e == Append(Streams, s)
  <2>1. e = [r \in 1 .. (Len(reqs) + 1) |-> e[r]]
    <3>1. e \in Seq(S) /\ Len(e) = Len(reqs) + 1
      BY <1>10
    <3> HIDE DEF e
    <3>. QED BY <3>1
  <2>2. \A r \in 1 .. (Len(reqs) + 1) : StreamOf(reqs'[r]) = Append(Streams, s)[r]
    <3>1. SUFFICES ASSUME NEW r \in 1 .. (Len(reqs) + 1)
                   PROVE  StreamOf(reqs'[r]) = Append(Streams, s)[r]
      OBVIOUS
    <3>2. CASE r = Len(reqs) + 1
      BY <1>6, <1>10, <3>2
    <3>3. CASE r \in 1 .. Len(reqs)
      BY <1>6, <1>7, <1>10, <3>3
    <3>4. r = Len(reqs) + 1 \/ r \in 1 .. Len(reqs)
      BY <1>4
    <3>. QED BY <3>2, <3>3, <3>4
  <2>. QED BY <1>8, <2>1, <2>2
<1>. QED BY <1>2, <1>3, <1>11 DEF Stream!New

(* append_input_tokens begins a turn, unless it is refused and brings no   *)
(* tokens.                                                                 *)
LEMMA InputIsTurn ==
  ASSUME QuotaGiven, EngineInv, NEW r \in Ids, NEW n \in AppendLens,
         NEW max_new \in AppendMaxNews, AppendInput(r, n, max_new)
  PROVE  \/ UNCHANGED Streams
         \/ \E quota \in 0 .. MaxLen : n \in 0 .. MaxLen /\ Stream!Turn(r, n, quota)
<1> DEFINE q == reqs[r]
           p == AppendInputTokens(q, n)
           b == ResetGenerationOptions(p, max_new)
           z == IF max_new < 0 THEN p ELSE b
<1>1. n \in Nat /\ max_new \in Nat \cup {-1}
  BY CallerAssumption
<1>2. /\ r \in DOMAIN reqs /\ reqs' = [reqs EXCEPT ![r] = z]
      /\ p.input + (IF max_new < 0 THEN p.max_new ELSE max_new) <= MaxLen
  BY DEF AppendInput, Known, DeviceLen
<1>3. q \in RequestType /\ Counts(q)
  BY <1>2, StateFacts, CallFacts, RequestFields
<1>4. q.input \in Nat /\ q.max_new \in Nat /\ q.generated \in Nat /\ q.cached \in Nat
  BY <1>3, FieldsOf
<1>5. /\ p \in RequestType
      /\ p.input = q.input + n /\ p.cached = q.cached /\ p.max_new = q.max_new
      /\ n = 0 => p = q
      /\ n # 0 => p.generated = 0 /\ ~ IsFinished(p)
  <2> HIDE DEF q
  <2>. QED BY <1>1, <1>3, InputFields
<1>6. max_new >= 0 => /\ b.input = p.input /\ b.cached = p.cached /\ b.max_new = max_new
                      /\ b.generated = 0 /\ ~ IsFinished(b)
  <2> HIDE DEF p, q
  <2>. QED BY <1>1, <1>5, OptionsFields
<1>10. n # 0 => p.eos = FALSE
  <2>1. n # 0 => n \in Nat \ {0}
    BY <1>1
  <2> HIDE DEF q
  <2>. QED BY <1>3, <2>1, NewTurnEos
<1>11. max_new >= 0 => b.eos = FALSE
  <2>1. max_new >= 0 => max_new \in Nat
    BY <1>1
  <2> HIDE DEF p
  <2>. QED BY <1>5, <2>1, NewTurnEos
<1>7. /\ Streams' = [Streams EXCEPT ![r] = StreamOf(z)]
      /\ Streams[r] = StreamOf(q) /\ Stream!Known(r) /\ DOMAIN Streams = DOMAIN reqs
  BY <1>2, StreamReplaced
<1> HIDE DEF p, b
<1>8. CASE max_new < 0 /\ n = 0
  <2>1. reqs' = [reqs EXCEPT ![r] = q]
    BY <1>2, <1>5, <1>8
  <2> HIDE DEF q
  <2>. QED BY <1>2, <2>1, StreamKept DEF q
<1>9. CASE max_new >= 0 \/ n # 0
  <2> DEFINE quota == IF max_new < 0 THEN q.max_new ELSE max_new
  <2>1. /\ z.input = q.input + n /\ z.cached = q.cached /\ z.max_new = quota
        /\ z.generated = 0 /\ ~ IsFinished(z)
    BY <1>1, <1>5, <1>6, <1>9
  <2>7. z.eos = FALSE
    <3>1. CASE max_new < 0
      BY <1>1, <1>9, <1>10, <3>1
    <3>2. CASE ~ max_new < 0
      BY <1>1, <1>11, <3>2
    <3>. QED BY <3>1, <3>2
  <2>2. quota \in Nat /\ q.input + n + quota <= MaxLen
    BY <1>1, <1>2, <1>4, <1>5
  <2>3. n \in 0 .. MaxLen /\ quota \in 0 .. MaxLen
    BY <1>1, <1>4, <2>2, Bounds
  <2>4. quota > 0
    <3>1. CASE max_new < 0
      <4>1. -1 \in AppendMaxNews
        BY <1>1, <3>1
      <4>2. q.max_new # 0
        BY <1>3, <4>1 DEF Counts, QuotaGiven
      <4>. QED BY <1>4, <3>1, <4>2
    <3>2. CASE max_new >= 0
      <4>1. max_new # 0
        BY DEF QuotaGiven
      <4>. QED BY <1>1, <3>2, <4>1
    <3>. QED BY <1>1, <3>1, <3>2
  <2> HIDE DEF q, z, quota
  <2>5. StreamOf(z) = [StreamOf(q) EXCEPT !.len = @ + n, !.sampled = 0, !.eos = FALSE,
                                          !.quota = quota, !.running = TRUE]
    <3> DEFINE yes == TRUE
               no == FALSE
    <3>1. Running(z) = yes /\ z.eos = no
      BY <2>1, <2>7, Zenon DEF Running
    <3> HIDE DEF yes, no
    <3>2. StreamOf(z) = TokenStreamOf(q.input + n, q.cached, 0, no, quota, yes)
      BY <2>1, <3>1 DEF StreamOf
    <3> DEFINE s == StreamOf(q)
               e == [s EXCEPT !.len = q.input + n]
               f == [e EXCEPT !.sampled = 0]
               d == [f EXCEPT !.eos = no]
               g == [d EXCEPT !.quota = quota]
               h == [g EXCEPT !.running = yes]
    <3>3. e = TokenStreamOf(q.input + n, q.cached, q.generated, q.eos, q.max_new, Running(q))
      BY DEF StreamOf, TokenStreamOf
    <3> HIDE DEF e
    <3>4. f = TokenStreamOf(q.input + n, q.cached, 0, q.eos, q.max_new, Running(q))
      BY <3>3 DEF TokenStreamOf
    <3> HIDE DEF f
    <3>9. d = TokenStreamOf(q.input + n, q.cached, 0, no, q.max_new, Running(q))
      BY <3>4 DEF TokenStreamOf
    <3> HIDE DEF d
    <3>5. g = TokenStreamOf(q.input + n, q.cached, 0, no, quota, Running(q))
      BY <3>9 DEF TokenStreamOf
    <3> HIDE DEF g
    <3>6. h = TokenStreamOf(q.input + n, q.cached, 0, no, quota, yes)
      BY <3>5 DEF TokenStreamOf
    <3>7. s.len = q.input
      BY StreamFields
    <3> HIDE DEF h, s
    <3>8. [s EXCEPT !.len = @ + n, !.sampled = 0, !.eos = no, !.quota = quota, !.running = yes]
            = h
      BY <3>7 DEF h, g, d, f, e
    <3>. QED BY <3>2, <3>6, <3>8 DEF s, yes, no
  <2>6. Stream!Turn(r, n, quota)
    <3>1. Streams' = [Streams EXCEPT ![r].len = @ + n, ![r].sampled = 0, ![r].eos = FALSE,
                                     ![r].quota = quota, ![r].running = TRUE]
      <4> HIDE DEF StreamOf
      <4>. QED BY <1>2, <1>7, <2>5
    <3>. QED BY <1>7, <2>4, <3>1 DEF Stream!Turn
  <2>. QED BY <2>3, <2>6
<1>. QED BY <1>1, <1>8, <1>9

(* mark_forward_done feeds the stream.                                     *)
LEMMA MarkIsFeed ==
  ASSUME QuotaGiven, NoRepeats, EngineInv, Mark
  PROVE  \E r \in Ids, n \in 0 .. MaxLen : Stream!Feed(r, n)
<1> DEFINE r == Row.id
           q == reqs[r]
           n == Row.len
           p == MarkForwardDone(q, n)
<1>1. MayMark /\ reqs' = [reqs EXCEPT ![r] = p]
  BY DEF Mark
<1>2. /\ r \in DOMAIN reqs /\ r \in Ids /\ q \in RequestType /\ Counts(q) /\ n \in Nat \ {0}
  BY <1>1, RowFacts
<1>3. q.cached + n <= q.input /\ ~ IsFinished(q)
  BY <1>1, MarkFacts DEF Unmarked
<1>4. /\ q.input \in Nat /\ q.cached \in Nat /\ q.prompt \in Nat /\ q.generated \in Nat
      /\ q.max_new \in Nat
  BY <1>2, FieldsOf
<1>5. n \in 0 .. MaxLen
  <2>1. q.input <= q.prompt + q.max_new /\ q.prompt + q.max_new <= MaxLen
    BY <1>2, <1>4 DEF Counts, MaxDeviceLen
  <2>. QED BY <1>2, <1>3, <1>4, <2>1, Bounds
<1>6. /\ p.input = q.input /\ p.cached = q.cached + n /\ p.generated = q.generated
      /\ p.max_new = q.max_new /\ p.eos = q.eos /\ ~ IsFinished(p)
  <2> HIDE DEF q, n
  <2>. QED BY <1>2, <1>3, MarkedFields DEF IsFinished
<1>7. /\ Streams' = [Streams EXCEPT ![r] = StreamOf(p)]
      /\ Streams[r] = StreamOf(q) /\ Stream!Known(r) /\ DOMAIN Streams = DOMAIN reqs
  <2> HIDE DEF p
  <2>. QED BY <1>1, <1>2, StreamReplaced
<1> HIDE DEF p, q, r, n
<1>9. /\ StreamOf(q).running = Running(q) /\ StreamOf(q).fed = q.cached
      /\ StreamOf(q).len = q.input
  BY StreamFields
<1>8. StreamOf(p) = [StreamOf(q) EXCEPT !.fed = @ + n]
  <2>1. Running(p) = TRUE /\ Running(q) = TRUE
    BY <1>3, <1>6, Zenon DEF Running
  <2>2. StreamOf(p) = TokenStreamOf(q.input, q.cached + n, q.generated, q.eos, q.max_new,
                                    Running(q))
    BY <1>6, <2>1, Zenon DEF StreamOf
  <2>3. [StreamOf(q) EXCEPT !.fed = q.cached + n]
          = TokenStreamOf(q.input, q.cached + n, q.generated, q.eos, q.max_new, Running(q))
    BY DEF StreamOf, TokenStreamOf
  <2> HIDE DEF StreamOf
  <2>. QED BY <1>9, <2>2, <2>3
<1> HIDE DEF StreamOf
<1>10. n > 0
  BY <1>2
<1>11. Streams' = [Streams EXCEPT ![r].fed = @ + n]
  BY <1>2, <1>7, <1>8
<1>12. Stream!Feed(r, n)
  <2>1. StreamOf(q).running
    BY <1>3, <1>9, Zenon DEF Running
  <2>2. StreamOf(q).fed + n <= StreamOf(q).len
    BY <1>3, <1>9
  <2>. QED BY <1>7, <1>10, <1>11, <2>1, <2>2 DEF Stream!Feed
<1>. QED BY <1>2, <1>5, <1>12

(* append_token samples a token of the stream.                             *)
LEMMA AppendIsSample ==
  ASSUME QuotaGiven, NoRepeats, EngineInv, NEW is_eos \in BOOLEAN, AppendSampled(is_eos)
  PROVE  \E r \in Ids : Stream!Sample(r)
<1> DEFINE r == Row.id
           q == reqs[r]
           p == AppendToken(q, is_eos)
           more == ~ is_eos /\ q.generated + 1 < q.max_new
<1>1. /\ call.stage = "append" /\ q.status = "Decoding" /\ reqs' = [reqs EXCEPT ![r] = p]
  BY DEF AppendSampled, MayAppend
<1>2. /\ r \in DOMAIN reqs /\ r \in Ids /\ q \in RequestType /\ Counts(q)
  BY <1>1, RowFacts
<1>3. q.cached = q.input
  BY <1>1, CallFacts DEF RowMarked
<1>4. q.generated \in Nat /\ q.max_new \in Nat /\ q.generated < q.max_new /\ ~ IsFinished(q)
  BY <1>1, <1>2, FieldsOf DEF Counts, IsFinished
<1>5. /\ p.input = q.input + 1 /\ p.generated = q.generated + 1 /\ p.cached = q.cached
      /\ p.max_new = q.max_new /\ p.eos = is_eos
      /\ p.status = IF is_eos \/ q.generated + 1 >= q.max_new THEN "Finished" ELSE "Decoding"
  <2> HIDE DEF q
  <2>. QED BY <1>2, AppendedFields
<1>6. ~ IsFinished(p) <=> more
  BY <1>4, <1>5 DEF IsFinished
<1>7. /\ Streams' = [Streams EXCEPT ![r] = StreamOf(p)]
      /\ Streams[r] = StreamOf(q) /\ Stream!Known(r) /\ DOMAIN Streams = DOMAIN reqs
  <2> HIDE DEF p
  <2>. QED BY <1>1, <1>2, StreamReplaced
<1>13. /\ StreamOf(q).running = Running(q) /\ StreamOf(q).fed = q.cached
       /\ StreamOf(q).len = q.input /\ StreamOf(q).sampled = q.generated
       /\ StreamOf(q).quota = q.max_new
  BY StreamFields
<1>11. more \in BOOLEAN
  OBVIOUS
<1> HIDE DEF p, q, r, more
<1>8. StreamOf(p) = [StreamOf(q) EXCEPT !.len = @ + 1, !.sampled = @ + 1, !.eos = is_eos,
                                        !.running = more]
  <2>1. StreamOf(p) = TokenStreamOf(q.input + 1, q.cached, q.generated + 1, is_eos, q.max_new,
                                    more)
    <3>1. Running(p) = more
      BY <1>6, <1>11, Zenon DEF Running
    <3>. QED BY <1>5, <3>1 DEF StreamOf
  <2> DEFINE s == StreamOf(q)
             e == [s EXCEPT !.len = q.input + 1]
             f == [e EXCEPT !.sampled = q.generated + 1]
             d == [f EXCEPT !.eos = is_eos]
             g == [d EXCEPT !.running = more]
  <2>2. e = TokenStreamOf(q.input + 1, q.cached, q.generated, q.eos, q.max_new, Running(q))
    BY DEF StreamOf, TokenStreamOf
  <2> HIDE DEF e
  <2>3. f = TokenStreamOf(q.input + 1, q.cached, q.generated + 1, q.eos, q.max_new, Running(q))
    BY <2>2 DEF TokenStreamOf
  <2> HIDE DEF f
  <2>7. d = TokenStreamOf(q.input + 1, q.cached, q.generated + 1, is_eos, q.max_new, Running(q))
    BY <2>3 DEF TokenStreamOf
  <2> HIDE DEF d
  <2>4. g = TokenStreamOf(q.input + 1, q.cached, q.generated + 1, is_eos, q.max_new, more)
    BY <2>7 DEF TokenStreamOf
  <2>5. s.len = q.input /\ s.sampled = q.generated
    BY <1>13
  <2> HIDE DEF g, s
  <2>6. [s EXCEPT !.len = @ + 1, !.sampled = @ + 1, !.eos = is_eos, !.running = more] = g
    BY <2>5 DEF g, d, f, e
  <2>. QED BY <2>1, <2>4, <2>6 DEF s
<1>9. /\ StreamOf(q).running /\ StreamOf(q).fed = StreamOf(q).len
      /\ StreamOf(q).sampled = q.generated /\ StreamOf(q).quota = q.max_new
  BY <1>3, <1>4, <1>13, Zenon DEF Running
<1> HIDE DEF StreamOf
<1>10. Streams' = [Streams EXCEPT ![r].len = @ + 1, ![r].sampled = @ + 1, ![r].eos = is_eos,
                                  ![r].running = more]
  BY <1>2, <1>7, <1>8
<1>12. Stream!Sample(r)
  BY <1>4, <1>7, <1>9, <1>10 DEF Stream!Sample, more
<1>. QED BY <1>2, <1>12

(* The engine does to each request what TokenStream promises, failed calls *)
(* included, when every turn may sample a token and no batch lists a       *)
(* request twice.                                                          *)
THEOREM EngineImplementsStream ==
  ASSUME QuotaGiven, NoRepeats PROVE Spec => ImplementsStream
<1>1. Init => Stream!StreamInit
  <2>1. SUFFICES ASSUME Init PROVE Streams = << >>
    BY DEF Stream!StreamInit
  <2>2. DOMAIN reqs = {}
    BY <2>1 DEF Init
  <2>. QED BY <2>2 DEF Streams
<1>2. ASSUME EngineInv, [Next]_vars PROVE [Stream!StreamNext]_Streams
  <2>1. CASE UNCHANGED reqs
    BY <2>1 DEF Streams
  <2>2. CASE \E n \in PromptLens, max_new \in MaxNews : AddRequest(n, max_new)
    BY <1>2, <2>2, AddIsNew DEF Stream!StreamNext
  <2>3. CASE \E r \in Ids, n \in AppendLens, max_new \in AppendMaxNews : AppendInput(r, n, max_new)
    BY <1>2, <2>3, InputIsTurn DEF Stream!StreamNext
  <2>4. CASE \E r \in Ids : Release(r) \/ GenerateNothing(r)
    BY <1>2, <2>4, FinishIsFinish DEF Stream!StreamNext
  <2>5. CASE Mark
    BY <1>2, <2>5, MarkIsFeed DEF Stream!StreamNext
  <2>6. CASE \E is_eos \in BOOLEAN : AppendSampled(is_eos)
    BY <1>2, <2>6, AppendIsSample DEF Stream!StreamNext
  <2>7. CASE Reserve
    <3> DEFINE r == Wanted.id
               p == [reqs[r] EXCEPT !.table = TableFor(bt, reqs[r])]
    <3>1. /\ r \in DOMAIN reqs
          /\ p.input = reqs[r].input /\ p.cached = reqs[r].cached /\ p.status = reqs[r].status
          /\ p.generated = reqs[r].generated /\ p.max_new = reqs[r].max_new
          /\ reqs[r] \in RequestType
      BY <1>2, <2>7, ReserveTakes, CallFacts
    <3>3. p.eos = reqs[r].eos
      BY <3>1 DEF RequestType
    <3>2. reqs' = [reqs EXCEPT ![r] = p]
      BY <2>7 DEF Reserve
    <3> HIDE DEF p, r
    <3>. QED BY <3>1, <3>2, <3>3, StreamKept
  <2>8. CASE CallerStep
    BY <2>1, <2>2, <2>3, <2>4, <2>8
       DEF CallerStep, Prefill, DecodeOneStep, GenerateUntilFinished, AlreadyFinished, CallRefused,
           DecodeBatch
  <2>9. CASE EngineStep
    BY <2>1, <2>5, <2>6, <2>7, <2>9
       DEF EngineStep, ReserveSkips, ReserveRefused, ReserveTooLong, ReserveExhausted, ReserveDone,
           Forward, Sample, SampleBatch, AppendRefused
  <2>10. CASE FaultInForward \/ FaultInSample \/ UNCHANGED vars
    BY <2>1, <2>10 DEF FaultInForward, FaultInSample, vars
  <2>. QED BY <1>2, <2>8, <2>9, <2>10 DEF Next
<1>. QED BY SpecInv, <1>1, <1>2, PTL DEF Spec, ImplementsStream, Stream!StreamSpec
=============================================================================
