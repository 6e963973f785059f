-------------------------- MODULE GenerationProofs -------------------------
(***************************************************************************)
(* The three greedy generators return the same tokens, for every length of *)
(* the prompt, every quota, every position of EOS and every page size.     *)
(***************************************************************************)
EXTENDS Generation, BlockTableOpsProofs

USE GenerationAssumption, NumBlocksAssumption

-----------------------------------------------------------------------------
(* The inductive invariant.                                                *)

(* The tokens there are: the prompt and those sampled.                     *)
Tokens == job.prompt + step

(* Of these, the tokens that earlier passes fed.                           *)
FedBefore == IF step = 0 THEN 0 ELSE Tokens - 1

Stages ==
  /\ job \in Jobs /\ step \in Nat
  /\ job.kind = "paged" => stage \in {"reserve", "forward", "mark", "take", "done"}
  /\ job.kind # "paged" => stage \in {"forward", "take", "done"}

(* A call under way has the right tokens so far, none of them EOS.         *)
Output ==
  stage # "done" =>
    /\ step < job.max_new /\ out = Upto(Tokens)
    /\ job.eos \notin (job.prompt + 1) .. Tokens

(* A pass is for the next token.                                           *)
Sampled ==
  stage \in {"mark", "take"} =>
    logits = IF Tokens + 1 = job.eos THEN Eos ELSE Tokens + 1

(* The contiguous cache has room for the whole call; its rows are the      *)
(* tokens fed.                                                             *)
RowsHeld ==
  job.kind = "kv" /\ stage # "done" =>
    /\ kv \in [rows : Seq(Int), current_len : Nat, capacity : Nat]
    /\ kv.capacity = InitialCapacity(job.prompt, job.max_new)
    /\ Len(kv.rows) = kv.capacity
    /\ kv.current_len = IF stage = "take" THEN Tokens ELSE FedBefore
    /\ \A i \in 1 .. kv.current_len : kv.rows[i] = i

(* The request counts the tokens, and has a table when it needs one.       *)
RequestCounts ==
  /\ req \in RequestType
  /\ DeviceLen(req) <= MaxDeviceLen(req)
  /\ job.kind = "paged" /\ stage # "done" =>
       /\ NumBlocks = NumRequiredBlocks(InitialCapacity(job.prompt, job.max_new), PageSize)
       /\ req.prompt = job.prompt /\ req.max_new = job.max_new
       /\ req.generated = step /\ req.input = Tokens
       /\ req.cached = IF stage = "take" THEN Tokens ELSE FedBefore
       /\ stage = "take" => req.status = "Decoding"
       /\ ~ IsFinished(req)
       /\ req.table = NoTable => stage = "reserve" /\ step = 0

(* Only the request has a table, one that covers what was fed or will be.  *)
OneTable ==
  /\ WellFormed(bt)
  /\ LiveTables(bt) = IF req.table = NoTable THEN {} ELSE {req.table}
  /\ stage = "done" \/ job.kind # "paged" => req.table = NoTable
  /\ job.kind = "paged" /\ stage \notin {"reserve", "done"} =>
       Len(bt.tables[req.table]) >= NumRequiredBlocks(Tokens, PageSize)
  /\ job.kind = "paged" /\ stage = "reserve" /\ step > 0 =>
       Len(bt.tables[req.table]) >= NumRequiredBlocks(FedBefore, PageSize)

(* The slots of the tokens fed hold them.                                  *)
SlotsHeld ==
  job.kind = "paged" /\ stage # "done" =>
    /\ pool \in [Slots -> Int]
    /\ \A pos \in 0 .. ((IF stage \in {"mark", "take"} THEN Tokens ELSE FedBefore) - 1) :
         pool[SlotOf(pos)] = pos + 1

Returned == SameTokens

IndInv ==
  /\ Stages /\ Output /\ Sampled /\ Returned
  /\ RowsHeld
  /\ RequestCounts /\ OneTable /\ SlotsHeld

-----------------------------------------------------------------------------
(* Sequences of tokens.                                                    *)

(* The right tokens, and one more of them.                                 *)
LEMMA UptoSeq ==
  ASSUME NEW n \in Nat
  PROVE  /\ Upto(n) \in Seq(Int) /\ Len(Upto(n)) = n
         /\ \A i \in 1 .. n : Upto(n)[i] = i
         /\ Append(Upto(n), n + 1) = Upto(n + 1)
         /\ n > 0 => Last(Upto(n)) = n
<1>1. Upto(n) \in Seq(Int) /\ Len(Upto(n)) = n /\ \A i \in 1 .. n : Upto(n)[i] = i
  BY DEF Upto
<1>2. Append(Upto(n), n + 1) = Upto(n + 1)
  BY DEF Upto
<1>3. n > 0 => Last(Upto(n)) = n
  BY <1>1 DEF Last
<1>. QED BY <1>1, <1>2, <1>3

(* A sequence of the right tokens is Upto.                                 *)
LEMMA IsUpto ==
  ASSUME NEW n \in Nat, NEW s \in Seq(Int), Len(s) = n, \A i \in 1 .. n : s[i] = i
  PROVE  s = Upto(n)
BY DEF Upto

(* The model continues the right tokens with the next one.                 *)
LEMMA Continues ==
  ASSUME NEW n \in Nat
  PROVE  Continue(Upto(n)) = IF n + 1 = job.eos THEN Eos ELSE n + 1
BY UptoSeq DEF Continue

(* The arguments of a call.                                                *)
LEMMA JobTypes ==
  ASSUME Stages
  PROVE  /\ job.prompt \in Nat \ {0} /\ job.max_new \in Nat /\ job.eos \in Nat
         /\ job.kind \in {"plain", "kv", "paged"} /\ step \in Nat
         /\ Tokens \in Nat \ {0} /\ FedBefore \in 0 .. (Tokens - 1)
         /\ FedBefore = 0 <=> step = 0
         /\ step = 0 => Tokens = job.prompt
BY DEF Stages, Jobs, Tokens, FedBefore

(* A pass feeds the tokens that were not fed before.                       *)
LEMMA FedTokens ==
  ASSUME Stages, Output, stage # "done"
  PROVE  /\ Fed \in Seq(Int) /\ Len(Fed) = Tokens - FedBefore
         /\ \A k \in 1 .. Len(Fed) : Fed[k] = FedBefore + k
         /\ FedBefore = 0 => Fed = Upto(Tokens)
<1>1. out = Upto(Tokens) /\ Tokens \in Nat \ {0}
  BY JobTypes DEF Output
<1>2. CASE step = 0
  <2>1. Fed = Upto(Tokens) /\ FedBefore = 0
    BY <1>1, <1>2 DEF Fed, FedBefore
  <2>2. /\ Upto(Tokens) \in Seq(Int) /\ Len(Upto(Tokens)) = Tokens
        /\ \A i \in 1 .. Tokens : Upto(Tokens)[i] = i
    BY <1>1, UptoSeq
  <2>. QED BY <1>1, <2>1, <2>2
<1>3. CASE step # 0
  <2>1. Fed = <<Tokens>> /\ FedBefore = Tokens - 1
    BY <1>1, <1>3, UptoSeq DEF Fed, FedBefore
  <2>. QED BY <1>1, <1>3, <2>1, JobTypes
<1>. QED BY <1>2, <1>3

-----------------------------------------------------------------------------
(* A new request and an empty pool.                                        *)
LEMMA InitInv == Init => IndInv
<1> SUFFICES ASSUME Init PROVE IndInv
  OBVIOUS
<1>1. Stages
  BY DEF Init, Stages, Jobs
<1>2. Output /\ Sampled /\ RowsHeld /\ SlotsHeld
  BY DEF Init, Output, Sampled, RowsHeld, SlotsHeld
<1>3. Returned
  BY DEF Init, Returned, SameTokens, Greedy, Upto
<1>4. RequestCounts
  BY DEF Init, RequestCounts, NoRequest, NewRequest, RequestType, NoTable, Statuses, DeviceLen, MaxDeviceLen
<1>5. OneTable
  <2>1. WellFormed(bt) /\ LiveTables(bt) = {} /\ req.table = NoTable
    BY EmptyWellFormed DEF Init, EmptyManager, LiveTables, NoRequest, NewRequest
  <2>. QED BY <2>1 DEF OneTable, Init
<1>. QED BY <1>1, <1>2, <1>3, <1>4, <1>5 DEF IndInv

(* A call begins with caches and a request of its own.                     *)
LEMMA CallInv == ASSUME IndInv, NEW j \in Jobs, Call(j) PROVE IndInv'
<1>1. Stages'
  BY DEF Call, Stages, Jobs
<1>2. Output' /\ Sampled'
  <2>1. /\ j.prompt \in Nat \ {0} /\ j.max_new \in Nat /\ j.eos \in Nat
        /\ job' = j /\ step' = 0 /\ Tokens' = j.prompt
    BY DEF Call, Jobs, Tokens
  <2>2. stage' # "done" => j.max_new # 0
    BY DEF Call
  <2>3. out' = Upto(j.prompt) /\ stage' \notin {"mark", "take"}
    BY DEF Call
  <2>. QED BY <2>1, <2>2, <2>3 DEF Output, Sampled
<1>3. Returned'
  <2>1. /\ j.prompt \in Nat \ {0} /\ j.max_new \in Nat /\ j.eos \in Nat
        /\ job' = j /\ out' = Upto(j.prompt)
        /\ (stage' = "done" => j.max_new = 0)
    BY DEF Call, Jobs
  <2>2. CASE j.max_new = 0
    BY <2>1, <2>2 DEF Returned, SameTokens, Greedy
  <2>. QED BY <2>1, <2>2 DEF Returned, SameTokens
<1>4. RowsHeld'
  <2> SUFFICES ASSUME j.kind = "kv", stage' # "done" PROVE RowsHeld'
    BY DEF Call, RowsHeld
  <2>1. j.prompt \in Nat \ {0} /\ j.max_new \in Nat
    BY DEF Jobs
  <2> DEFINE capacity == InitialCapacity(j.prompt, j.max_new)
  <2>2. capacity \in Nat
    BY <2>1 DEF InitialCapacity
  <2>3. /\ kv' = [rows |-> [i \in 1 .. capacity |-> Unset], current_len |-> 0, capacity |-> capacity]
        /\ job' = j /\ step' = 0 /\ stage' = "forward"
    BY DEF Call
  <2> HIDE DEF capacity
  <2>4. [i \in 1 .. capacity |-> Unset] \in Seq(Int) /\ Len([i \in 1 .. capacity |-> Unset]) = capacity
    BY <2>2 DEF Unset
  <2>. QED BY <2>2, <2>3, <2>4 DEF RowsHeld, FedBefore, capacity
<1>5. RequestCounts'
  <2>1. j.prompt \in Nat \ {0} /\ j.max_new \in Nat
    BY DEF Jobs
  <2>2. req' = IF j.kind = "paged" THEN NewRequest(j.prompt, j.max_new) ELSE NewRequest(1, 0)
    BY DEF Call, NoRequest
  <2>3. req' \in RequestType /\ req'.input <= req'.prompt + req'.max_new
    BY <2>1, <2>2 DEF NewRequest, RequestType, NoTable, Statuses
  <2>4. ASSUME j.kind = "paged", stage' # "done"
        PROVE  /\ NumBlocks = NumRequiredBlocks(InitialCapacity(j.prompt, j.max_new), PageSize)
               /\ stage' = "reserve" /\ j.max_new # 0 /\ job' = j /\ step' = 0
    BY <2>4 DEF Call
  <2>. QED
    BY <2>1, <2>2, <2>3, <2>4
       DEF RequestCounts, DeviceLen, MaxDeviceLen, NewRequest, Tokens, FedBefore, IsFinished, Call
<1>6. OneTable'
  <2>1. WellFormed(bt') /\ LiveTables(bt') = {} /\ req'.table = NoTable
    BY EmptyWellFormed DEF Call, EmptyManager, LiveTables, NoRequest, NewRequest
  <2>2. stage' \notin {"mark", "take"} /\ step' = 0 /\ (job'.kind = "paged" => stage' # "forward")
    BY DEF Call
  <2>. QED BY <1>1, <2>1, <2>2 DEF OneTable, Stages
<1>7. SlotsHeld'
  <2>1. pool' \in [Slots -> Int] /\ stage' \notin {"mark", "take"} /\ FedBefore' = 0
    BY DEF Call, EmptyPool, Unset, FedBefore
  <2>. QED BY <2>1 DEF SlotsHeld
<1>. QED BY <1>1, <1>2, <1>3, <1>4, <1>5, <1>6, <1>7 DEF IndInv

-----------------------------------------------------------------------------
(* The passes.                                                             *)

(* A pass leaves the tokens sampled before it alone.                       *)
LEMMA PassOutput ==
  ASSUME IndInv, stage # "done", stage' \in {"take", "mark"}, UNCHANGED <<job, step, out>>,
         logits' = Continue(Upto(Tokens))
  PROVE  Output' /\ Sampled' /\ Returned'
<1>1. Output'
  BY DEF IndInv, Output, Tokens
<1>2. logits' = IF Tokens + 1 = job.eos THEN Eos ELSE Tokens + 1
  BY JobTypes, Continues DEF IndInv
<1>. QED BY <1>1, <1>2 DEF Sampled, Returned, SameTokens, Tokens

(* generate_greedy feeds everything again.                                 *)
LEMMA PlainInv == ASSUME IndInv, ForwardPlain PROVE IndInv'
<1>1. logits' = Continue(Upto(Tokens))
  BY DEF ForwardPlain, IndInv, Output
<1>2. Output' /\ Sampled' /\ Returned'
  BY <1>1, PassOutput DEF ForwardPlain
<1>3. Stages' /\ RowsHeld' /\ SlotsHeld'
  BY DEF ForwardPlain, IndInv, Stages, RowsHeld, SlotsHeld
<1>4. RequestCounts'
  BY DEF ForwardPlain, IndInv, RequestCounts, DeviceLen, MaxDeviceLen
<1>5. OneTable'
  BY DEF ForwardPlain, IndInv, OneTable
<1>. QED BY <1>2, <1>3, <1>4, <1>5 DEF IndInv

(* The contiguous cache: the rows fed follow those that are there.         *)
LEMMA RowsAppended ==
  ASSUME IndInv, job.kind = "kv", stage = "forward"
  PROVE  LET cache == WithRows(Fed)
         IN  /\ cache \in [rows : Seq(Int), current_len : Nat, capacity : Nat]
             /\ cache.capacity = kv.capacity /\ Len(cache.rows) = kv.capacity
             /\ cache.current_len = Tokens /\ Tokens <= kv.capacity
             /\ \A i \in 1 .. Tokens : cache.rows[i] = i
<1> DEFINE new == Fed
           rows == [i \in DOMAIN kv.rows |->
                      IF i > kv.current_len /\ i <= kv.current_len + Len(new)
                      THEN new[i - kv.current_len] ELSE kv.rows[i]]
<1>1. /\ Tokens \in Nat \ {0} /\ FedBefore \in 0 .. (Tokens - 1)
      /\ job.prompt \in Nat /\ job.max_new \in Nat /\ step \in Nat
  BY JobTypes DEF IndInv
<1>2. /\ new \in Seq(Int) /\ Len(new) = Tokens - FedBefore
      /\ \A k \in 1 .. Len(new) : new[k] = FedBefore + k
  BY FedTokens DEF IndInv
<1>3. /\ kv \in [rows : Seq(Int), current_len : Nat, capacity : Nat]
      /\ kv.capacity = job.prompt + job.max_new /\ Len(kv.rows) = kv.capacity
      /\ kv.current_len = FedBefore
      /\ \A i \in 1 .. FedBefore : kv.rows[i] = i
  BY DEF IndInv, RowsHeld, InitialCapacity
<1>4. Tokens <= kv.capacity
  BY <1>1, <1>3 DEF IndInv, Output, Tokens
<1>5. kv.current_len + Len(new) = Tokens
  BY <1>1, <1>2, <1>3
<1>6. Room(Len(new)) = kv
  BY <1>4, <1>5 DEF Room
<1>7. WithRows(new) = [kv EXCEPT !.rows = rows, !.current_len = Tokens]
  BY <1>5, <1>6 DEF WithRows
<1> HIDE DEF new
<1>8. DOMAIN kv.rows = 1 .. kv.capacity /\ kv.capacity \in Nat
  BY <1>3
<1>9. ASSUME NEW i \in 1 .. kv.capacity
      PROVE  rows[i] \in Int /\ (i <= Tokens => rows[i] = i)
  <2>1. kv.rows[i] \in Int
    BY <1>3, <1>8
  <2>2. CASE i > FedBefore /\ i <= Tokens
    <3>1. i - FedBefore \in 1 .. Len(new)
      BY <1>1, <1>2, <2>2
    <3>2. new[i - FedBefore] = i
      BY <1>1, <1>2, <3>1
    <3>. QED BY <1>3, <1>5, <1>8, <2>2, <3>2
  <2>3. CASE ~ (i > FedBefore /\ i <= Tokens)
    <3>1. rows[i] = kv.rows[i]
      BY <1>3, <1>5, <1>8, <2>3
    <3>2. i <= Tokens => i \in 1 .. FedBefore
      BY <1>1, <2>3
    <3>. QED BY <1>3, <2>1, <3>1, <3>2
  <2>. QED BY <2>2, <2>3
<1>10. rows \in Seq(Int) /\ Len(rows) = kv.capacity
  <2>1. rows \in [1 .. kv.capacity -> Int]
    BY <1>8, <1>9
  <2>. QED BY <1>8, <2>1
<1> HIDE DEF rows
<1>11. \A i \in 1 .. Tokens : rows[i] = i
  BY <1>1, <1>4, <1>8, <1>9
<1>12. /\ WithRows(new).rows = rows /\ WithRows(new).current_len = Tokens
       /\ WithRows(new).capacity = kv.capacity
       /\ WithRows(new) \in [rows : Seq(Int), current_len : Nat, capacity : Nat]
  BY <1>1, <1>3, <1>7, <1>10
<1>. QED BY <1>4, <1>10, <1>11, <1>12 DEF new

(* The pass over the contiguous cache attends to all tokens.               *)
LEMMA KVInv == ASSUME IndInv, ForwardKV PROVE IndInv'
<1> DEFINE cache == WithRows(Fed)
<1>1. job.kind = "kv" /\ stage = "forward" /\ kv' = cache /\ stage' = "take"
      /\ UNCHANGED <<job, step, out, req, bt, pool>>
  BY DEF ForwardKV
<1>2. /\ cache \in [rows : Seq(Int), current_len : Nat, capacity : Nat]
      /\ cache.capacity = kv.capacity /\ Len(cache.rows) = kv.capacity
      /\ cache.current_len = Tokens /\ Tokens <= kv.capacity
      /\ \A i \in 1 .. Tokens : cache.rows[i] = i
  BY <1>1, RowsAppended
<1>3. logits' = Continue(IF kv.current_len = 0 THEN Fed
                         ELSE SubSeq(cache.rows, 1, cache.current_len))
  BY DEF ForwardKV
<1> HIDE DEF cache
<1>4. Tokens \in Nat \ {0} /\ kv.capacity \in Nat /\ kv.current_len = FedBefore
      /\ kv.capacity = InitialCapacity(job.prompt, job.max_new)
  BY <1>1, JobTypes DEF IndInv, RowsHeld
<1>5. SubSeq(cache.rows, 1, Tokens) = Upto(Tokens)
  <2>1. cache.rows \in Seq(Int)
    BY <1>2
  <2>2. SubSeq(cache.rows, 1, Tokens) \in Seq(Int) /\ Len(SubSeq(cache.rows, 1, Tokens)) = Tokens
    BY <1>2, <1>4, <2>1
  <2>3. \A i \in 1 .. Tokens : SubSeq(cache.rows, 1, Tokens)[i] = i
    BY <1>2, <1>4, <2>1, <2>2
  <2>. QED BY <1>4, <2>2, <2>3, IsUpto
<1>6. FedBefore = 0 => Fed = Upto(Tokens)
  BY <1>1, FedTokens DEF IndInv
<1>7. logits' = Continue(Upto(Tokens))
  BY <1>2, <1>3, <1>4, <1>5, <1>6
<1>8. Output' /\ Sampled' /\ Returned'
  BY <1>1, <1>7, PassOutput
<1>9. RowsHeld'
  BY <1>1, <1>2, <1>4 DEF RowsHeld, Tokens
<1>10. Stages' /\ SlotsHeld' /\ RequestCounts' /\ OneTable'
  BY <1>1 DEF IndInv, Stages, SlotsHeld, RequestCounts, DeviceLen, MaxDeviceLen, OneTable
<1>. QED BY <1>8, <1>9, <1>10 DEF IndInv

(* The paged request has the blocks of the next pass: all but its own are  *)
(* free, and the pool has the blocks of the longest request.               *)
LEMMA BlocksThere ==
  ASSUME IndInv, stage = "reserve"
  PROVE  /\ BlocksSuffice(bt, req, Tokens, PageSize)
         /\ req.table # NoTable => IsTableUsed(bt, req.table)
<1> DEFINE m == WithTable(bt, req)
           t == TableFor(bt, req)
           r == NumRequiredBlocks(Tokens, PageSize)
<1>1. job.kind = "paged" /\ Tokens \in Nat /\ Tokens <= job.prompt + job.max_new
      /\ job.prompt + job.max_new \in Nat
  BY JobTypes DEF IndInv, Stages, Output, Tokens
<1>2. /\ WellFormed(bt) /\ req \in RequestType
      /\ LiveTables(bt) = IF req.table = NoTable THEN {} ELSE {req.table}
      /\ NumBlocks = NumRequiredBlocks(job.prompt + job.max_new, PageSize)
  BY <1>1 DEF IndInv, OneTable, RequestCounts, InitialCapacity
<1>3. req.table # NoTable => IsTableUsed(bt, req.table)
  <2>1. req.table # NoTable => req.table \in LiveTables(bt)
    BY <1>2
  <2>. QED BY <2>1 DEF LiveTables, IsTableUsed
<1>4. /\ WellFormed(m) /\ IsTableUsed(m, t) /\ LiveTables(m) = LiveTables(bt) \cup {t}
      /\ (req.table # NoTable => t = req.table)
  BY <1>2, <1>3, TakesTable
<1>5. LiveTables(m) = {t}
  BY <1>2, <1>4
<1>6. r \in Nat /\ r <= NumBlocks
  BY <1>1, <1>2, RequiredMonotone
<1> HIDE DEF m, t, r
<1>7. Len(m.free_blocks) = NumBlocks - Len(m.tables[t])
  BY <1>4, <1>5, FreeWithOne
<1>8. Len(m.tables[t]) \in Nat
  BY <1>4, <1>5, TableCounted
<1>9. EnsureReturns(m, t, r)
  <2>1. NeedBlocks(m, t, r) = r - Len(m.tables[t])
    BY DEF NeedBlocks
  <2> DEFINE had  == Len(m.tables[t])
             free == Len(m.free_blocks)
  <2>2. had \in Nat /\ free = NumBlocks - had
    BY <1>7, <1>8
  <2> HIDE DEF had, free
  <2>3. r - had <= free
    BY <1>6, <2>2
  <2>4. HasFreeBlocks(m, NeedBlocks(m, t, r))
    BY <2>1, <2>3 DEF HasFreeBlocks, had, free
  <2>. QED BY <1>4, <2>4 DEF EnsureReturns
<1>. QED BY <1>3, <1>9 DEF BlocksSuffice, m, t, r

(* What the tokens fed before a pass are in their slots for.               *)
LEMMA SlotsMapped ==
  ASSUME IndInv, job.kind = "paged", stage # "done", req.table # NoTable, NEW n \in Nat,
         Len(bt.tables[req.table]) >= NumRequiredBlocks(n, PageSize)
  PROVE  /\ WellFormed(bt) /\ req.table \in LiveTables(bt)
         /\ \A pos \in 0 .. (n - 1) : IsMapped(bt, req.table, pos, PageSize)
<1>1. WellFormed(bt) /\ req.table \in LiveTables(bt)
  BY DEF IndInv, OneTable
<1>2. Len(bt.tables[req.table]) \in Nat
  BY <1>1, TableCounted
<1>3. ASSUME NEW pos \in 0 .. (n - 1) PROVE IsMapped(bt, req.table, pos, PageSize)
  <2>1. NumRequiredBlocks(n, PageSize) \in Nat
    BY RequiredMonotone
  <2>2. pos \div PageSize \in Nat /\ pos \div PageSize < NumRequiredBlocks(n, PageSize)
    BY RequiredCovers
  <2>3. pos \in Nat
    OBVIOUS
  <2>. QED BY <1>1, <1>2, <2>1, <2>2, <2>3 DEF IsMapped, LiveTables, IsTableUsed
<1>. QED BY <1>1, <1>3

(* ensure_device_blocks: tokens in the cache stay in their slots.          *)
LEMMA ReserveInv == ASSUME IndInv, ReservePaged PROVE IndInv'
<1> DEFINE t == TableFor(bt, req)
<1>1. /\ stage = "reserve" /\ stage' = "forward" /\ job.kind = "paged"
      /\ UNCHANGED <<job, step, out, logits, kv, pool>>
      /\ DeviceLen(req) = Tokens /\ Tokens \in Nat \ {0} /\ step \in Nat
  BY JobTypes DEF ReservePaged, IndInv, Stages, RequestCounts, DeviceLen
<1>2. req' = [req EXCEPT !.table = t] /\ bt' = WithBlocks(bt, req, Tokens, PageSize)
  BY <1>1 DEF ReservePaged
<1>3. /\ BlocksSuffice(bt, req, Tokens, PageSize)
      /\ req.table # NoTable => IsTableUsed(bt, req.table)
  BY <1>1, BlocksThere
<1>4. /\ WellFormed(bt) /\ req \in RequestType
      /\ LiveTables(bt) = IF req.table = NoTable THEN {} ELSE {req.table}
  BY DEF IndInv, OneTable, RequestCounts
<1>5. /\ WellFormed(bt') /\ t \in Nat \ {0} /\ LiveTables(bt') = LiveTables(bt) \cup {t}
      /\ KeepsTables(bt, bt')
      /\ Len(bt'.tables[t]) = IF (IF req.table = NoTable THEN 0 ELSE Len(bt.tables[t]))
                                   >= NumRequiredBlocks(Tokens, PageSize)
                              THEN (IF req.table = NoTable THEN 0 ELSE Len(bt.tables[t]))
                              ELSE NumRequiredBlocks(Tokens, PageSize)
  BY <1>1, <1>2, <1>3, <1>4, TakesBlocks
<1>6. req.table # NoTable => t = req.table /\ Len(bt.tables[t]) \in Nat
  BY <1>4, TableCounted DEF TableFor
<1> HIDE DEF t
<1>7. NumRequiredBlocks(Tokens, PageSize) \in Nat
  BY <1>1, RequiredMonotone
<1>8. /\ req'.table = t /\ req' \in RequestType /\ req'.prompt = req.prompt
      /\ req'.max_new = req.max_new /\ req'.generated = req.generated /\ req'.input = req.input
      /\ req'.cached = req.cached /\ req'.status = req.status
  BY <1>2, <1>4, <1>5 DEF RequestType
<1>9. LiveTables(bt') = {t} /\ t # NoTable
  BY <1>4, <1>5, <1>6 DEF NoTable
<1>10. OneTable'
  <2>1. Len(bt'.tables[t]) >= NumRequiredBlocks(Tokens, PageSize)
    BY <1>5, <1>6, <1>7
  <2>. QED BY <1>1, <1>5, <1>8, <1>9, <2>1 DEF OneTable, Tokens
<1>11. RequestCounts'
  BY <1>1, <1>8, <1>9 DEF IndInv, RequestCounts, DeviceLen, MaxDeviceLen, IsFinished, Tokens, FedBefore
<1>12. Stages' /\ Output' /\ Sampled' /\ Returned'
  BY <1>1 DEF IndInv, Stages, Output, Sampled, Returned, SameTokens, Tokens
<1>13. RowsHeld'
  BY <1>1 DEF RowsHeld
<1>14. SlotsHeld'
  <2>1. pool' \in [Slots -> Int] /\ FedBefore \in Nat
    BY <1>1, JobTypes DEF IndInv, SlotsHeld
  <2>2. ASSUME NEW pos \in 0 .. (FedBefore - 1) PROVE pool'[SlotOf(pos)'] = pos + 1
    <3>1. step > 0 /\ FedBefore > 0
      BY <2>1, <2>2, <1>1 DEF FedBefore
    <3>2. req.table # NoTable /\ Len(bt.tables[req.table]) >= NumRequiredBlocks(FedBefore, PageSize)
      BY <1>1, <3>1 DEF IndInv, RequestCounts, OneTable
    <3>3. req.table \in LiveTables(bt) /\ IsMapped(bt, req.table, pos, PageSize)
      BY <1>1, <2>1, <3>2, SlotsMapped
    <3>4. req.table \in LiveTables(bt') /\ pos \in Nat
      BY <1>6, <1>9, <2>1, <3>2
    <3>5. PhysicalTokenIndex(bt', req.table, pos, PageSize) = PhysicalTokenIndex(bt, req.table, pos, PageSize)
      BY <1>4, <1>5, <3>3, <3>4, SlotKept
    <3>6. SlotOf(pos)' = SlotOf(pos)
      BY <1>6, <1>8, <3>2, <3>5 DEF SlotOf
    <3>7. pool[SlotOf(pos)] = pos + 1
      BY <1>1 DEF IndInv, SlotsHeld
    <3>. QED BY <1>1, <3>6, <3>7
  <2>3. FedBefore' = FedBefore
    BY <1>1 DEF FedBefore, Tokens
  <2>. QED BY <1>1, <2>1, <2>2, <2>3 DEF SlotsHeld
<1>. QED BY <1>10, <1>11, <1>12, <1>13, <1>14 DEF IndInv

(* The paged pass writes the tokens fed to slots of their own and attends  *)
(* to all tokens.                                                          *)
LEMMA SlotsWritten ==
  ASSUME IndInv, job.kind = "paged", stage = "forward"
  PROVE  /\ WithSlots(Fed) \in [Slots -> Int]
         /\ \A pos \in 0 .. (Tokens - 1) : WithSlots(Fed)[SlotOf(pos)] = pos + 1
<1> DEFINE new == Fed
<1>1. Tokens \in Nat \ {0} /\ FedBefore \in 0 .. (Tokens - 1)
  BY JobTypes DEF IndInv
<1>2. /\ new \in Seq(Int) /\ Len(new) = Tokens - FedBefore
      /\ \A k \in 1 .. Len(new) : new[k] = FedBefore + k
  BY FedTokens DEF IndInv
<1>3. /\ pool \in [Slots -> Int] /\ req.cached = FedBefore
      /\ \A pos \in 0 .. (FedBefore - 1) : pool[SlotOf(pos)] = pos + 1
  BY DEF IndInv, SlotsHeld, RequestCounts
<1>4. /\ WellFormed(bt) /\ req.table \in LiveTables(bt)
      /\ \A pos \in 0 .. (Tokens - 1) : IsMapped(bt, req.table, pos, PageSize)
  <2>1. req.table # NoTable /\ Len(bt.tables[req.table]) >= NumRequiredBlocks(Tokens, PageSize)
    BY DEF IndInv, RequestCounts, OneTable
  <2>. QED BY <1>1, <2>1, SlotsMapped
<1>5. ASSUME NEW i \in 0 .. (Tokens - 1), NEW j \in 0 .. (Tokens - 1)
      PROVE  SlotOf(i) \in Slots /\ (SlotOf(i) = SlotOf(j) => i = j)
  <2>1. i \in Nat /\ j \in Nat
    BY <1>1
  <2>. QED BY <1>4, <2>1, PhysicalInjective DEF SlotOf, Slots
<1> HIDE DEF new
<1>6. DOMAIN new = 1 .. Len(new) /\ Len(new) \in Nat
  BY <1>2
<1> DEFINE Lands(k, s) == SlotOf(req.cached + k - 1) = s
           pick(s) == CHOOSE k \in DOMAIN new : Lands(k, s)
<1>7. WithSlots(new) = [s \in Slots |-> IF \E k \in DOMAIN new : Lands(k, s)
                                        THEN new[pick(s)] ELSE pool[s]]
  BY DEF WithSlots
<1>8. ASSUME NEW s, \E k \in DOMAIN new : Lands(k, s)
      PROVE  pick(s) \in DOMAIN new /\ SlotOf(FedBefore + pick(s) - 1) = s
  BY <1>3, <1>8
<1> HIDE DEF pick
<1>9. WithSlots(new) \in [Slots -> Int]
  <2>1. ASSUME NEW k \in DOMAIN new PROVE new[k] \in Int
    BY <1>2
  <2>2. ASSUME NEW s \in Slots PROVE pool[s] \in Int
    BY <1>3
  <2>. QED BY <1>7, <1>8, <2>1, <2>2
<1>10. ASSUME NEW pos \in 0 .. (Tokens - 1) PROVE WithSlots(new)[SlotOf(pos)] = pos + 1
  <2> DEFINE s == SlotOf(pos)
  <2>1. s \in Slots
    BY <1>5
  <2>2. ASSUME NEW k \in DOMAIN new
        PROVE  FedBefore + k - 1 \in 0 .. (Tokens - 1) /\ FedBefore + k - 1 >= FedBefore
    BY <1>1, <1>2, <1>6
  <2>3. CASE pos >= FedBefore
    <3>1. pos - FedBefore + 1 \in DOMAIN new
      BY <1>1, <1>2, <1>6, <2>3
    <3>2. FedBefore + (pos - FedBefore + 1) - 1 = pos
      BY <1>1
    <3>3. Lands(pos - FedBefore + 1, s)
      BY <1>3, <3>2
    <3>4. \E k \in DOMAIN new : Lands(k, s)
      BY <3>1, <3>3
    <3>5. pick(s) \in DOMAIN new /\ SlotOf(FedBefore + pick(s) - 1) = SlotOf(pos)
      BY <1>8, <3>4
    <3>6. FedBefore + pick(s) - 1 = pos
      BY <1>5, <2>2, <3>5
    <3>7. new[pick(s)] = FedBefore + pick(s)
      BY <1>2, <1>6, <3>5
    <3>8. WithSlots(new)[s] = new[pick(s)]
      BY <1>7, <2>1, <3>4
    <3>. QED BY <1>1, <1>6, <3>5, <3>6, <3>7, <3>8
  <2>4. CASE pos < FedBefore
    <3>1. ~ \E k \in DOMAIN new : Lands(k, s)
      <4>1. ASSUME NEW k \in DOMAIN new, Lands(k, s) PROVE FALSE
        <5>1. SlotOf(FedBefore + k - 1) = SlotOf(pos)
          BY <1>3, <4>1
        <5>2. FedBefore + k - 1 = pos
          BY <1>5, <2>2, <5>1
        <5>. QED BY <1>1, <2>2, <2>4, <5>2
      <4>. QED BY <4>1
    <3>2. WithSlots(new)[s] = pool[s]
      BY <1>7, <2>1, <3>1
    <3>. QED BY <1>1, <1>3, <2>4, <3>2
  <2>. QED BY <1>1, <2>3, <2>4
<1>. QED BY <1>9, <1>10 DEF new

(* The paged pass.                                                         *)
LEMMA PagedInv == ASSUME IndInv, ForwardPaged PROVE IndInv'
<1>1. /\ job.kind = "paged" /\ stage = "forward" /\ stage' = "mark"
      /\ pool' = WithSlots(Fed) /\ UNCHANGED <<job, step, out, kv, req, bt>>
  BY DEF ForwardPaged
<1>2. /\ Tokens \in Nat \ {0} /\ FedBefore \in 0 .. (Tokens - 1) /\ req.cached = FedBefore
      /\ Len(Fed) = Tokens - FedBefore /\ (FedBefore = 0 => Fed = Upto(Tokens))
  BY <1>1, JobTypes, FedTokens DEF IndInv, RequestCounts
<1>3. /\ pool' \in [Slots -> Int]
      /\ \A pos \in 0 .. (Tokens - 1) : pool'[SlotOf(pos)] = pos + 1
  BY <1>1, SlotsWritten
<1> DEFINE seen == [i \in 1 .. (req.cached + Len(Fed)) |-> pool'[SlotOf(i - 1)]]
<1>4. logits' = Continue(IF req.cached = 0 THEN Fed ELSE seen)
  BY DEF ForwardPaged
<1>5. seen = Upto(Tokens)
  <2>1. req.cached + Len(Fed) = Tokens
    BY <1>2
  <2>2. ASSUME NEW i \in 1 .. Tokens PROVE pool'[SlotOf(i - 1)] = i
    <3>1. i - 1 \in 0 .. (Tokens - 1)
      BY <1>2
    <3>2. pool'[SlotOf(i - 1)] = (i - 1) + 1
      BY <1>3, <3>1
    <3>. QED BY <3>2
  <2>3. seen = [i \in 1 .. Tokens |-> pool'[SlotOf(i - 1)]]
    BY <2>1
  <2>. QED BY <2>2, <2>3 DEF Upto
<1> HIDE DEF seen
<1>6. logits' = Continue(Upto(Tokens))
  BY <1>2, <1>4, <1>5
<1>7. Output' /\ Sampled' /\ Returned'
  BY <1>1, <1>6, PassOutput
<1>8. SlotsHeld'
  <2>1. \A pos : SlotOf(pos)' = SlotOf(pos)
    BY <1>1 DEF SlotOf
  <2>2. Tokens' = Tokens
    BY <1>1 DEF Tokens
  <2>. QED BY <1>1, <1>3, <2>1, <2>2 DEF SlotsHeld
<1>9. Stages' /\ RowsHeld'
  BY <1>1 DEF IndInv, Stages, RowsHeld
<1>10. RequestCounts'
  BY <1>1 DEF IndInv, RequestCounts, DeviceLen, MaxDeviceLen, Tokens, FedBefore
<1>11. OneTable'
  BY <1>1 DEF IndInv, OneTable, Tokens
<1>. QED BY <1>7, <1>8, <1>9, <1>10, <1>11 DEF IndInv

(* mark_forward_done.                                                      *)
LEMMA MarkInv == ASSUME IndInv, MarkPaged PROVE IndInv'
<1>1. /\ stage = "mark" /\ stage' = "take" /\ req' = MarkAllForwardDone(req)
      /\ UNCHANGED <<job, step, out, logits, kv, bt, pool>>
  BY DEF MarkPaged
<1>2. /\ job.kind = "paged" /\ job.prompt \in Nat \ {0} /\ job.max_new \in Nat /\ step \in Nat
      /\ step < job.max_new
  BY <1>1, JobTypes DEF IndInv, Stages, Output
<1>3. /\ req \in RequestType /\ req.prompt = job.prompt /\ req.max_new = job.max_new
      /\ req.generated = step /\ req.input = job.prompt + step
      /\ ~ IsFinished(req) /\ req.table # NoTable
  BY <1>1, <1>2 DEF IndInv, RequestCounts, Tokens
<1>4. req' = [req EXCEPT !.cached = job.prompt + step, !.status = "Decoding"]
  <2>1. ~ (MaxDeviceLen(req) - DeviceLen(req) <= 0)
    BY <1>2, <1>3 DEF DeviceLen, MaxDeviceLen
  <2>2. DeviceLen(req) = job.prompt + step
    BY <1>3 DEF DeviceLen
  <2>. QED BY <1>1, <1>3, <2>1, <2>2 DEF MarkAllForwardDone
<1>5. /\ req' \in RequestType /\ req'.table = req.table /\ req'.prompt = req.prompt
      /\ req'.max_new = req.max_new /\ req'.generated = req.generated /\ req'.input = req.input
      /\ req'.cached = job.prompt + step /\ req'.status = "Decoding"
  BY <1>2, <1>3, <1>4 DEF RequestType, Statuses
<1>6. RequestCounts'
  BY <1>1, <1>2, <1>3, <1>5
     DEF IndInv, RequestCounts, DeviceLen, MaxDeviceLen, IsFinished, Tokens
<1>7. OneTable'
  BY <1>1, <1>5 DEF IndInv, OneTable, Tokens
<1>8. SlotsHeld'
  <2>1. \A pos : SlotOf(pos)' = SlotOf(pos)
    BY <1>1, <1>5 DEF SlotOf
  <2>. QED BY <1>1, <2>1 DEF IndInv, SlotsHeld, Tokens
<1>9. Stages' /\ Output' /\ Sampled' /\ Returned'
  BY <1>1 DEF IndInv, Stages, Output, Sampled, Returned, SameTokens, Tokens
<1>10. RowsHeld'
  BY <1>1, <1>2 DEF RowsHeld
<1>. QED BY <1>6, <1>7, <1>8, <1>9, <1>10 DEF IndInv

-----------------------------------------------------------------------------
(* The sampled token.                                                      *)

(* What is sampled is EOS or the next token.                               *)
LEMMA NextToken ==
  ASSUME IndInv, stage = "take"
  PROVE  /\ step < job.max_new /\ out = Upto(Tokens)
         /\ job.eos \notin (job.prompt + 1) .. Tokens
         /\ Stops <=> Tokens + 1 = job.eos
         /\ ~ Stops => logits = Tokens + 1
<1>1. Tokens \in Nat \ {0} /\ job.eos \in Nat
  BY JobTypes DEF IndInv
<1>2. logits = IF Tokens + 1 = job.eos THEN Eos ELSE Tokens + 1
  BY DEF IndInv, Sampled
<1>3. Stops <=> Tokens + 1 = job.eos
  BY <1>1, <1>2 DEF Stops, Eos
<1>4. ~ Stops => logits = Tokens + 1
  BY <1>2, <1>3
<1>. QED BY <1>3, <1>4 DEF IndInv, Output

(* The request gives its table back and no table is left.                  *)
LEMMA GivesAllBack ==
  ASSUME IndInv
  PROVE  WellFormed(WithoutTable(bt, req)) /\ LiveTables(WithoutTable(bt, req)) = {}
<1>1. /\ WellFormed(bt) /\ req \in RequestType
      /\ LiveTables(bt) = IF req.table = NoTable THEN {} ELSE {req.table}
  BY DEF IndInv, OneTable, RequestCounts
<1>2. req.table # NoTable => IsTableUsed(bt, req.table)
  <2>1. req.table # NoTable => req.table \in LiveTables(bt)
    BY <1>1
  <2>. QED BY <2>1 DEF LiveTables, IsTableUsed
<1>3. /\ WellFormed(WithoutTable(bt, req))
      /\ LiveTables(WithoutTable(bt, req)) = LiveTables(bt) \ {req.table}
  BY <1>1, <1>2, GivesBack
<1>. QED BY <1>1, <1>3

(* EOS: what was generated before it is returned.                          *)
LEMMA StopInv == ASSUME IndInv, StopAfterPrefill \/ StopInLoop PROVE IndInv'
<1>1. /\ stage = "take" /\ Stops /\ stage' = "done"
      /\ req' = [FinishRequest(req) EXCEPT !.table = NoTable]
      /\ bt' = WithoutTable(bt, req) /\ UNCHANGED <<job, step, out, logits, kv, pool>>
  BY DEF StopAfterPrefill, StopInLoop, FinishAndRelease
<1>2. /\ Tokens \in Nat \ {0} /\ job.eos \in Nat /\ job.prompt \in Nat \ {0}
      /\ job.max_new \in Nat /\ step \in Nat
  BY JobTypes DEF IndInv
<1>3. step < job.max_new /\ out = Upto(Tokens) /\ Tokens + 1 = job.eos
  BY <1>1, NextToken
<1>4. Returned'
  <2>1. job.eos \in (job.prompt + 1) .. (job.prompt + job.max_new)
    BY <1>2, <1>3 DEF Tokens
  <2>2. job.eos - 1 = Tokens
    BY <1>2, <1>3
  <2>3. Greedy = Upto(Tokens)
    BY <2>1, <2>2 DEF Greedy
  <2>4. Greedy' = Greedy
    BY <1>1 DEF Greedy
  <2>. QED BY <1>1, <1>3, <2>3, <2>4 DEF Returned, SameTokens
<1>5. req \in RequestType /\ DeviceLen(req) <= MaxDeviceLen(req)
  BY DEF IndInv, RequestCounts
<1>6. req' = [req EXCEPT !.status = "Finished", !.table = NoTable]
  BY <1>1 DEF FinishRequest
<1>7. /\ req' \in RequestType /\ req'.table = NoTable /\ req'.input = req.input
      /\ req'.prompt = req.prompt /\ req'.max_new = req.max_new
  BY <1>5, <1>6 DEF RequestType, Statuses, NoTable
<1>8. RequestCounts'
  BY <1>1, <1>5, <1>7 DEF RequestCounts, DeviceLen, MaxDeviceLen
<1>9. OneTable'
  BY <1>1, <1>7, GivesAllBack DEF OneTable
<1>10. Stages' /\ Output' /\ Sampled' /\ RowsHeld' /\ SlotsHeld'
  BY <1>1 DEF IndInv, Stages, Output, Sampled, RowsHeld, SlotsHeld
<1>. QED BY <1>4, <1>8, <1>9, <1>10 DEF IndInv

(* Another token: the call goes on, or returns all it was asked for.       *)
LEMMA KeepInv == ASSUME IndInv, Keep PROVE IndInv'
<1> DEFINE q == AppendToken(req, FALSE)
<1>1. /\ stage = "take" /\ ~ Stops /\ out' = Append(out, logits) /\ step' = step + 1
      /\ UNCHANGED <<job, logits, kv, pool>>
  BY DEF Keep
<1>2. /\ Tokens \in Nat \ {0} /\ job.eos \in Nat /\ job.prompt \in Nat \ {0}
      /\ job.max_new \in Nat /\ step \in Nat /\ job.kind \in {"plain", "kv", "paged"}
      /\ Tokens = job.prompt + step
  BY JobTypes DEF IndInv, Tokens
<1>3. /\ step < job.max_new /\ out = Upto(Tokens) /\ job.eos \notin (job.prompt + 1) .. Tokens
      /\ Tokens + 1 # job.eos /\ logits = Tokens + 1
  BY <1>1, NextToken
<1>4. /\ Tokens' = Tokens + 1 /\ FedBefore' = Tokens
      /\ out' = Upto(Tokens + 1) /\ job.eos \notin (job.prompt + 1) .. (Tokens + 1)
  <2>1. Tokens' = Tokens + 1 /\ FedBefore' = Tokens
    BY <1>1, <1>2 DEF Tokens, FedBefore
  <2>2. Append(Upto(Tokens), Tokens + 1) = Upto(Tokens + 1)
    BY <1>2, UptoSeq
  <2>. QED BY SMTT(30), <1>1, <1>2, <1>3, <2>1, <2>2
<1> DEFINE st == IF req.generated + 1 >= req.max_new THEN "Finished" ELSE "Decoding"
<1>5. q = [req EXCEPT !.input = req.input + 1, !.generated = req.generated + 1, !.eos = FALSE,
                      !.status = st]
  BY DEF AppendToken
<1>6. req \in RequestType /\ st \in Statuses
  BY DEF IndInv, RequestCounts, Statuses
<1> HIDE DEF q, st
<1>7. /\ q \in RequestType /\ q.table = req.table /\ q.prompt = req.prompt
      /\ q.max_new = req.max_new /\ q.generated = req.generated + 1 /\ q.input = req.input + 1
      /\ q.cached = req.cached /\ q.status = st
  <2>1. /\ req.input + 1 \in Nat /\ req.generated + 1 \in Nat
        /\ req = [input |-> req.input, generated |-> req.generated, eos |-> req.eos,
                  prompt |-> req.prompt, cached |-> req.cached,
                  max_new |-> req.max_new, table |-> req.table, status |-> req.status]
    BY <1>6 DEF RequestType
  <2>2. q = [input |-> req.input + 1, generated |-> req.generated + 1, eos |-> FALSE,
             prompt |-> req.prompt, cached |-> req.cached, max_new |-> req.max_new,
             table |-> req.table, status |-> st]
    BY <1>5, <2>1
  <2>. QED BY <1>6, <2>1, <2>2 DEF RequestType
<1>8. ASSUME job.kind = "paged"
      PROVE  /\ req.prompt = job.prompt /\ req.max_new = job.max_new /\ req.generated = step
             /\ req.input = Tokens /\ req.cached = Tokens /\ req.table # NoTable
             /\ NumBlocks = NumRequiredBlocks(InitialCapacity(job.prompt, job.max_new), PageSize)
  BY <1>1, <1>8 DEF IndInv, RequestCounts
<1>9. Returned' \/ stage' # "done"
  <2> SUFFICES ASSUME stage' = "done" PROVE Returned'
    OBVIOUS
  <2>1. ~ More
    <3>1. job.kind = "paged" => (IsFinished(q) => ~ More)
      BY <1>2, <1>7, <1>8 DEF IsFinished, More, st
    <3>. QED BY <3>1 DEF Keep, q
  <2>2. Tokens + 1 = job.prompt + job.max_new
    BY <1>2, <1>3, <2>1 DEF More
  <2>3. Greedy = Upto(Tokens + 1)
    BY <1>4, <2>2 DEF Greedy
  <2>4. Greedy' = Greedy
    BY <1>1 DEF Greedy
  <2>. QED BY <1>4, <2>3, <2>4 DEF Returned, SameTokens
<1>10. CASE job.kind # "paged" /\ More
  <2>1. stage' = "forward" /\ UNCHANGED <<req, bt>> /\ step + 1 < job.max_new
    BY <1>10 DEF Keep, More
  <2>2. Stages' /\ Output' /\ Sampled' /\ Returned' /\ SlotsHeld'
    BY <1>1, <1>2, <1>4, <1>10, <2>1
       DEF IndInv, Stages, Output, Sampled, Returned, SameTokens, SlotsHeld
  <2>3. RowsHeld'
    BY <1>1, <1>4, <2>1 DEF IndInv, RowsHeld
  <2>4. RequestCounts' /\ OneTable'
    BY <1>1, <1>10, <2>1 DEF IndInv, RequestCounts, OneTable, DeviceLen, MaxDeviceLen
  <2>. QED BY <2>2, <2>3, <2>4 DEF IndInv
<1>11. CASE job.kind = "paged" /\ More /\ ~ IsFinished(q)
  <2>1. stage' = "reserve" /\ req' = q /\ UNCHANGED bt /\ step + 1 < job.max_new
    BY <1>11 DEF Keep, More, q
  <2>2. Stages' /\ Output' /\ Sampled' /\ Returned' /\ RowsHeld'
    BY <1>1, <1>2, <1>4, <1>11, <2>1
       DEF IndInv, Stages, Output, Sampled, Returned, SameTokens, RowsHeld
  <2>3. RequestCounts'
    <3>1. req'.status = "Decoding"
      BY <1>7, <1>11, <2>1 DEF IsFinished, st
    <3>. QED
      BY <1>1, <1>2, <1>4, <1>7, <1>8, <1>11, <2>1, <3>1
         DEF RequestCounts, DeviceLen, MaxDeviceLen, IsFinished
  <2>4. OneTable'
    BY <1>1, <1>4, <1>7, <1>8, <1>11, <2>1 DEF IndInv, OneTable
  <2>5. SlotsHeld'
    <3>1. \A pos : SlotOf(pos)' = SlotOf(pos)
      BY <1>7, <2>1 DEF SlotOf
    <3>. QED BY <1>1, <1>4, <1>11, <2>1, <3>1 DEF IndInv, SlotsHeld
  <2>. QED BY <2>2, <2>3, <2>4, <2>5 DEF IndInv
<1>12. CASE stage' = "done"
  <2>1. Stages' /\ Output' /\ Sampled' /\ RowsHeld' /\ SlotsHeld'
    BY <1>1, <1>2, <1>12 DEF IndInv, Stages, Output, Sampled, RowsHeld, SlotsHeld
  <2>2. CASE job.kind # "paged"
    <3>1. UNCHANGED <<req, bt>>
      BY <2>2 DEF Keep
    <3>2. RequestCounts'
      BY <1>1, <1>12, <3>1 DEF IndInv, RequestCounts, DeviceLen, MaxDeviceLen
    <3>3. req.table = NoTable
      BY <2>2 DEF IndInv, OneTable
    <3>4. OneTable'
      BY <1>1, <1>12, <3>1, <3>3 DEF IndInv, OneTable
    <3>. QED BY <1>9, <1>12, <2>1, <3>2, <3>4 DEF IndInv
  <2>3. CASE job.kind = "paged"
    <3>1. req' = [q EXCEPT !.table = NoTable] /\ bt' = WithoutTable(bt, req)
      BY <1>12, <2>3 DEF Keep, q
    <3>2. /\ req' \in RequestType /\ req'.table = NoTable /\ req'.input = q.input
          /\ req'.prompt = q.prompt /\ req'.max_new = q.max_new
      BY <1>7, <3>1 DEF RequestType, NoTable
    <3>3. RequestCounts'
      BY SMTT(30), <1>1, <1>2, <1>3, <1>7, <1>8, <1>12, <2>3, <3>2 DEF RequestCounts, DeviceLen, MaxDeviceLen
    <3>4. OneTable'
      BY <1>12, <3>1, <3>2, GivesAllBack DEF OneTable
    <3>. QED BY <1>9, <1>12, <2>1, <3>3, <3>4 DEF IndInv
  <2>. QED BY <2>2, <2>3
<1>13. \/ job.kind # "paged" /\ More
       \/ job.kind = "paged" /\ More /\ ~ IsFinished(q)
       \/ stage' = "done"
  <2>1. CASE job.kind # "paged"
    BY <2>1 DEF Keep
  <2>2. CASE job.kind = "paged"
    <3>1. (More /\ ~ IsFinished(q)) \/ stage' = "done"
      BY <2>2 DEF Keep, q
    <3>. QED BY <2>2, <3>1
  <2>. QED BY <2>1, <2>2
<1>. QED BY <1>10, <1>11, <1>12, <1>13

-----------------------------------------------------------------------------
(* One step keeps the invariant.                                           *)
LEMMA StepInv == IndInv /\ [Next]_vars => IndInv'
<1> SUFFICES ASSUME IndInv, [Next]_vars PROVE IndInv'
  OBVIOUS
<1>1. CASE UNCHANGED vars
  <2>1. Stages' /\ Output' /\ Sampled' /\ Returned' /\ RowsHeld'
    BY <1>1 DEF vars, IndInv, Stages, Output, Sampled, Returned, SameTokens, Greedy, RowsHeld,
                Tokens, FedBefore
  <2>2. RequestCounts' /\ OneTable' /\ SlotsHeld'
    BY <1>1 DEF vars, IndInv, RequestCounts, OneTable, SlotsHeld, SlotOf, DeviceLen,
                MaxDeviceLen, Tokens, FedBefore
  <2>. QED BY <2>1, <2>2 DEF IndInv
<1>. QED
  BY <1>1, CallInv, PlainInv, KVInv, ReserveInv, PagedInv, MarkInv, StopInv, KeepInv DEF Next

(* The invariant holds of every call.                                      *)
THEOREM SpecInv == Spec => []IndInv
BY InitInv, StepInv, PTL DEF Spec

(* The three generators return the prompt and the model's tokens up to     *)
(* EOS or the quota, hence the same tokens: no cache loses, repeats or     *)
(* shifts one.                                                             *)
THEOREM TokensAgree == Spec => []SameTokens
<1>1. IndInv => SameTokens
  BY DEF IndInv, Returned
<1>. QED BY <1>1, SpecInv, PTL

(* The functions never throw by their own checks: a pool for the tokens of *)
(* the call has the blocks of every step, and the contiguous cache never   *)
(* grows.                                                                  *)
THEOREM GuardsNeverThrow == Spec => []NeverThrows
<1>1. IndInv => NeverThrows
  <2> SUFFICES ASSUME IndInv PROVE NeverThrows
    OBVIOUS
  <2>1. /\ Tokens \in Nat \ {0} /\ job.prompt \in Nat \ {0} /\ job.max_new \in Nat
        /\ step \in Nat /\ Tokens = job.prompt + step
        /\ FedBefore = (IF step = 0 THEN 0 ELSE Tokens - 1)
    BY JobTypes DEF IndInv, Tokens, FedBefore
  <2>2. ASSUME stage = "reserve"
        PROVE  /\ BlocksSuffice(bt, req, DeviceLen(req), PageSize)
               /\ DeviceLen(req) <= InitialCapacity(job.prompt, job.max_new)
               /\ ExtendLen(req) = IF step = 0 THEN job.prompt ELSE 1
               /\ ~ IsFinished(req)
    <3>1. /\ req.input = Tokens /\ req.cached = FedBefore /\ ~ IsFinished(req)
          /\ step < job.max_new
      BY <2>2 DEF IndInv, Stages, Output, RequestCounts
    <3>2. BlocksSuffice(bt, req, DeviceLen(req), PageSize)
      BY <2>2, <3>1, BlocksThere DEF DeviceLen
    <3>. QED BY <2>1, <3>1, <3>2 DEF DeviceLen, ExtendLen, InitialCapacity
  <2>3. ASSUME job.kind = "kv", stage = "take"
        PROVE  /\ kv.current_len = job.prompt + step
               /\ kv.capacity = InitialCapacity(job.prompt, job.max_new)
    BY <2>1, <2>3 DEF IndInv, RowsHeld
  <2>4. ASSUME job.kind = "paged", stage = "take"
        PROVE  req.cached = DeviceLen(req) /\ req.status = "Decoding"
    BY <2>4 DEF IndInv, RequestCounts, DeviceLen
  <2>. QED BY <2>2, <2>3, <2>4 DEF NeverThrows, IndInv, RequestCounts
<1>. QED BY <1>1, SpecInv, PTL

(* On every way out the paged generator has given all its blocks back.     *)
THEOREM BlocksGivenBack == Spec => []AllReleased
<1>1. IndInv => AllReleased
  <2> SUFFICES ASSUME IndInv, stage = "done" PROVE AllReleased
    BY DEF AllReleased
  <2>1. WellFormed(bt) /\ req.table = NoTable /\ LiveTables(bt) = {}
    BY DEF IndInv, OneTable
  <2>2. BlocksOf(bt.free_blocks) = Blocks
    BY <2>1, FreeIsUnowned
  <2>. QED BY <2>1, <2>2 DEF AllReleased, ToSet, BlocksOf
<1>. QED BY <1>1, SpecInv, PTL
=============================================================================
