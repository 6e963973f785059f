---------------------------- MODULE PagedEngine ----------------------------
(***************************************************************************)
(* PagedGenerateEngine (src/engine/paged_generate_engine.cpp) with all it  *)
(* calls: RequestManager, PagedKVCacheManager, BlockTableManager, the      *)
(* per-layer pools of ModelPagedKVCache and the order in which the layers  *)
(* of the model write and read them.                                       *)
(*                                                                         *)
(* One host thread calls the engine, so a call runs to its end before the  *)
(* next starts; it is cut into steps where an exception may leave it:      *)
(*                                                                         *)
(*   reserve  ensure_blocks for the next chunk, or the next id of a batch  *)
(*   forward  the model, one layer a step: write K/V, then attend          *)
(*   mark     mark_forward_done      sample  argmax       append  the token*)
(*                                                                         *)
(* prefill, decode:  reserve forward mark sample append                    *)
(* decode_batch:     reserve* forward sample (mark append)*                *)
(*                                                                         *)
(* The K/V of a token is the tag <<request, position>>.  Sampling is the   *)
(* choice whether the token is the request's EOS.                          *)
(***************************************************************************)
EXTENDS RequestOps, FiniteSetsExt

CONSTANTS Capacity,         \* max_total_tokens
          PageSize,
          NumLayers,
          MaxRequests,      \* requests ever added (bound)
          MaxLen,           \* tokens of one request, wanted ones included (bound)
          MaxFaults,        \* exceptions of the tensor layer (bound)
          PromptLens, MaxNews,          \* arguments of add_request
          AppendLens, AppendMaxNews,    \* arguments of append_input_tokens
          FaultPoints,      \* subset of {"forward", "sample", "batch sample"}
          RepeatInBatch,    \* callers may list an id twice in a batch
          ReuseReleased     \* callers may append to a request they released

ASSUME EngineAssumption ==
  /\ Capacity \in Nat \ {0} /\ PageSize \in Nat \ {0} /\ NumLayers \in Nat \ {0}
  /\ NumBlocks = NumRequiredBlocks(Capacity, PageSize)

ASSUME CallerAssumption ==
  /\ MaxRequests \in Nat /\ MaxLen \in Nat /\ MaxFaults \in Nat
  /\ PromptLens \subseteq Nat \ {0} /\ MaxNews \subseteq Nat
  /\ AppendLens \subseteq Nat /\ AppendMaxNews \subseteq Nat \cup {-1}
  /\ FaultPoints \subseteq {"forward", "sample", "batch sample"}
  /\ RepeatInBatch \in BOOLEAN /\ ReuseReleased \in BOOLEAN

VARIABLES reqs,             \* requests_ of RequestManager, request id i at i + 1
          bt,               \* block_table_manager_
          kv,               \* per layer, per slot of the pool: whose K/V it holds
          call,             \* the engine call in progress
          result,           \* how the last call ended
          faults            \* exceptions injected so far

vars == <<reqs, bt, kv, call, result, faults>>

Ids == 1 .. MaxRequests
Layers == 1 .. NumLayers
Slots == 0 .. (NumBlocks * PageSize - 1)

Tag(r, pos) == <<r, pos>>
NoTag == Tag(0, 0)          \* nobody's: still zeroed, or the K and V of two tokens

Slot(r, pos) == PhysicalTokenIndex(bt, reqs[r].table, pos, PageSize)

NoCall ==
  [op |-> "none", until_finished |-> FALSE, stage |-> "idle",
   todo |-> << >>, rows |-> << >>, at |-> 0]

Idle == call.stage = "idle"

Init ==
  /\ reqs = << >>
  /\ bt = EmptyManager
  /\ kv = [l \in Layers |-> [s \in Slots |-> NoTag]]
  /\ call = NoCall
  /\ result = "ok"
  /\ faults = 0

Return(outcome) == call' = NoCall /\ result' = outcome

Known(r) == r \in DOMAIN reqs

-----------------------------------------------------------------------------
(* Calls that are over at once.                                            *)

AddRequest(prompt_len, max_new) ==
  /\ Idle
  /\ Len(reqs) < MaxRequests /\ prompt_len + max_new <= MaxLen
  /\ reqs' = Append(reqs, NewRequest(prompt_len, max_new))
  /\ Return("ok")
  /\ UNCHANGED <<bt, kv, faults>>

(* append_input_tokens: the tokens are appended before a negative          *)
(* max_new_tokens is refused.                                              *)
AppendInput(r, n, max_new) ==
  LET q == AppendInputTokens(reqs[r], n)
  IN  /\ Idle /\ Known(r)
      /\ DeviceLen(q) + (IF max_new < 0 THEN q.max_new ELSE max_new) <= MaxLen
      /\ ReuseReleased \/ reqs[r].table # NoTable \/ reqs[r].cached = 0
      /\ IF max_new < 0
         THEN reqs' = [reqs EXCEPT ![r] = q] /\ Return("refused")
         ELSE reqs' = [reqs EXCEPT ![r] = ResetGenerationOptions(q, max_new)] /\ Return("ok")
      /\ UNCHANGED <<bt, kv, faults>>

Release(r) ==
  /\ Idle /\ Known(r)
  /\ bt' = WithoutTable(bt, reqs[r])
  /\ reqs' = [reqs EXCEPT ![r] = FinishRequest([@ EXCEPT !.table = NoTable])]
  /\ Return("ok")
  /\ UNCHANGED <<kv, faults>>

-----------------------------------------------------------------------------
(* prefill, decode_one_step, generate_until_finished, decode_batch         *)

Start(op, until_finished, todo) ==
  /\ call' = [NoCall EXCEPT !.op = op, !.until_finished = until_finished,
                            !.stage = "reserve", !.todo = todo]
  /\ result' = "ok"

(* Mutants: all tokens at once, also over a cache; all but the last.       *)
ChunkOfAll(r) == [id |-> r, len |-> ExtendLen(reqs[r])]

ChunkButLast(r) ==
  [id |-> r, len |-> IF reqs[r].cached = 0 THEN ExtendLen(reqs[r]) - 1 ELSE 1]

(* A whole prompt goes through the model at once only when nothing is      *)
(* cached: attention over cached tokens takes one token at a time.         *)
Chunk(r) == [id |-> r, len |-> IF reqs[r].cached = 0 THEN ExtendLen(reqs[r]) ELSE 1]

OneToken(r) == [id |-> r, len |-> 1]

CanPrefill(r) == Known(r) /\ ~ IsFinished(reqs[r]) /\ ExtendLen(reqs[r]) > 0

CanDecode(r) == Known(r) /\ ~ IsFinished(reqs[r]) /\ ExtendLen(reqs[r]) = 1

Prefill(r) ==
  /\ Idle /\ CanPrefill(r)
  /\ Start("prefill", FALSE, <<Chunk(r)>>)
  /\ UNCHANGED <<reqs, bt, kv, faults>>

DecodeOneStep(r) ==
  /\ Idle /\ CanDecode(r)
  /\ Start("decode", FALSE, <<OneToken(r)>>)
  /\ UNCHANGED <<reqs, bt, kv, faults>>

DecodeBatch(ids) ==
  /\ Idle
  /\ Start("batch", FALSE, [i \in DOMAIN ids |-> OneToken(ids[i])])
  /\ UNCHANGED <<reqs, bt, kv, faults>>

WantsPrefill(r) == CanPrefill(r) /\ reqs[r].generated = 0

GenerateUntilFinished(r) ==
  /\ Idle /\ Known(r) /\ reqs[r].max_new > 0
  /\ \/ WantsPrefill(r) /\ Start("prefill", TRUE, <<Chunk(r)>>)
     \/ ~ WantsPrefill(r) /\ CanDecode(r) /\ Start("decode", TRUE, <<OneToken(r)>>)
  /\ UNCHANGED <<reqs, bt, kv, faults>>

GenerateNothing(r) ==
  /\ Idle /\ Known(r) /\ reqs[r].max_new = 0
  /\ reqs' = [reqs EXCEPT ![r] = FinishRequest(@)]
  /\ Return("ok")
  /\ UNCHANGED <<bt, kv, faults>>

(* A finished request makes each of these calls return at once.            *)
AlreadyFinished(r) ==
  /\ Idle /\ Known(r) /\ IsFinished(reqs[r])
  /\ Return("ok")
  /\ UNCHANGED <<reqs, bt, kv, faults>>

(* An unknown id, prefill with nothing to feed, decode_one_step with more  *)
(* or less than one token to feed.                                         *)
CallRefused(r) ==
  /\ Idle /\ ~ CanDecode(r)
  /\ Known(r) => ~ IsFinished(reqs[r])
  /\ Return("refused")
  /\ UNCHANGED <<reqs, bt, kv, faults>>

-----------------------------------------------------------------------------
(* reserve: blocks for the head of todo                                    *)

Batched == call.op = "batch"
Reserving == call.stage = "reserve" /\ call.todo # << >>
Wanted == Head(call.todo)

(* Mutants: room for the whole turn; no room for the new tokens.           *)
WholeTurn == MaxDeviceLen(reqs[Wanted.id])
CachedOnly == reqs[Wanted.id].cached

Target == reqs[Wanted.id].cached + Wanted.len
Accepted == IF Batched THEN CanDecode(Wanted.id) ELSE TRUE

Suffices == BlocksSuffice(bt, reqs[Wanted.id], Target, PageSize)

ReserveSkips ==
  /\ Reserving /\ Batched /\ Known(Wanted.id) /\ IsFinished(reqs[Wanted.id])
  /\ call' = [call EXCEPT !.todo = Tail(@)]
  /\ UNCHANGED <<reqs, bt, kv, result, faults>>

ReserveRefused ==
  /\ Reserving /\ ~ Accepted
  /\ Known(Wanted.id) => ~ IsFinished(reqs[Wanted.id])
  /\ Return("refused")
  /\ UNCHANGED <<reqs, bt, kv, faults>>

ReserveTooLong ==
  /\ Reserving /\ Accepted /\ Target > Capacity
  /\ Return("too long")
  /\ UNCHANGED <<reqs, bt, kv, faults>>

Reserve ==
  LET q == reqs[Wanted.id]
  IN  /\ Reserving /\ Accepted /\ Target <= Capacity /\ Suffices
      /\ bt' = WithBlocks(bt, q, Target, PageSize)
      /\ reqs' = [reqs EXCEPT ![Wanted.id].table = TableFor(bt, q)]
      /\ call' = [call EXCEPT !.todo = Tail(@),
                              !.rows = Append(@, [id |-> Wanted.id, past |-> q.cached,
                                                  len |-> Wanted.len])]
      /\ UNCHANGED <<kv, result, faults>>

ReserveExhausted ==
  /\ Reserving /\ Accepted /\ Target <= Capacity /\ ~ Suffices
  /\ bt' = RolledBack(bt, reqs[Wanted.id])
  /\ Return("exhausted")
  /\ UNCHANGED <<reqs, kv, faults>>

ReserveDone ==
  /\ call.stage = "reserve" /\ call.todo = << >>
  /\ IF call.rows = << >> THEN Return("ok")
     ELSE call' = [call EXCEPT !.stage = "forward", !.at = 0] /\ UNCHANGED result
  /\ UNCHANGED <<reqs, bt, kv, faults>>

-----------------------------------------------------------------------------
(* forward: layer l writes the K/V of every row, in order, then attends.   *)

Forwarding == call.stage = "forward" /\ call.at < NumLayers
Forwarded == call.stage = "forward" /\ call.at = NumLayers

(* The writes of a layer: token w[2] of row w[1], row after row.           *)
(* Mutant: only the last row of a batch is written.                        *)
LastRowTokens ==
  LET n == Len(call.rows) IN UNION {{k} \X (0 .. (call.rows[k].len - 1)) : k \in {n} \ {0}}

RowTokens == UNION {{k} \X (0 .. (call.rows[k].len - 1)) : k \in DOMAIN call.rows}

Before(v, w) == v[1] < w[1] \/ (v[1] = w[1] /\ v[2] < w[2])

SlotOfWrite(w) == Slot(call.rows[w[1]].id, call.rows[w[1]].past + w[2])

(* Of several writes to a slot the last one stays.                         *)
WritesTo(s, writes) == {w \in writes : SlotOfWrite(w) = s}

LastWrite(s, writes) ==
  CHOOSE w \in WritesTo(s, writes) : \A v \in WritesTo(s, writes) : ~ Before(w, v)

Written(s, writes) ==
  LET w == LastWrite(s, writes)
  IN  Tag(call.rows[w[1]].id, call.rows[w[1]].past + w[2])

UpdateLayer(l, writes) ==
  [kv EXCEPT ![l] = [s \in Slots |->
                       IF WritesTo(s, writes) = {} THEN @[s] ELSE Written(s, writes)]]

Forward ==
  /\ Forwarding
  /\ kv' = UpdateLayer(call.at + 1, RowTokens)
  /\ call' = [call EXCEPT !.at = @ + 1]
  /\ UNCHANGED <<reqs, bt, result, faults>>

-----------------------------------------------------------------------------
(* mark, sample, append                                                    *)

(* The row the step is about: the only one, or row at of a batch.          *)
Row == IF Batched THEN call.rows[call.at] ELSE call.rows[1]

MayMark == IF Batched THEN call.stage = "mark" ELSE Forwarded

Mark ==
  /\ MayMark
  /\ reqs' = [reqs EXCEPT ![Row.id] = MarkForwardDone(@, Row.len)]
  /\ call' = [call EXCEPT !.stage = IF Batched THEN "append" ELSE "sample"]
  /\ UNCHANGED <<bt, kv, result, faults>>

SampleBatch ==
  /\ Batched /\ Forwarded
  /\ call' = [call EXCEPT !.stage = "mark", !.at = 1]
  /\ UNCHANGED <<reqs, bt, kv, result, faults>>

(* Mutant: prefill samples after its first chunk.                          *)
SampleAtOnce ==
  /\ call.stage = "sample"
  /\ call' = [call EXCEPT !.stage = "append"]
  /\ UNCHANGED <<reqs, bt, kv, result, faults>>

(* prefill feeds the next token when there is one.                         *)
Sample ==
  /\ call.stage = "sample"
  /\ IF call.op = "prefill" /\ ExtendLen(reqs[Row.id]) > 0
     THEN call' = [call EXCEPT !.stage = "reserve", !.todo = <<OneToken(Row.id)>>,
                               !.rows = << >>, !.at = 0]
     ELSE call' = [call EXCEPT !.stage = "append"]
  /\ UNCHANGED <<reqs, bt, kv, result, faults>>

(* Mutant: append_token does not look at the status.                       *)
AppendAlways == TRUE

MayAppend == reqs[Row.id].status = "Decoding"

AppendRefused ==
  /\ call.stage = "append" /\ ~ MayAppend
  /\ Return("refused")
  /\ UNCHANGED <<reqs, bt, kv, faults>>

(* After the token: the next row of a batch, the next decode_one_step of   *)
(* generate_until_finished, or the end of the call.                        *)
Proceed(q) ==
  CASE Batched /\ call.at < Len(call.rows) ->
         call' = [call EXCEPT !.stage = "mark", !.at = @ + 1] /\ UNCHANGED result
    [] call.until_finished /\ ~ IsFinished(q) ->
         Start("decode", TRUE, <<OneToken(Row.id)>>)
    [] OTHER -> Return("ok")

AppendSampled(is_eos) ==
  LET q == AppendToken(reqs[Row.id], is_eos)
  IN  /\ call.stage = "append" /\ MayAppend
      /\ reqs' = [reqs EXCEPT ![Row.id] = q]
      /\ Proceed(q)
      /\ UNCHANGED <<bt, kv, faults>>

-----------------------------------------------------------------------------
(* An exception of the tensor layer (allocation, copy, kernel launch).     *)
(* Nothing is undone: the tokens a layer wrote before it stay written.     *)

(* The copies of token w fail: of its K, or of its V when K is written.    *)
(* Torn, a slot counts as nobody's even if the same token was there.       *)
UpdateFails(l, w, torn) ==
  LET done == UpdateLayer(l, {v \in RowTokens : Before(v, w)})
  IN  IF torn THEN [done EXCEPT ![l][SlotOfWrite(w)] = NoTag] ELSE done

FaultInForward ==
  /\ "forward" \in FaultPoints /\ faults < MaxFaults
  /\ Forwarding
  /\ \/ kv' = UpdateLayer(call.at + 1, RowTokens)
     \/ \E w \in RowTokens, torn \in BOOLEAN : kv' = UpdateFails(call.at + 1, w, torn)
  /\ faults' = faults + 1
  /\ Return("fault")
  /\ UNCHANGED <<reqs, bt>>

FaultInSample ==
  /\ faults < MaxFaults
  /\ \/ "sample" \in FaultPoints /\ call.stage = "sample"
     \/ "batch sample" \in FaultPoints /\ Batched /\ Forwarded
  /\ faults' = faults + 1
  /\ Return("fault")
  /\ UNCHANGED <<reqs, bt, kv>>

-----------------------------------------------------------------------------
Batches ==
  LET callees == UNION {[1 .. n -> Ids] : n \in 1 .. MaxRequests}
  IN  {ids \in callees :
         RepeatInBatch \/ \A i, j \in DOMAIN ids : ids[i] = ids[j] => i = j}

CallerStep ==
  \/ \E n \in PromptLens, max_new \in MaxNews : AddRequest(n, max_new)
  \/ \E r \in Ids :
       \/ \E n \in AppendLens, max_new \in AppendMaxNews : AppendInput(r, n, max_new)
       \/ Release(r) \/ Prefill(r) \/ DecodeOneStep(r)
       \/ GenerateUntilFinished(r) \/ GenerateNothing(r)
       \/ AlreadyFinished(r) \/ CallRefused(r)
  \/ \E ids \in Batches : DecodeBatch(ids)

EngineStep ==
  \/ ReserveSkips \/ ReserveRefused \/ ReserveTooLong \/ Reserve \/ ReserveExhausted
  \/ ReserveDone \/ Forward \/ Mark \/ Sample \/ SampleBatch
  \/ AppendRefused \/ \E is_eos \in BOOLEAN : AppendSampled(is_eos)

Next == CallerStep \/ EngineStep \/ FaultInForward \/ FaultInSample

Spec == Init /\ [][Next]_vars

(* The host thread keeps executing the call it is in.                      *)
FairSpec == Spec /\ WF_vars(EngineStep)

-----------------------------------------------------------------------------
Rows == [id : Ids, past : Nat, len : Nat \ {0}]

CallType ==
  [ op : {"none", "prefill", "decode", "batch"}, until_finished : BOOLEAN,
    stage : {"idle", "reserve", "forward", "mark", "sample", "append"},
    todo : Seq([id : Ids, len : Nat \ {0}]), rows : Seq(Rows), at : Nat ]

(* Types of the fields of GenerationRequest, of the block tables, of the   *)
(* pools (ModelPagedKVCache) and of the call in progress.                  *)
TypeOK ==
  /\ reqs \in Seq(RequestType) /\ Len(reqs) <= MaxRequests
  /\ WellTyped(bt)
  /\ kv \in [Layers -> [Slots -> (Ids \cup {0}) \X Nat]]
  /\ call \in CallType
  /\ result \in {"ok", "refused", "too long", "exhausted", "fault"}
  /\ faults \in 0 .. MaxFaults

(* The check_valid assertion of request.hpp: a request never holds more    *)
(* tokens than its prompt and max_new_tokens, nor caches more than it has. *)
LenWithinMax ==
  \A r \in DOMAIN reqs :
    reqs[r].cached <= DeviceLen(reqs[r]) /\ DeviceLen(reqs[r]) <= MaxDeviceLen(reqs[r])

(* A live block table belongs to exactly one request, whatever calls       *)
(* failed on the way: tables are neither shared nor lost.                  *)
TableOwners ==
  /\ \A r \in DOMAIN reqs :
       reqs[r].table # NoTable =>
         /\ IsTableUsed(bt, reqs[r].table)
         /\ \A s \in DOMAIN reqs : reqs[s].table = reqs[r].table => s = r
  /\ \A t \in LiveTables(bt) : \E r \in DOMAIN reqs : reqs[r].table = t

Holds(l, r, pos) ==
  IsMapped(bt, reqs[r].table, pos, PageSize) /\ kv[l][Slot(r, pos)] = Tag(r, pos)

(* Every token counted in cached_len is in the pool of every layer, in the *)
(* slot the block table gives it: no other request, no failed or repeated  *)
(* call overwrites it and none is counted before it is written.            *)
CacheHolds ==
  \A r \in DOMAIN reqs :
    reqs[r].table # NoTable =>
      \A l \in Layers, pos \in 0 .. (reqs[r].cached - 1) : Holds(l, r, pos)

(* While a layer attends, each row of the batch finds the K/V of all its   *)
(* tokens, those just written included (past_len + num_tokens of them).    *)
AttentionReads ==
  call.stage = "forward" /\ call.at > 0 =>
    \A k \in DOMAIN call.rows :
      \A pos \in 0 .. (call.rows[k].past + call.rows[k].len - 1) :
        Holds(call.at, call.rows[k].id, pos)

(* What Qwen3Attention and ModelPagedKVCache throw on never reaches them:  *)
(* several tokens over a non-empty cache, a row beyond the capacity, a row *)
(* without blocks or a batch row that is not one token.                    *)
ModelAccepts ==
  call.stage = "forward" =>
    \A k \in DOMAIN call.rows :
      LET row == call.rows[k]
      IN  /\ row.past > 0 \/ Batched => row.len = 1
          /\ row.past = reqs[row.id].cached
          /\ row.past + row.len <= Capacity
          /\ \A pos \in row.past .. (row.past + row.len - 1) :
               IsMapped(bt, reqs[row.id].table, pos, PageSize)

(* A request holds no more blocks than its tokens need, even after calls   *)
(* that failed.                                                            *)
NoHoarding ==
  \A r \in DOMAIN reqs :
    reqs[r].table # NoTable =>
      Len(bt.tables[reqs[r].table]) <= NumRequiredBlocks(DeviceLen(reqs[r]), PageSize)

(* Between calls an unfinished request has a token to feed, so prefill or  *)
(* decode_one_step takes it up, also after a call that failed.             *)
Resumable ==
  Idle => \A r \in DOMAIN reqs : IsFinished(reqs[r]) \/ ExtendLen(reqs[r]) > 0

(* "not enough free physical blocks" is only thrown when the requests that *)
(* hold tables and the one that asks really need more than there are.      *)
Need(r) ==
  IF call.stage = "reserve" /\ r = Wanted.id THEN NumRequiredBlocks(Target, PageSize)
  ELSE IF reqs[r].table = NoTable THEN 0
  ELSE NumRequiredBlocks(DeviceLen(reqs[r]), PageSize)

StarvesOnlyWhenFull ==
  [][ call.stage = "reserve" /\ Idle' /\ result' = "exhausted" =>
        MapThenSumSet(Need, DOMAIN reqs) > NumBlocks ]_vars

(* Every call of the engine ends: the loops of prefill and                 *)
(* generate_until_finished make progress towards their bound.              *)
CallReturns == (~ Idle) ~> Idle

-----------------------------------------------------------------------------
(* A request as the token stream of TokenStream: fed is what the model has *)
(* seen; sampled, eos and quota are those of the turn.                     *)
Streams ==
  [r \in DOMAIN reqs |->
     [len |-> DeviceLen(reqs[r]), fed |-> reqs[r].cached,
      sampled |-> reqs[r].generated, eos |-> reqs[r].eos, quota |-> reqs[r].max_new,
      running |-> ~ IsFinished(reqs[r])]]

Stream == INSTANCE TokenStream WITH
            Streams <- Ids, Lens <- 0 .. MaxLen, stream <- Streams

(* Chunked prefill, decoding, batches and generate_until_finished, failed  *)
(* calls included, do to each request what TokenStream promises.           *)
ImplementsStream == Stream!StreamSpec
=============================================================================
