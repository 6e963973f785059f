--------------------------- MODULE PagedEngineInv ---------------------------
(***************************************************************************)
(* The inductive invariant of the engine: what holds between the steps of  *)
(* its calls, so that the properties of PagedEngine hold at all times.     *)
(***************************************************************************)
EXTENDS PagedEngine

-----------------------------------------------------------------------------
(* What callers must keep to for some of the properties.                   *)

(* Every turn of a request may sample at least one token.                  *)
QuotaGiven == 0 \notin AppendMaxNews /\ (-1 \in AppendMaxNews => 0 \notin MaxNews)

(* No request is listed twice in a batch.                                  *)
NoRepeats == ~ RepeatInBatch

(* No request is taken up again after it gave its blocks back.             *)
NoReuse == ~ ReuseReleased

(* Sampling a single request does not throw.                               *)
SampleSafe == "sample" \notin FaultPoints

-----------------------------------------------------------------------------
(* The tokens of a request and its quota.                                  *)
Counts(q) ==
  /\ q.cached <= q.input
  /\ q.input = q.prompt + q.generated
  /\ MaxDeviceLen(q) <= MaxLen
  /\ q.max_new \in MaxNews \cup (AppendMaxNews \ {-1})
  /\ QuotaGiven => q.generated <= q.max_new /\ (IsFinished(q) \/ q.generated < q.max_new)
  /\ NoReuse => q.table # NoTable \/ q.cached = 0 \/ IsFinished(q)

RequestsCount == \A r \in DOMAIN reqs : Counts(reqs[r])

(* What each stage of a call has to work on.                               *)
Shape ==
  /\ Idle => call = NoCall
  /\ call.stage \notin {"idle", "reserve"} => call.rows # << >>
  /\ call.stage # "reserve" => call.todo = << >>
  /\ ~ Batched => Len(call.todo) + Len(call.rows) <= 1
  /\ ~ Batched /\ call.stage = "reserve" => Len(call.todo) + Len(call.rows) = 1
  /\ call.stage = "forward" => call.at <= NumLayers
  /\ call.stage = "mark" => Batched
  /\ call.stage = "sample" => ~ Batched
  /\ call.stage \in {"mark", "append"} /\ Batched => call.at \in DOMAIN call.rows
  /\ Batched => ~ call.until_finished

(* The requests to reserve blocks for.  Those of a batch are checked when  *)
(* their turn comes, the others before.                                    *)
TodoFits ==
  \A j \in DOMAIN call.todo :
    LET w == call.todo[j]
        q == reqs[w.id]
    IN  IF Batched THEN w.len = 1
        ELSE /\ Known(w.id) /\ ~ IsFinished(q)
             /\ q.cached + w.len <= q.input
             /\ q.cached > 0 => w.len = 1
             /\ call.op # "prefill" => q.cached + w.len = q.input

(* The rows hold tables that map their tokens.                             *)
RowsMapped ==
  \A k \in DOMAIN call.rows :
    LET row == call.rows[k]
    IN  /\ Known(row.id) /\ reqs[row.id].table # NoTable
        /\ row.past > 0 \/ Batched => row.len = 1
        /\ row.past + row.len <= Capacity
        /\ Len(bt.tables[reqs[row.id].table]) >= NumRequiredBlocks(row.past + row.len, PageSize)

(* A row the model has yet to be told about (mark_forward_done).           *)
Pending ==
  {k \in DOMAIN call.rows :
     \/ call.stage \in {"reserve", "forward"}
     \/ call.stage = "mark" /\ call.at <= k
     \/ call.stage = "append" /\ Batched /\ call.at < k}

Unmarked(row) ==
  LET q == reqs[row.id]
  IN  /\ ~ IsFinished(q)
      /\ row.past = q.cached
      /\ q.cached + row.len <= q.input
      /\ call.op # "prefill" => q.cached + row.len = q.input

RowsUnmarked ==
  NoRepeats \/ call.stage \in {"reserve", "forward"} =>
    \A k \in Pending : Unmarked(call.rows[k])

(* Also of a request listed twice there is a token to feed.                *)
RowsFit ==
  \A k \in Pending :
    \/ call.stage = "append" /\ call.rows[k].id = Row.id
    \/ reqs[call.rows[k].id].cached + call.rows[k].len <= reqs[call.rows[k].id].input

(* Once marked, a request awaits the token sampled after its last one.     *)
RowMarked ==
  /\ call.stage = "sample" => reqs[Row.id].status = "Decoding"
  /\ call.stage = "sample" /\ call.op # "prefill" =>
       reqs[Row.id].cached = reqs[Row.id].input
  /\ call.stage = "append" /\ (NoRepeats \/ ~ Batched) =>
       /\ reqs[Row.id].status = "Decoding"
       /\ reqs[Row.id].cached = reqs[Row.id].input

(* A batch lists a request once.                                           *)
Distinct ==
  NoRepeats =>
    /\ \A i, j \in DOMAIN call.rows : call.rows[i].id = call.rows[j].id => i = j
    /\ \A i, j \in DOMAIN call.todo : call.todo[i].id = call.todo[j].id => i = j
    /\ \A i \in DOMAIN call.rows, j \in DOMAIN call.todo : call.rows[i].id # call.todo[j].id

(* A request always has a token to feed, but while it awaits one.          *)
HasToken ==
  NoRepeats /\ SampleSafe =>
    \A r \in DOMAIN reqs :
      ExtendLen(reqs[r]) > 0 \/ (call.stage \in {"sample", "append"} /\ r = Row.id)

-----------------------------------------------------------------------------
(* The requests, the tables and their owners.                              *)
StateInv == TypeOK /\ WellFormed(bt) /\ TableOwners /\ NoHoarding /\ RequestsCount

(* The call in progress.                                                   *)
CallInv == Shape /\ TodoFits /\ RowsMapped /\ RowsUnmarked /\ RowsFit /\ RowMarked /\ Distinct

(* In the layers the model has been through, the rows are written.         *)
LayersDone ==
  CASE call.stage = "forward" -> 1 .. call.at
    [] call.stage \in {"mark", "append"} -> Layers
    [] OTHER -> {}

RowsWritten ==
  \A k \in Pending, l \in LayersDone :
    LET row == call.rows[k]
    IN  \A pos \in row.past .. (row.past + row.len - 1) :
          kv[l][Slot(row.id, pos)] = Tag(row.id, pos)

CacheInv == NoRepeats /\ NoReuse => CacheHolds /\ RowsWritten

EngineInv == StateInv /\ CallInv
=============================================================================
