----------------------------- MODULE Benchmark -----------------------------
(***************************************************************************)
(* The two schedules of src/benchmark/generation_benchmark.cpp that share  *)
(* one engine between requests, as callers of PagedEngine: the round robin *)
(* of run_paged_interleaved_generation and the batches of                  *)
(* run_paged_batch_decode_generation.  A run makes an engine, adds its     *)
(* requests, all with the same prompt and max_new_tokens, prefills them,   *)
(* decodes until all are finished, counts and releases; the warm-up and    *)
(* the measured run are runs one after the other.                          *)
(*                                                                         *)
(* An exception ends the run and its engine with it.                       *)
(***************************************************************************)
EXTENDS PagedEngine, SequencesExt

CONSTANTS NumRequests,      \* options.num_requests
          Slack             \* spare tokens per request, 16 in the code

ASSUME BenchmarkAssumption ==
  /\ NumRequests \in Nat \ {0} /\ NumRequests = MaxRequests
  /\ Slack \in Nat /\ 0 \notin MaxNews

(* The benchmark is the only caller: it starts no second turn, lists each  *)
(* request once, and an exception of the tensor layer ends it.             *)
ASSUME OnlyCallerAssumption ==
  AppendMaxNews = {} /\ ~ RepeatInBatch /\ FaultPoints = {}

VARIABLE plan               \* the run: its mode, where it is, its loop variables

benchVars == <<vars, plan>>

TokensPerRequest(prompt_len, max_new) == prompt_len + max_new + Slack

(* Capacity is fixed; the lengths of a run are those it was computed from. *)
Plans ==
  {p \in [mode : {"interleaved", "batch"}, prompt_len : PromptLens, max_new : MaxNews,
          at : {"add"}, i : {1}, all_finished : {FALSE}] :
     Capacity = TokensPerRequest(p.prompt_len, p.max_new) * NumRequests}

BenchInit == Init /\ plan \in Plans

(* The next run has an engine of its own.                                  *)
NextRun ==
  /\ plan.at = "done"
  /\ plan' \in Plans
  /\ reqs' = << >> /\ bt' = EmptyManager
  /\ kv' = [l \in Layers |-> [s \in Slots |-> NoTag]]
  /\ call' = NoCall /\ result' = "ok" /\ UNCHANGED faults

Going(at) == plan.at = at /\ Idle /\ result = "ok"

(* One turn of a loop over request_ids: the next index, or the next loop.  *)
Turn(next_loop) ==
  plan' = IF plan.i < NumRequests THEN [plan EXCEPT !.i = @ + 1]
          ELSE [plan EXCEPT !.at = next_loop, !.i = 1]

BenchAdd == Going("add") /\ AddRequest(plan.prompt_len, plan.max_new) /\ Turn("prefill")

BenchPrefill ==
  /\ Going("prefill")
  /\ Turn("round")
  /\ IF IsFinished(reqs[plan.i]) THEN UNCHANGED vars ELSE Prefill(plan.i)

-----------------------------------------------------------------------------
(* while (!all_finished), round robin                                      *)

(* Mutant: all_finished is not set again at the start of a round.          *)
BeginRoundUnset ==
  /\ Going("round") /\ plan.mode = "interleaved" /\ ~ plan.all_finished
  /\ plan' = [plan EXCEPT !.at = "turns"]
  /\ UNCHANGED vars

BeginRound ==
  /\ Going("round") /\ plan.mode = "interleaved" /\ ~ plan.all_finished
  /\ plan' = [plan EXCEPT !.at = "turns", !.all_finished = TRUE]
  /\ UNCHANGED vars

StillAllFinished == plan.all_finished /\ IsFinished(reqs[plan.i])

TurnOfRound ==
  /\ Going("turns")
  /\ plan' = [plan EXCEPT !.all_finished = StillAllFinished,
                          !.at = IF plan.i < NumRequests THEN "turns" ELSE "round",
                          !.i = IF plan.i < NumRequests THEN @ + 1 ELSE 1]
  /\ IF IsFinished(reqs[plan.i]) THEN UNCHANGED vars ELSE DecodeOneStep(plan.i)

(* while (!all_finished), batches of the requests that are not finished    *)
Active == {r \in DOMAIN reqs : ~ IsFinished(reqs[r])}

(* active_request_ids: in the order of request_ids.                        *)
ActiveIds(ids) ==
  ToSet(ids) = Active /\ \A i, j \in DOMAIN ids : i < j => ids[i] < ids[j]

BatchRound ==
  /\ Going("round") /\ plan.mode = "batch" /\ ~ plan.all_finished
  /\ plan' = [plan EXCEPT !.all_finished = (Active = {})]
  /\ IF Active = {} THEN UNCHANGED vars
     ELSE \E ids \in Batches : ActiveIds(ids) /\ DecodeBatch(ids)

EndRounds ==
  /\ Going("round") /\ plan.all_finished
  /\ plan' = [plan EXCEPT !.at = "release"]
  /\ UNCHANGED vars

BenchRelease == Going("release") /\ Release(plan.i) /\ Turn("done")

BenchNext ==
  \/ NextRun
  \/ BenchAdd \/ BenchPrefill \/ BenchRelease
  \/ BeginRound \/ TurnOfRound \/ BatchRound \/ EndRounds
  \/ EngineStep /\ UNCHANGED plan

(* One thread, which runs until the benchmark ends.                        *)
BenchSpec == BenchInit /\ [][BenchNext]_benchVars /\ WF_benchVars(BenchNext)

-----------------------------------------------------------------------------
(* The pool of num_requests * (prompt + max_new_tokens + slack) tokens has *)
(* the blocks every schedule asks for, and neither schedule makes a call   *)
(* the engine refuses.                                                     *)
NeverThrows == result = "ok"

(* When decoding ends no request was left behind: each has stopped at EOS  *)
(* or has exactly max_new_tokens tokens, which the benchmark counts.       *)
AllServed ==
  plan.at \in {"release", "done"} =>
    /\ Len(reqs) = NumRequests
    /\ \A r \in DOMAIN reqs :
         LET generated == DeviceLen(reqs[r]) - plan.prompt_len
         IN  /\ IsFinished(reqs[r])
             /\ generated \in 1 .. plan.max_new
             /\ reqs[r].eos \/ generated = plan.max_new

(* Every block comes back to the pool at the end of a run.                 *)
PoolRefilled == plan.at = "done" => ToSet(bt.free_blocks) = Blocks /\ LiveTables(bt) = {}

(* Every run ends: each round advances every request that is not finished. *)
RunEnds == (plan.at = "add") ~> (plan.at = "done")
=============================================================================
