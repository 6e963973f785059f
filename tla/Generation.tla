----------------------------- MODULE Generation -----------------------------
(***************************************************************************)
(* The three greedy generators of src/runtime/generation.cpp:              *)
(*                                                                         *)
(*   plain   generate_greedy: every step feeds the whole sequence          *)
(*   kv      generate_greedy_with_kv_cache, over a ModelKVCache            *)
(*   paged   generate_greedy_with_paged_kv_cache, over a request, a block  *)
(*           table and a paged pool                                        *)
(*                                                                         *)
(* The model is a function of what it attends to.  Token p is the right    *)
(* token at position p: the model continues the tokens 1 .. n with n + 1,  *)
(* or with EOS where the call says so, and anything else with Wrong.       *)
(* Whatever a cache loses, repeats or shifts thus shows in the output.     *)
(*                                                                         *)
(* One layer: that layers do not disturb each other is checked of the      *)
(* caches themselves.  A call owns its caches, so an exception inside the  *)
(* model leaves nothing behind and is not modelled.                        *)
(***************************************************************************)
EXTENDS RequestOps, SequencesExt

CONSTANTS PageSize,         \* 16 in the code
          MaxPrompt, MaxNew \* lengths of the calls (bound)

ASSUME GenerationAssumption ==
  PageSize \in Nat \ {0} /\ MaxPrompt \in Nat \ {0} /\ MaxNew \in Nat

VARIABLES job,              \* the arguments of the call
          stage,            \* where the call is
          step,             \* tokens sampled so far
          out,              \* generated, or req.input_ids
          logits,           \* the token the last pass is for
          kv,               \* ModelKVCache: rows, current_len, capacity
          req, bt, pool     \* the request, the block tables and the pool of slots

vars == <<job, stage, step, out, logits, kv, req, bt, pool>>

Eos == -1
Wrong == 0
Unset == -2                 \* memory nothing was written to

Upto(n) == [i \in 1 .. n |-> i]

(* eos is the position at which the model wants to stop, 0 for a call that *)
(* does not check eos_token_id.                                            *)
Jobs ==
  [kind : {"plain", "kv", "paged"}, prompt : 1 .. MaxPrompt, max_new : 0 .. MaxNew,
   eos : 0 .. (MaxPrompt + MaxNew)]

Continue(seen) ==
  IF seen # Upto(Len(seen)) THEN Wrong
  ELSE IF Len(seen) + 1 = job.eos THEN Eos ELSE Len(seen) + 1

NoCache == [rows |-> << >>, current_len |-> 0, capacity |-> 0]
Slots == 0 .. (NumBlocks * PageSize - 1)
EmptyPool == [s \in Slots |-> Unset]
NoRequest == NewRequest(1, 0)

InitialCapacity(prompt, max_new) == prompt + max_new

Init ==
  /\ job = [kind |-> "plain", prompt |-> 1, max_new |-> 0, eos |-> 0]
  /\ stage = "done" /\ step = 0 /\ out = Upto(1) /\ logits = Wrong
  /\ kv = NoCache
  /\ req = NoRequest /\ bt = EmptyManager /\ pool = EmptyPool

(* A call with nothing to generate returns its input.  NumBlocks is fixed, *)
(* so the paged calls are those whose pool has that many blocks.           *)
Call(j) ==
  LET capacity == InitialCapacity(j.prompt, j.max_new)
  IN  /\ stage = "done"
      /\ j.kind = "paged" => NumBlocks = NumRequiredBlocks(capacity, PageSize)
      /\ job' = j
      /\ step' = 0 /\ out' = Upto(j.prompt) /\ logits' = Wrong
      /\ kv' = IF j.kind = "kv" THEN [rows |-> [i \in 1 .. capacity |-> Unset],
                                      current_len |-> 0, capacity |-> capacity]
               ELSE NoCache
      /\ req' = IF j.kind = "paged" THEN NewRequest(j.prompt, j.max_new) ELSE NoRequest
      /\ bt' = EmptyManager /\ pool' = EmptyPool
      /\ stage' = IF j.max_new = 0 THEN "done"
                  ELSE IF j.kind = "paged" THEN "reserve" ELSE "forward"

-----------------------------------------------------------------------------
(* The pass of a step.  The first feeds the prompt and attends to what it  *)
(* feeds; the others feed the last token and attend to the cache.          *)

ForwardPlain ==
  /\ stage = "forward" /\ job.kind = "plain"
  /\ logits' = Continue(out)
  /\ stage' = "take"
  /\ UNCHANGED <<job, step, out, kv, req, bt, pool>>

(* Mutant: the pass feeds the first token again.                           *)
FedFirst == IF step = 0 THEN out ELSE <<Head(out)>>

Fed == IF step = 0 THEN out ELSE <<Last(out)>>

(* ModelKVCache::update_layer and advance; a cache that is full doubles.   *)
Room(n) ==
  IF kv.current_len + n <= kv.capacity THEN kv
  ELSE [kv EXCEPT !.rows = @ \o [i \in 1 .. kv.capacity |-> Unset], !.capacity = 2 * @]

WithRows(new) ==
  [Room(Len(new)) EXCEPT
     !.rows = [i \in DOMAIN @ |->
        IF i > kv.current_len /\ i <= kv.current_len + Len(new)
        THEN new[i - kv.current_len] ELSE @[i]],
     !.current_len = @ + Len(new)]

ForwardKV ==
  LET cache == WithRows(Fed)
  IN  /\ stage = "forward" /\ job.kind = "kv"
      /\ kv' = cache
      /\ logits' = Continue(IF kv.current_len = 0 THEN Fed
                              ELSE SubSeq(cache.rows, 1, cache.current_len))
      /\ stage' = "take"
      /\ UNCHANGED <<job, step, out, req, bt, pool>>

(* ensure_device_blocks: blocks for all tokens of the request.  That this   *)
(* and the other checks of the function never throw is a property below.   *)
ReservePaged ==
  /\ stage = "reserve"
  /\ BlocksSuffice(bt, req, DeviceLen(req), PageSize)
  /\ bt' = WithBlocks(bt, req, DeviceLen(req), PageSize)
  /\ req' = [req EXCEPT !.table = TableFor(bt, req)]
  /\ stage' = "forward"
  /\ UNCHANGED <<job, step, out, logits, kv, pool>>

SlotOf(pos) == PhysicalTokenIndex(bt, req.table, pos, PageSize)

WithSlots(new) ==
  [s \in Slots |->
     IF \E k \in DOMAIN new : SlotOf(req.cached + k - 1) = s
     THEN new[CHOOSE k \in DOMAIN new : SlotOf(req.cached + k - 1) = s]
     ELSE pool[s]]

ForwardPaged ==
  /\ stage = "forward" /\ job.kind = "paged"
  /\ pool' = WithSlots(Fed)
  /\ logits' = Continue(IF req.cached = 0 THEN Fed
                          ELSE [i \in 1 .. (req.cached + Len(Fed)) |-> pool'[SlotOf(i - 1)]])
  /\ stage' = "mark"
  /\ UNCHANGED <<job, step, out, kv, req, bt>>

MarkPaged ==
  /\ stage = "mark"
  /\ req' = MarkAllForwardDone(req)
  /\ stage' = "take"
  /\ UNCHANGED <<job, step, out, logits, kv, bt, pool>>

-----------------------------------------------------------------------------
(* The sampled token: EOS ends the call and is dropped, another is kept.   *)

Stops == job.eos # 0 /\ logits = Eos

(* finish_request, and the paged generator's release                       *)
FinishAndRelease ==
  /\ stage' = "done"
  /\ req' = [FinishRequest(req) EXCEPT !.table = NoTable]
  /\ bt' = WithoutTable(bt, req)
  /\ UNCHANGED <<job, step, out, logits, kv, pool>>

(* Mutant: the blocks are kept on the way out after the prefill.           *)
StopUnreleased ==
  /\ stage = "take" /\ Stops /\ step = 0
  /\ stage' = "done"
  /\ req' = FinishRequest(req)
  /\ UNCHANGED <<job, step, out, logits, kv, bt, pool>>

(* EOS right after the prefill returns there and then.                     *)
StopAfterPrefill == stage = "take" /\ Stops /\ step = 0 /\ FinishAndRelease

(* EOS in the loop leaves it, for the release behind it.                   *)
StopInLoop == stage = "take" /\ Stops /\ step > 0 /\ FinishAndRelease

More == step + 1 < job.max_new

Keep ==
  LET q == AppendToken(req, FALSE)
  IN  /\ stage = "take" /\ ~ Stops
      /\ out' = Append(out, logits)
      /\ step' = step + 1
      /\ IF job.kind # "paged"
         THEN /\ stage' = IF More THEN "forward" ELSE "done"
              /\ UNCHANGED <<req, bt>>
         ELSE IF More /\ ~ IsFinished(q)
         THEN stage' = "reserve" /\ req' = q /\ UNCHANGED bt
         ELSE /\ stage' = "done"
              /\ req' = [q EXCEPT !.table = NoTable]
              /\ bt' = WithoutTable(bt, req)
      /\ UNCHANGED <<job, logits, kv, pool>>

Next ==
  \/ \E j \in Jobs : Call(j)
  \/ ForwardPlain \/ ForwardKV
  \/ ReservePaged \/ ForwardPaged \/ MarkPaged
  \/ StopAfterPrefill \/ StopInLoop \/ Keep

Spec == Init /\ [][Next]_vars
-----------------------------------------------------------------------------
(* What every greedy generator must return: the prompt and the model's     *)
(* tokens up to, and without, EOS, at most max_new_tokens of them.         *)
Greedy ==
  LET longest == job.prompt + job.max_new
  IN  Upto(IF job.eos \in (job.prompt + 1) .. longest THEN job.eos - 1 ELSE longest)

(* Recomputing everything, the contiguous cache and the paged cache give   *)
(* the same tokens: test_generation*.cpp and test_generate_paged_kv_cache  *)
(* compare them on a few prompts.                                          *)
SameTokens == stage = "done" => out = Greedy

(* The checks with which the functions guard themselves never throw: the   *)
(* pool of prompt + max_new_tokens tokens has the blocks of every step,    *)
(* each decode step has one token to feed, no pass skips or repeats a row, *)
(* and the asserts of check_valid hold.  Nor does the contiguous cache,    *)
(* created for as many tokens, ever have to be copied to a larger one.     *)
NeverThrows ==
  /\ stage = "reserve" =>
       /\ BlocksSuffice(bt, req, DeviceLen(req), PageSize)
       /\ DeviceLen(req) <= InitialCapacity(job.prompt, job.max_new)
       /\ ExtendLen(req) = IF step = 0 THEN job.prompt ELSE 1
       /\ ~ IsFinished(req)
  /\ job.kind = "kv" /\ stage = "take" =>
       /\ kv.current_len = job.prompt + step
       /\ kv.capacity = InitialCapacity(job.prompt, job.max_new)
  /\ job.kind = "paged" /\ stage = "take" =>
       req.cached = DeviceLen(req) /\ req.status = "Decoding"
  /\ DeviceLen(req) <= MaxDeviceLen(req)

(* On both ways out, EOS in the first step and the end of the loop, the    *)
(* request gives its blocks and its table back.                            *)
AllReleased ==
  stage = "done" =>
    /\ req.table = NoTable /\ LiveTables(bt) = {}
    /\ ToSet(bt.free_blocks) = Blocks
=============================================================================
