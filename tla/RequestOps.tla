---------------------------- MODULE RequestOps ----------------------------
(***************************************************************************)
(* GenerationRequest and the updates RequestManager makes to one           *)
(* (src/engine/request.cpp, request_manager.cpp).  The token vectors only  *)
(* grow or are cleared, so a request keeps their lengths: token p of       *)
(* request r is the same token for ever.  Of generated_ids it also keeps   *)
(* whether they end with eos_token_id.                                     *)
(***************************************************************************)
EXTENDS BlockTableOps

Statuses == {"WaitingPrefill", "Decoding", "Finished"}

RequestType ==
  [ input : Nat, generated : Nat, eos : BOOLEAN, prompt : Nat, cached : Nat,
    max_new : Nat, table : Nat, status : Statuses ]

DeviceLen(q) == q.input
MaxDeviceLen(q) == q.prompt + q.max_new
ExtendLen(q) == DeviceLen(q) - q.cached
IsFinished(q) == q.status = "Finished"

NewRequest(prompt_len, max_new) ==
  [ input |-> prompt_len, generated |-> 0, eos |-> FALSE,
    prompt |-> prompt_len, cached |-> 0, max_new |-> max_new, table |-> NoTable,
    status |-> IF max_new = 0 THEN "Finished" ELSE "WaitingPrefill" ]

(* Mutants: everything is counted as cached; nothing is.                   *)
MarkAllDone(q, num_tokens) == [q EXCEPT !.cached = DeviceLen(q), !.status = "Decoding"]

MarkNothingDone(q, num_tokens) == [q EXCEPT !.status = "Decoding"]

(* That no caller marks more tokens than the request has, on which         *)
(* mark_forward_done throws, is part of PagedEngine's LenWithinMax.        *)
MarkForwardDone(q, num_tokens) ==
  [q EXCEPT !.cached = @ + num_tokens,
            !.status = IF @ = "Finished" THEN @ ELSE "Decoding"]

(* mark_forward_done of one argument: all tokens count as cached.          *)
MarkAllForwardDone(q) ==
  IF IsFinished(q) THEN q
  ELSE [q EXCEPT !.cached = DeviceLen(q),
                 !.status = IF MaxDeviceLen(q) - DeviceLen(q) <= 0
                            THEN "Finished" ELSE "Decoding"]

(* Mutants: one token too many; one too few; the token is not fed back.    *)
AppendTokenOneMore(q, is_eos) ==
  [q EXCEPT !.input = @ + 1, !.generated = @ + 1, !.eos = is_eos,
            !.status = IF is_eos \/ q.generated + 1 > q.max_new
                       THEN "Finished" ELSE "Decoding"]

AppendTokenOneLess(q, is_eos) ==
  [q EXCEPT !.input = @ + 1, !.generated = @ + 1, !.eos = is_eos,
            !.status = IF is_eos \/ q.generated + 2 >= q.max_new
                       THEN "Finished" ELSE "Decoding"]

AppendTokenGeneratedOnly(q, is_eos) ==
  [q EXCEPT !.generated = @ + 1, !.eos = is_eos,
            !.status = IF is_eos \/ q.generated + 1 >= q.max_new
                       THEN "Finished" ELSE "Decoding"]

(* is_eos: the token is the request's eos_token_id.                        *)
AppendToken(q, is_eos) ==
  [q EXCEPT !.input = @ + 1,
            !.generated = @ + 1,
            !.eos = is_eos,
            !.status = IF is_eos \/ q.generated + 1 >= q.max_new
                       THEN "Finished" ELSE "Decoding"]

FinishRequest(q) == [q EXCEPT !.status = "Finished"]

(* What append_input_tokens and reset_generation_options both end with.    *)
NewTurn(q) ==
  [q EXCEPT !.generated = 0,
            !.eos = FALSE,
            !.prompt = DeviceLen(q),
            !.status = IF q.cached = 0 THEN "WaitingPrefill" ELSE "Decoding"]

AppendInputTokens(q, n) == IF n = 0 THEN q ELSE NewTurn([q EXCEPT !.input = @ + n])

ResetGenerationOptions(q, max_new) == NewTurn([q EXCEPT !.max_new = max_new])

-----------------------------------------------------------------------------
(* GenerationRequest::ensure_blocks.  A request without a table takes one; *)
(* when the blocks do not suffice the new table is given back, which       *)
(* leaves its index behind on the stack of reusable ones.                  *)

TableFor(m, q) == IF q.table = NoTable THEN AllocatedTable(m) ELSE q.table

WithTable(m, q) == IF q.table = NoTable THEN AllocateTable(m) ELSE m

BlocksSuffice(m, q, token_len, page_size) ==
  EnsureReturns(WithTable(m, q), TableFor(m, q), NumRequiredBlocks(token_len, page_size))

WithBlocks(m, q, token_len, page_size) ==
  EnsureBlocks(WithTable(m, q), TableFor(m, q), NumRequiredBlocks(token_len, page_size))

(* Mutant: the new table is kept.                                          *)
NotRolledBack(m, q) == WithTable(m, q)

RolledBack(m, q) ==
  IF q.table = NoTable THEN FreeTable(AllocateTable(m), AllocatedTable(m)) ELSE m

(* Mutant: the blocks are not given back.                                  *)
WithTableKept(m, q) == m

(* release_blocks                                                          *)
WithoutTable(m, q) == IF q.table = NoTable THEN m ELSE FreeTable(m, q.table)
=============================================================================
