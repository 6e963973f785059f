---------------------------- MODULE TokenStream ----------------------------
(***************************************************************************)
(* What the engine promises about the token sequences of its requests,     *)
(* whatever way it batches, chunks or caches: requests advance one at a    *)
(* time and independently; a token is sampled only after the model was fed *)
(* every token before it; a turn goes on until it has sampled EOS or its   *)
(* quota, unless the caller ends it; a finished request is silent until    *)
(* its next turn.                                                          *)
(***************************************************************************)
EXTENDS Naturals, Sequences

CONSTANTS Streams,          \* the requests there can be
          Lens              \* lengths and quotas

VARIABLES stream            \* sequence of [len, fed, sampled, eos, quota, running]

Known(r) == r \in DOMAIN stream

StreamInit == stream = << >>

New(n, quota) ==
  stream' = Append(stream, [len |-> n, fed |-> 0, sampled |-> 0, eos |-> FALSE,
                            quota |-> quota, running |-> quota > 0])

(* The next turn of a request: more input, a quota of its own.             *)
Turn(r, n, quota) ==
  /\ Known(r) /\ quota > 0
  /\ stream' = [stream EXCEPT ![r].len = @ + n, ![r].sampled = 0, ![r].eos = FALSE,
                              ![r].quota = quota, ![r].running = TRUE]

Feed(r, n) ==
  /\ Known(r) /\ stream[r].running
  /\ n > 0 /\ stream[r].fed + n <= stream[r].len
  /\ stream' = [stream EXCEPT ![r].fed = @ + n]

Sample(r) ==
  /\ Known(r) /\ stream[r].running
  /\ stream[r].fed = stream[r].len /\ stream[r].sampled < stream[r].quota
  /\ \E eos \in BOOLEAN :
       stream' = [stream EXCEPT
         ![r].len = @ + 1, ![r].sampled = @ + 1, ![r].eos = eos,
         ![r].running = ~ eos /\ stream[r].sampled + 1 < stream[r].quota]

Finish(r) ==
  /\ Known(r)
  /\ stream' = [stream EXCEPT ![r].running = FALSE]

StreamNext ==
  \/ \E r \in Streams : Sample(r) \/ Finish(r) \/ \E n \in Lens : Feed(r, n)
  \/ \E r \in Streams, n, quota \in Lens : Turn(r, n, quota)
  \/ \E n, quota \in Lens : New(n, quota)

StreamSpec == StreamInit /\ [][StreamNext]_stream
=============================================================================
