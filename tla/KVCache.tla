------------------------------ MODULE KVCache ------------------------------
(***************************************************************************)
(* ModelKVCache (src/engine/kv_cache.cpp), the contiguous cache, under the *)
(* forward passes of Qwen3Model that write it layer by layer and advance   *)
(* it once.  It grows while a pass is under way: every layer is allocated  *)
(* anew and only the rows of current_len_ are copied.                      *)
(*                                                                         *)
(* Each pass feeds fresh tokens; a token is <<pass, index in the pass>>.   *)
(* A pass that throws is not undone and its caller may go on.              *)
(***************************************************************************)
EXTENDS Integers, Sequences, FiniteSetsExt

CONSTANTS NumLayers,
          InitialCapacity,
          MinCapacity,      \* first capacity of an empty cache, 16 in the code
          PassLens,         \* tokens a pass may feed
          MaxPasses,        \* passes of one history (bound)
          MaxTokens         \* tokens ever cached at once (bound)

ASSUME KVCacheAssumption ==
  /\ NumLayers \in Nat \ {0} /\ InitialCapacity \in Nat /\ MinCapacity \in Nat \ {0}
  /\ PassLens \subseteq Nat \ {0} /\ MaxPasses \in Nat /\ MaxTokens \in Nat

(* Arithmetic that the doubling rests on, here because a proof of it needs *)
(* induction.                                                              *)
ASSUME PowersOfTwo == \A k \in 0 .. MaxTokens : 2^k \in Nat /\ k <= 2^k

VARIABLES current_len, capacity,
          layers,           \* per layer: its rows, current_len and capacity
          pass,             \* the forward pass under way, or NoPass
          passes,           \* passes begun so far
          fed               \* history: the tokens of the passes that ended well

cacheVars == <<current_len, capacity, layers, pass, passes, fed>>

Layers == 1 .. NumLayers
UnsetRow == <<0, 0>>           \* memory of a new tensor
NoPass == [past |-> 0, len |-> 0, next |-> 0]
Running == pass # NoPass

NewLayer(n, len) == [rows |-> [i \in 1 .. n |-> UnsetRow], current_len |-> len, capacity |-> n]

CacheInit ==
  /\ current_len = 0
  /\ capacity = InitialCapacity
  /\ layers = [l \in Layers |-> NewLayer(InitialCapacity, 0)]
  /\ pass = NoPass /\ passes = 0 /\ fed = << >>

-----------------------------------------------------------------------------
(* ensure_capacity: the smallest doubling that suffices.                   *)
Doubled(required) ==
  LET base == IF capacity > 0 THEN capacity ELSE MinCapacity
  IN  Min({base * 2^k : k \in {j \in 0 .. required : base * 2^j >= required}})

(* Mutant: the new tensors start empty.                                    *)
GrownEmpty(required) == [l \in Layers |-> NewLayer(Doubled(required), current_len)]

Grown(required) ==
  [l \in Layers |->
     [NewLayer(Doubled(required), current_len) EXCEPT
        !.rows = [i \in DOMAIN @ |-> IF i <= current_len THEN layers[l].rows[i] ELSE @[i]]]]

Ensured(required) == IF required <= capacity THEN layers ELSE Grown(required)

(* Mutant: the new capacity is not recorded.                               *)
KeptCapacity(required) == capacity

EnsuredCapacity(required) == IF required <= capacity THEN capacity ELSE Doubled(required)

(* Mutant: the rows go after the layer's own length, not the model's.      *)
WriteStartOfLayer(l) == layers[l].current_len

WriteStart(l) == current_len

Token(k) == <<passes, k>>

(* update_layer, with the rows of a new key and value                      *)
Updated(l, new) ==
  [Ensured(current_len + Len(new)) EXCEPT
     ![l].rows = [i \in DOMAIN @ |->
        IF i - WriteStart(l) \in DOMAIN new THEN new[i - WriteStart(l)] ELSE @[i]],
     ![l].current_len = current_len + Len(new)]

-----------------------------------------------------------------------------
(* A pass over a non-empty cache feeds one token (Qwen3Attention).         *)
BeginPass(n) ==
  /\ ~ Running /\ passes < MaxPasses
  /\ n \in PassLens /\ current_len + n <= MaxTokens
  /\ current_len # 0 => n = 1
  /\ pass' = [past |-> current_len, len |-> n, next |-> 1]
  /\ passes' = passes + 1
  /\ UNCHANGED <<current_len, capacity, layers, fed>>

WriteRows(new) ==
  /\ Running /\ pass.next <= NumLayers
  /\ layers' = Updated(pass.next, new)
  /\ capacity' = EnsuredCapacity(current_len + pass.len)
  /\ pass' = [pass EXCEPT !.next = @ + 1]
  /\ UNCHANGED <<current_len, passes, fed>>

WriteLayer == WriteRows([k \in 1 .. pass.len |-> Token(k)])

Advance ==
  /\ Running /\ pass.next > NumLayers
  /\ current_len + pass.len <= capacity
  /\ current_len' = current_len + pass.len
  /\ layers' = [l \in Layers |-> [layers[l] EXCEPT !.current_len = current_len']]
  /\ fed' = fed \o [k \in 1 .. pass.len |-> Token(k)]
  /\ pass' = NoPass
  /\ UNCHANGED <<capacity, passes>>

PassThrows ==
  /\ Running
  /\ pass' = NoPass
  /\ UNCHANGED <<current_len, capacity, layers, passes, fed>>

Reset ==
  /\ ~ Running
  /\ current_len' = 0
  /\ layers' = [l \in Layers |-> [layers[l] EXCEPT !.current_len = 0]]
  /\ fed' = << >>
  /\ UNCHANGED <<capacity, pass, passes>>

CacheNext ==
  \/ \E n \in PassLens : BeginPass(n)
  \/ WriteLayer \/ Advance \/ PassThrows \/ Reset

CacheSpec == CacheInit /\ [][CacheNext]_cacheVars

-----------------------------------------------------------------------------
(* Every row that counts holds, in every layer, the token that was fed at  *)
(* that position, whatever growth, failed pass or reset came between.      *)
RowsHold ==
  /\ Len(fed) = current_len
  /\ \A l \in Layers, p \in 1 .. current_len :
       p \in DOMAIN layers[l].rows /\ layers[l].rows[p] = fed[p]

(* The layers already written in this pass keep its rows until it ends, at *)
(* the positions their attention reads (past_len + num_tokens rows): a     *)
(* layer that grows the cache does not lose what earlier layers wrote, and *)
(* a pass that threw before does not shift where the next one writes.      *)
PassKept ==
  Running =>
    \A l \in 1 .. (pass.next - 1), k \in 1 .. pass.len :
      pass.past + k \in DOMAIN layers[l].rows /\ layers[l].rows[pass.past + k] = Token(k)

(* The capacity is the one every layer was allocated with, and advance,    *)
(* which throws beyond the capacity, is never stopped by it.               *)
CapacityAgrees ==
  /\ \A l \in Layers : layers[l].capacity = capacity /\ Len(layers[l].rows) = capacity
  /\ Running /\ pass.next > NumLayers => current_len + pass.len <= capacity
=============================================================================
