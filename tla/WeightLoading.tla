--------------------------- MODULE WeightLoading ---------------------------
(***************************************************************************)
(* From a directory of converted weights to the layers of the model:       *)
(* load_weight_map_from_directory (src/weights/weight_loader.cpp) fills a  *)
(* WeightMap, the load_weights of Qwen3ForCausalLM take each tensor out of *)
(* it into a layer, and main checks what is left.  Every tensor is an      *)
(* object of TensorOps; each step may throw, and what was done stays done. *)
(*                                                                         *)
(* A directory is right but for one entry at most.  Load number v brings   *)
(* tensors whose contents are <<name, v>>.                                 *)
(***************************************************************************)
EXTENDS TensorOps, SequencesExt

CONSTANTS NumHiddenLayers,
          VocabSize, HiddenSize, QSize, KvSize, HeadDim, IntermediateSize,
          FirstKinds,       \* what may be wrong with the first directory
          RetryKinds,       \* and with the later ones (bound)
          MaxLoads,         \* directories read in one history (bound)
          MaxFaults         \* allocations that fail (bound)

ASSUME WeightLoadingAssumption ==
  /\ NumHiddenLayers \in Nat \ {0} /\ MaxLoads \in Nat /\ MaxFaults \in Nat
  /\ {VocabSize, HiddenSize, QSize, KvSize, HeadDim, IntermediateSize} \subseteq Nat \ {0}

VARIABLES mem,              \* tensors, allocations and counters
          call,             \* the function under way and its next step
          outcome,          \* how the last one ended
          asked,            \* the directory of the last load
          loads,            \* directories read so far
          faults,           \* allocations that failed so far
          again             \* load_weights was called again on what it left

vars == <<mem, call, outcome, asked, loads, faults, again>>

-----------------------------------------------------------------------------
(* The weights, by layer (0 for those of no layer) and part, in the order  *)
(* the load_weights functions take them, and where they check shapes.      *)
AttentionParts == <<"q_proj", "k_proj", "v_proj", "o_proj", "q_norm", "k_norm">>
MlpParts == <<"gate_proj", "up_proj", "down_proj">>

TakeOf(n) == [op |-> "take", names |-> {n}]
Takes(l, parts) == [i \in DOMAIN parts |-> TakeOf(<<l, parts[i]>>)]
CheckOf(l, parts) == <<[op |-> "check", names |-> {<<l, part>> : part \in parts}]>>

AttentionPlan(l) == Takes(l, AttentionParts) \o CheckOf(l, Range(AttentionParts))
(* Mutant: the shapes of the MLP are not checked.                          *)
MlpPlanUnchecked(l) == Takes(l, MlpParts)

MlpPlan(l) == Takes(l, MlpParts) \o CheckOf(l, Range(MlpParts))

LayerPlan(l) ==
  Takes(l, <<"input_layernorm">>) \o AttentionPlan(l)
    \o Takes(l, <<"post_attention_layernorm">>) \o MlpPlan(l)

ModelPlan ==
  Takes(0, <<"embed_tokens">>) \o FlattenSeq([l \in 1 .. NumHiddenLayers |-> LayerPlan(l)])
    \o Takes(0, <<"norm">>) \o CheckOf(0, {"embed_tokens", "norm"})

Plan == ModelPlan \o Takes(0, <<"lm_head">>) \o CheckOf(0, {"lm_head"})

LayerParts ==
  <<"input_layernorm">> \o AttentionParts \o <<"post_attention_layernorm">> \o MlpParts

(* All weights, in the order an index lists them.                          *)
Names ==
  << <<0, "embed_tokens">> >>
    \o FlattenSeq([l \in 1 .. NumHiddenLayers |->
                     [i \in DOMAIN LayerParts |-> <<l, LayerParts[i]>>]])
    \o << <<0, "norm">>, <<0, "lm_head">> >>

LayerNorms == {"input_layernorm", "post_attention_layernorm"}

(* The shape the load_weights functions ask for.  They ask none of the two *)
(* norms of a layer, whose width only a forward pass finds out.            *)
Shape(n) ==
  LET part == n[2]
  IN  CASE part \in {"embed_tokens", "lm_head"}  -> <<VocabSize, HiddenSize>>
        [] part \in LayerNorms \cup {"norm"}     -> <<HiddenSize>>
        [] part \in {"q_norm", "k_norm"}         -> <<HeadDim>>
        [] part = "q_proj"                       -> <<QSize, HiddenSize>>
        [] part \in {"k_proj", "v_proj"}         -> <<KvSize, HiddenSize>>
        [] part = "o_proj"                       -> <<HiddenSize, QSize>>
        [] part \in {"gate_proj", "up_proj"}     -> <<IntermediateSize, HiddenSize>>
        [] part = "down_proj"                    -> <<HiddenSize, IntermediateSize>>

Unknown == <<0, "no such layer">>

-----------------------------------------------------------------------------
(* weights_index.json and its files: one entry is missing, listed twice,   *)
(* not parsed, its file not there or of another size, of a rank or dtype   *)
(* that no layer takes (malformed), or one row larger (misfit); or there   *)
(* is an extra entry of a name the model does not know.                    *)
Directories(kinds) ==
  {d \in [kind : kinds, name : Range(Names)] :
     d.kind \in {"good", "extra"} => d.name = Names[1]}

Entries(d) ==
  CASE d.kind = "missing"   -> RemoveAt(Names, CHOOSE i \in DOMAIN Names : Names[i] = d.name)
    [] d.kind = "duplicate" -> Append(Names, d.name)
    [] d.kind = "extra"     -> Append(Names, Unknown)
    [] OTHER                -> Names

EntryShape(d, n) ==
  LET right == IF n = Unknown THEN <<1>> ELSE Shape(n)
  IN  IF n # d.name THEN right
      ELSE CASE d.kind = "misfit"    -> [right EXCEPT ![1] = @ + 1]
             [] d.kind = "malformed" -> Append(right, 1)
             [] OTHER                -> right

-----------------------------------------------------------------------------
InMap(n) == <<"map", n>>
Slot(n) == <<"slot", n>>          \* weight_ of the layer
Local == <<"local">>              \* the tensor in the hands of a function

MapObjects(m) == {o \in DOMAIN m.obj : o[1] = "map"}
HasWeight(m, n) == InMap(n) \in DOMAIN m.obj
Initialized(m) == \A n \in Range(Names) : Owned(m, Slot(n))

(* WeightMap::take, and the local of it that dies empty.                   *)
Taken(m, n) ==
  LET moved == Moved(m, Local, InMap(n)) IN [moved EXCEPT !.obj = Drop(@, InMap(n))]

(* What an exception leaves of a read: neither the tensor nor the map.     *)
Unwound(m) == DestroyAll(m, MapObjects(m) \cup (DOMAIN m.obj \cap {Local}))

Idle == [fn |-> "none", at |-> 0]

Init ==
  /\ mem = [heap |-> << >>, current |-> 0, balance |-> 0,
            obj |-> [o \in {Slot(n) : n \in Range(Names)} |-> NoTensor]]
  /\ call = Idle /\ outcome = "none"
  /\ asked = [kind |-> "good", name |-> Names[1]]
  /\ loads = 0 /\ faults = 0 /\ again = FALSE

End(how) == call' = Idle /\ outcome' = how

-----------------------------------------------------------------------------
(* load_weight_map_from_directory, one entry at a time.                    *)
LoadDirectory(d) ==
  /\ call = Idle /\ outcome \in {"none", "unread", "no memory", "dropped"}
  /\ loads < MaxLoads
  /\ asked' = d /\ loads' = loads + 1 /\ again' = FALSE
  /\ call' = [fn |-> "read", at |-> 1] /\ outcome' = "running"
  /\ UNCHANGED <<mem, faults>>

Reading == call.fn = "read" /\ call.at <= Len(Entries(asked))
Entry == Entries(asked)[call.at]
Wrong(kind) == asked.kind = kind /\ asked.name = Entry
Room == Unused(mem) # {}

(* dtype or shape do not parse; no tensor exists yet.                      *)
RejectEntry ==
  /\ Reading /\ Wrong("unparsable")
  /\ mem' = Unwound(mem)
  /\ End("unread") /\ UNCHANGED <<asked, loads, faults, again>>

AllocationFails ==
  /\ Reading /\ ~ Wrong("unparsable")
  /\ ~ Room \/ faults < MaxFaults
  /\ mem' = Unwound(mem) /\ faults' = faults + 1
  /\ End("no memory") /\ UNCHANGED <<asked, loads, again>>

ReadTensor ==
  Fill(Construct(mem, Local, EntryShape(asked, Entry), "FP32"), Local, <<Entry, loads>>)

(* The file is not there or of another size; add refuses a second entry of *)
(* the same name.                                                          *)
RejectTensor ==
  /\ Reading /\ Room /\ ~ Wrong("unparsable")
  /\ Wrong("unreadable") \/ HasWeight(mem, Entry)
  /\ mem' = Unwound(ReadTensor)
  /\ End("unread") /\ UNCHANGED <<asked, loads, faults, again>>

AddTensor ==
  /\ Reading /\ Room
  /\ ~ Wrong("unparsable") /\ ~ Wrong("unreadable") /\ ~ HasWeight(mem, Entry)
  /\ mem' = Destroy(Moved(ReadTensor, InMap(Entry), Local), Local)
  /\ call' = [call EXCEPT !.at = @ + 1]
  /\ UNCHANGED <<outcome, asked, loads, faults, again>>

ReadAll ==
  /\ call.fn = "read" /\ ~ Reading
  /\ End("read") /\ UNCHANGED <<mem, asked, loads, faults, again>>

-----------------------------------------------------------------------------
(* Qwen3ForCausalLM::load_weights, on a map just read or on what an        *)
(* earlier call left of it.                                                *)
LoadWeights ==
  /\ call = Idle /\ outcome \in {"read", "failed"}
  /\ call' = [fn |-> "load", at |-> 1] /\ outcome' = "running"
  /\ again' = (outcome = "failed")
  /\ UNCHANGED <<mem, asked, loads, faults>>

Loading(op) == call.fn = "load" /\ call.at <= Len(Plan) /\ Plan[call.at].op = op
Name == CHOOSE n \in Plan[call.at].names : TRUE
NextStep == call' = [call EXCEPT !.at = @ + 1] /\ UNCHANGED outcome

TakeMissing ==
  /\ Loading("take") /\ ~ HasWeight(mem, Name)
  /\ End("failed") /\ UNCHANGED <<mem, asked, loads, faults, again>>

(* load_weight of Linear, Embedding or RMSNorm looks at rank and dtype     *)
(* before it touches the layer.                                            *)
TakeMalformed ==
  /\ Loading("take") /\ HasWeight(mem, Name)
  /\ Len(mem.obj[InMap(Name)].shape) # Len(Shape(Name))
  /\ mem' = Destroy(Taken(mem, Name), Local)
  /\ End("failed") /\ UNCHANGED <<asked, loads, faults, again>>

Take ==
  /\ Loading("take") /\ HasWeight(mem, Name)
  /\ Len(mem.obj[InMap(Name)].shape) = Len(Shape(Name))
  /\ mem' = Destroy(MoveAssign(Taken(mem, Name), Slot(Name), Local), Local)
  /\ NextStep /\ UNCHANGED <<asked, loads, faults, again>>

(* Mutant: in_features and out_features change places.                     *)
FitSwapped(names) == \A n \in names : mem.obj[Slot(n)].shape = Reverse(Shape(n))

Fit(names) == \A n \in names : mem.obj[Slot(n)].shape = Shape(n)

Check ==
  /\ Loading("check") /\ Fit(Plan[call.at].names)
  /\ NextStep /\ UNCHANGED <<mem, asked, loads, faults, again>>

CheckFails ==
  /\ Loading("check") /\ ~ Fit(Plan[call.at].names)
  /\ End("failed") /\ UNCHANGED <<mem, asked, loads, faults, again>>

LoadedAll ==
  /\ call.fn = "load" /\ call.at > Len(Plan)
  /\ End("loaded") /\ UNCHANGED <<mem, asked, loads, faults, again>>

-----------------------------------------------------------------------------
(* main refuses leftovers and a model that is not initialized.             *)
CheckModel ==
  /\ call = Idle /\ outcome = "loaded"
  /\ outcome' = IF MapObjects(mem) = {} /\ Initialized(mem) THEN "ready" ELSE "refused"
  /\ UNCHANGED <<mem, call, asked, loads, faults, again>>

(* The map leaves its scope.                                               *)
DropWeights ==
  /\ call = Idle /\ outcome \in {"failed", "loaded", "ready", "refused"}
  /\ mem' = DestroyAll(mem, MapObjects(mem))
  /\ outcome' = "dropped" /\ UNCHANGED <<call, asked, loads, faults, again>>

Next ==
  \/ \E d \in Directories(IF loads = 0 THEN FirstKinds ELSE RetryKinds) : LoadDirectory(d)
  \/ RejectEntry \/ AllocationFails \/ RejectTensor \/ AddTensor \/ ReadAll
  \/ LoadWeights \/ TakeMissing \/ TakeMalformed \/ Take \/ Check \/ CheckFails \/ LoadedAll
  \/ CheckModel \/ DropWeights

Spec == Init /\ [][Next]_vars

-----------------------------------------------------------------------------
(* No exception on the way leaks a weight or frees it twice: every         *)
(* allocation belongs to one tensor, with its size, and every tensor's     *)
(* data is an allocation; the tracker counts exactly those; and once a     *)
(* load is over and its map gone, only the model's weights are left.       *)
HeapOwned ==
  /\ \A a \in DOMAIN mem.heap :
       \E o \in DOMAIN mem.obj :
         /\ mem.obj[o].data = a /\ NumElements(mem.obj[o].shape) = mem.heap[a].bytes
         /\ \A p \in DOMAIN mem.obj : mem.obj[p].data = a => p = o
  /\ \A o \in DOMAIN mem.obj : Owned(mem, o) => mem.obj[o].data \in DOMAIN mem.heap
  /\ mem.current = mem.balance
  /\ mem.current = MapThenSumSet(LAMBDA a : mem.heap[a].bytes, DOMAIN mem.heap)
  /\ outcome \in {"unread", "no memory", "dropped"} =>
       DOMAIN mem.obj = {Slot(n) : n \in Range(Names)}

(* When load_weights returns, whatever failed before it, every layer holds *)
(* the weight of its own name from this very directory and, but for the    *)
(* norms of a layer, of the configured shape; main goes on only if the     *)
(* directory held nothing else.                                            *)
LoadedWhole ==
  outcome \in {"loaded", "ready", "refused"} =>
    /\ \A n \in Range(Names) :
         /\ Owned(mem, Slot(n)) /\ Contents(mem, Slot(n)) = <<n, loads>>
         /\ n[2] \notin LayerNorms => mem.obj[Slot(n)].shape = Shape(n)
    /\ MapObjects(mem) \subseteq {InMap(Unknown)}
    /\ outcome = "ready" => Range(Entries(asked)) = Range(Names)

(* A directory with all the weights in their shapes is never refused,      *)
(* whatever failed before: what a failed load left in the model is not in  *)
(* the way of the next one.                                                *)
RefusedForCause ==
  /\ outcome = "unread" => asked.kind \in {"duplicate", "unparsable", "unreadable"}
  /\ outcome = "failed" =>
       \/ again
       \/ asked.kind \in {"missing", "malformed"}
       \/ asked.kind = "misfit" /\ asked.name[2] \notin LayerNorms
  /\ outcome = "refused" => asked.kind = "extra"
=============================================================================
