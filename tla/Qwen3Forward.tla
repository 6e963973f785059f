--------------------------- MODULE Qwen3Forward ---------------------------
(***************************************************************************)
(* The forward passes of src/model/qwen3.cpp, on the weights that          *)
(* WeightLoading leaves in the layers and over either cache: which tensor  *)
(* each operation reads and writes, in which order, through two hidden     *)
(* buffers that change places from layer to layer.  Any operation may      *)
(* throw; its tensors are locals and go, what a cache holds stays.         *)
(*                                                                         *)
(* A tensor is a sequence of rows, one for each token of the pass; a row   *)
(* is the term of the operations that made it.  Heads and positions do not *)
(* mix rows and are not told apart.                                        *)
(***************************************************************************)
EXTENDS WeightLoading, KVCache

CONSTANTS Requests,         \* requests with a block table of their own
          CacheModes,       \* caches a context may name
          ServedLoads       \* loads whose weights are passed over (bound)

(* Both caches have a layer for each of the model's.                       *)
ASSUME Qwen3ForwardAssumption ==
  /\ NumLayers = NumHiddenLayers
  /\ IsFiniteSet(Requests) /\ CacheModes \subseteq {"none", "contiguous", "paged"}

VARIABLES pool,             \* paged cache: request, layer -> rows by logical position
          cached,           \* paged cache: the tokens each request counts as cached
          mode,             \* the cache the contexts name, once one did
          job,              \* the pass under way: its rows and its next operation
          buf               \* its tensors

loadingVars == vars
kvVars == <<current_len, capacity, layers, pass, fed>>
pagedVars == <<pool, cached>>
forwardVars == <<kvVars, passes, pagedVars, mode, job, buf>>

-----------------------------------------------------------------------------
(* Operations: name, weight, tensors read, tensor written, layer, row.     *)
Nowhere == "nowhere"        \* what writes no tensor
Op(op, w, ins, out, l) == [op |-> op, w |-> w, ins |-> ins, out |-> out, l |-> l, row |-> 0]
OfRow(op, ins, out, l, row) == [Op(op, << >>, ins, out, l) EXCEPT !.row = row]
Linear(l, part, in, out) == Op("linear", <<l, part>>, <<in>>, out, l)
RMSNorm(l, part, in, out) == Op("rms_norm", <<l, part>>, <<in>>, out, l)
Copy(in, out) == Op("copy", << >>, <<in>>, out, 0)

Projections(l) ==
  << Linear(l, "q_proj", "normed_1", "q_flat"),
     Linear(l, "k_proj", "normed_1", "k_flat"),
     Linear(l, "v_proj", "normed_1", "v_flat"),
     Copy("q_flat", "q_2d"), Copy("k_flat", "k_2d"),
     RMSNorm(l, "q_norm", "q_2d", "q_normed_2d"),
     RMSNorm(l, "k_norm", "k_2d", "k_normed_2d"),
     Copy("q_normed_2d", "q_3d"), Copy("k_normed_2d", "k_3d"), Copy("v_flat", "v_3d"),
     Op("rotary", << >>, <<"q_3d">>, "q_rot", l), Op("rotary", << >>, <<"k_3d">>, "k_rot", l) >>

Output(l) ==
  << Op("attention", << >>, <<"q_rot", "k_rot", "v_3d">>, "attn_out_3d", l),
     Copy("attn_out_3d", "attn_out_flat"),
     Linear(l, "o_proj", "attn_out_flat", "attn_out") >>

Attention(l) == Projections(l) \o <<Op("update_layer", << >>, <<"k_rot", "v_3d">>, Nowhere, l)>> \o Output(l)

(* Mutant: every row is copied from the first.                             *)
BatchWritesOfFirst(l, b) ==
  FlattenSeq([i \in 1 .. b |->
    << OfRow("row", <<"k_rot">>, "k_row", l, 1), OfRow("row", <<"v_3d">>, "v_row", l, 1),
       OfRow("update_layer", <<"k_row", "v_row">>, Nowhere, l, i) >>])

BatchWrites(l, b) ==
  FlattenSeq([i \in 1 .. b |->
    << OfRow("row", <<"k_rot">>, "k_row", l, i), OfRow("row", <<"v_3d">>, "v_row", l, i),
       OfRow("update_layer", <<"k_row", "v_row">>, Nowhere, l, i) >>])

BatchAttention(l, b) == Projections(l) \o BatchWrites(l, b) \o Output(l)

Mlp(l) ==
  << Linear(l, "gate_proj", "normed_2", "gate"), Linear(l, "up_proj", "normed_2", "up"),
     Op("silu_and_mul", << >>, <<"gate", "up">>, "act", l),
     Linear(l, "down_proj", "act", "mlp_out") >>

DecoderLayer(l, in, attention, out) ==
  << Op("locals", << >>, << >>, Nowhere, l), RMSNorm(l, "input_layernorm", in, "normed_1") >>
    \o attention
    \o << Op("add", << >>, <<in, "attn_out">>, "residual_after_attn", l),
          RMSNorm(l, "post_attention_layernorm", "residual_after_attn", "normed_2") >>
    \o Mlp(l)
    \o << Op("add", << >>, <<"residual_after_attn", "mlp_out">>, out, l) >>

(* Mutant: the buffers do not change places.                               *)
KeepsCurrent(l) == "hidden_a"

Current(l) == IF l % 2 = 1 THEN "hidden_a" ELSE "hidden_b"
Other(v) == IF v = "hidden_a" THEN "hidden_b" ELSE "hidden_a"

Model(attention) ==
  <<Op("embedding", <<0, "embed_tokens">>, <<"input_ids">>, "hidden_a", 0)>>
    \o FlattenSeq([l \in 1 .. NumLayers |->
                     DecoderLayer(l, Current(l), attention[l], Other(Current(l)))])
    \o << Op("advance", << >>, << >>, Nowhere, 0),
          RMSNorm(0, "norm", Current(NumLayers + 1), "hidden_states"),
          Linear(0, "lm_head", "hidden_states", "logits") >>

ForwardProgram == Model([l \in 1 .. NumLayers |-> Attention(l)])
(* forward_decode_batch takes the paged cache only, where advance does     *)
(* nothing.                                                                *)
BatchProgram ==
  [b \in 1 .. Cardinality(Requests) |-> Model([l \in 1 .. NumLayers |-> BatchAttention(l, b)])]

Program == IF job.kind = "batch" THEN BatchProgram[Len(job.tokens)] ELSE ForwardProgram

-----------------------------------------------------------------------------
Unwritten == "unwritten"    \* a row of a tensor nothing was written to

Tensors ==
  (UNION {{ForwardProgram[i].out} \cup Range(ForwardProgram[i].ins) : i \in DOMAIN ForwardProgram})
    \cup {"k_row", "v_row"}
LayerLocals == Tensors \ {"input_ids", "hidden_a", "hidden_b", "hidden_states", "logits"}

Width(v) ==
  CASE v \in {"q_flat", "attn_out_flat"}                    -> QSize
    [] v \in {"k_flat", "v_flat"}                           -> KvSize
    [] v \in {"q_2d", "k_2d", "q_normed_2d", "k_normed_2d"} -> HeadDim
    [] v \in {"gate", "up", "act"}                          -> IntermediateSize
    [] v = "logits"                                         -> VocabSize
    [] OTHER                                                -> HiddenSize

(* The shape checks of Linear, RMSNorm and Embedding against their weight. *)
Fits(op) ==
  LET shape == mem.obj[Slot(op.w)].shape
  IN  CASE op.op = "linear"    -> shape = <<Width(op.out), Width(op.ins[1])>>
        [] op.op = "rms_norm"  -> shape = <<Width(op.ins[1])>>
        [] op.op = "embedding" -> shape[2] = Width(op.out)
        [] OTHER               -> TRUE

WeightOf(n) == Contents(mem, Slot(n))

-----------------------------------------------------------------------------
(* What the layers of Qwen3 compute, as terms: the hidden state of token t *)
(* after layer l, and the key and value of t in layer l.  Contexts(t) is   *)
(* the sequence of tokens t attends to.                                    *)
Hidden(l, t) ==
  IF l = 0 THEN <<"embedding", WeightOf(<<0, "embed_tokens">>), t>> ELSE <<"hidden", l, t>>

LinearOf(l, part, x) == <<"linear", WeightOf(<<l, part>>), x>>
NormOf(l, part, x) == <<"rms_norm", WeightOf(<<l, part>>), x>>
Normed(l, t) == NormOf(l, "input_layernorm", Hidden(l - 1, t))

QueryOf(l, t) == <<"rotary", NormOf(l, "q_norm", LinearOf(l, "q_proj", Normed(l, t)))>>
KeyOf(l, t) == <<"rotary", NormOf(l, "k_norm", LinearOf(l, "k_proj", Normed(l, t)))>>
ValueOf(l, t) == LinearOf(l, "v_proj", Normed(l, t))

LayerOf(l, t, context) ==
  LET attended == LinearOf(l, "o_proj", <<"attention", QueryOf(l, t), context>>)
      middle == <<"add", Hidden(l - 1, t), attended>>
      normed == NormOf(l, "post_attention_layernorm", middle)
      act == <<"silu_and_mul", LinearOf(l, "gate_proj", normed), LinearOf(l, "up_proj", normed)>>
  IN  <<"add", middle, LinearOf(l, "down_proj", act)>>

LogitsOf(t) == LinearOf(0, "lm_head", NormOf(0, "norm", Hidden(NumLayers, t)))

(* The tokens the caches count for a request.                              *)
CachedTokens(r) ==
  CASE mode = "contiguous" -> fed [] mode = "paged" -> cached[r] [] OTHER -> << >>

ContextOf(i) ==
  IF job.kind = "batch" THEN Append(CachedTokens(job.of[i]), job.tokens[i])
  ELSE CachedTokens(job.of[i]) \o SubSeq(job.tokens, 1, i)

-----------------------------------------------------------------------------
(* A cached row stands for the token whose key and value of that layer     *)
(* were written, a hidden row for the token and layer it is the output of. *)
Stored(l, k, v) ==
  IF \E t \in Range(job.tokens) : k = KeyOf(l, t) /\ v = ValueOf(l, t)
  THEN CHOOSE t \in Range(job.tokens) : k = KeyOf(l, t) /\ v = ValueOf(l, t)
  ELSE <<"wrong", l>>

Named(l, i, term) ==
  IF l > 0 /\ term = LayerOf(l, job.tokens[i], ContextOf(i))
  THEN Hidden(l, job.tokens[i]) ELSE term

Rows == DOMAIN job.tokens

(* Prefill attends to the keys and values at hand, everything else to the  *)
(* cached rows up to and with its own.                                     *)
Reads(op, i) ==
  IF job.kind = "forward" /\ job.past[i] = 0
  THEN [j \in 1 .. i |-> Stored(op.l, buf["k_rot"][j], buf["v_3d"][j])]
  ELSE SubSeq(IF mode = "contiguous" THEN layers[op.l].rows ELSE pool[job.of[i]][op.l],
              1, job.past[i] + 1)

Result(op, i) ==
  LET in(k) == buf[op.ins[k]][i]
  IN  CASE op.op \in {"linear", "rms_norm", "embedding"} -> <<op.op, WeightOf(op.w), in(1)>>
        [] op.op = "copy"      -> in(1)
        [] op.op = "rotary"    -> <<"rotary", in(1)>>
        [] op.op = "attention" -> <<"attention", in(1), Reads(op, i)>>
        [] OTHER               -> Named(op.l, i, <<op.op, in(1), in(2)>>)

-----------------------------------------------------------------------------
Passing == job.kind # "none"
NoJob == [kind |-> "none", of |-> << >>, tokens |-> << >>, past |-> << >>, at |-> 0]
Instruction == Program[job.at]

ForwardInit ==
  /\ Init /\ CacheInit
  /\ pool = [r \in Requests |-> [l \in 1 .. NumLayers |-> [p \in 1 .. MaxTokens |-> Unwritten]]]
  /\ cached = [r \in Requests |-> << >>]
  /\ mode = "unset" /\ job = NoJob /\ buf = << >>

Start(kind, of, m) ==
  /\ mode \in {"unset", m} /\ mode' = m
  /\ job' = [kind |-> kind, of |-> of, tokens |-> [i \in DOMAIN of |-> <<passes + 1, i>>],
             past |-> [i \in DOMAIN of |-> Len(CachedTokens(of[i]))], at |-> 1]
  /\ buf' = [v \in Tensors |-> IF v = "input_ids" THEN job'.tokens
                               ELSE [i \in DOMAIN of |-> Unwritten]]
  /\ UNCHANGED <<loadingVars, pagedVars>>

MayBegin == outcome = "ready" /\ loads \in ServedLoads /\ ~ Passing /\ passes < MaxPasses

(* Once main has accepted the weights.  Over a cache that holds something, *)
(* only one token at a time.                                               *)
Begin(r, n, m) ==
  /\ MayBegin
  /\ LET past == Len(CachedTokens(r)) IN past + n <= MaxTokens /\ (past # 0 => n = 1)
  /\ Start("forward", [i \in 1 .. n |-> r], m)
  /\ IF m = "contiguous" THEN BeginPass(n) ELSE passes' = passes + 1 /\ UNCHANGED kvVars

BeginBatch(of) ==
  /\ MayBegin
  /\ \A i \in DOMAIN of : Len(cached[of[i]]) < MaxTokens
  /\ Start("batch", of, "paged")
  /\ passes' = passes + 1 /\ UNCHANGED kvVars

InPass(op) == Passing /\ job.at <= Len(Program) /\ Instruction.op \in op
NextOp == job' = [job EXCEPT !.at = @ + 1] /\ UNCHANGED <<loadingVars, cached, mode>>

Locals ==
  /\ InPass({"locals"})
  /\ buf' = [v \in Tensors |-> IF v \in LayerLocals THEN [i \in Rows |-> Unwritten] ELSE buf[v]]
  /\ NextOp /\ UNCHANGED <<kvVars, passes, pool>>

Compute ==
  /\ InPass({"linear", "rms_norm", "embedding", "copy", "rotary", "attention", "add", "silu_and_mul"})
  /\ Instruction.w # << >> => Fits(Instruction)
  /\ buf' = [buf EXCEPT ![Instruction.out] = [i \in Rows |-> Result(Instruction, i)]]
  /\ NextOp /\ UNCHANGED <<kvVars, passes, pool>>

(* k_row and v_row of the batch: tensors of one row.                       *)
CopyRow ==
  /\ InPass({"row"})
  /\ buf' = [buf EXCEPT ![Instruction.out] = <<buf[Instruction.ins[1]][Instruction.row]>>]
  /\ NextOp /\ UNCHANGED <<kvVars, passes, pool>>

NewRows ==
  LET new(k) == buf[Instruction.ins[k]]
  IN  [i \in DOMAIN new(1) |-> Stored(Instruction.l, new(1)[i], new(2)[i])]

Written(rows, at, new) ==
  [p \in DOMAIN rows |-> IF p - at \in DOMAIN new THEN new[p - at] ELSE rows[p]]

UpdateLayer ==
  /\ InPass({"update_layer"})
  /\ LET i == IF job.kind = "batch" THEN Instruction.row ELSE 1
     IN  /\ IF mode = "contiguous" THEN WriteRows(NewRows) ELSE UNCHANGED <<kvVars, passes>>
         /\ pool' = IF mode = "paged"
                    THEN [pool EXCEPT ![job.of[i]][Instruction.l] = Written(@, job.past[i], NewRows)]
                    ELSE pool
  /\ NextOp /\ UNCHANGED buf

AdvanceCache ==
  /\ InPass({"advance"})
  /\ IF mode = "contiguous" THEN Advance ELSE UNCHANGED <<kvVars, passes>>
  /\ NextOp /\ UNCHANGED <<pool, buf>>

EndPass == job' = NoJob /\ buf' = << >> /\ UNCHANGED <<loadingVars, pool, mode, passes>>

(* A forward pass feeds one request, a batch a token to each of its own.   *)
FedTo(r) ==
  IF r \notin Range(job.of) THEN << >>
  ELSE IF job.kind = "batch" THEN <<job.tokens[CHOOSE i \in Rows : job.of[i] = r]>>
  ELSE job.tokens

(* The engine counts the tokens of the paged cache when forward returns.   *)
Return ==
  /\ Passing /\ job.at > Len(Program)
  /\ cached' = IF mode # "paged" THEN cached ELSE [r \in Requests |-> cached[r] \o FedTo(r)]
  /\ EndPass /\ UNCHANGED kvVars

(* No memory, a CUDA error, or a weight of the wrong width.                *)
Throw ==
  /\ Passing /\ job.at <= Len(Program)
  /\ EndPass /\ UNCHANGED cached
  /\ IF Running THEN PassThrows ELSE UNCHANGED kvVars

ForwardNext ==
  \/ passes = 0 /\ Next /\ UNCHANGED forwardVars
  \/ \E r \in Requests, n \in PassLens, m \in CacheModes : Begin(r, n, m)
  \/ \E b \in 1 .. Cardinality(Requests) : \E of \in [1 .. b -> Requests] :
       IsInjective(of) /\ BeginBatch(of)
  \/ Locals \/ Compute \/ CopyRow \/ UpdateLayer \/ AdvanceCache \/ Return \/ Throw

ForwardSpec == ForwardInit /\ [][ForwardNext]_<<loadingVars, forwardVars>>

-----------------------------------------------------------------------------
(* A pass that gets to its end has computed, for every row, the logits of  *)
(* that row's token over the context that the caches and the pass give it: *)
(* right layer, right weight, right tensor, whichever buffer it was in.    *)
(* No weight of another width ever gets an answer out of a pass, and a     *)
(* pass over weights of the right width finds every shape right.           *)
ForwardComputes ==
  LET fitting == \A n \in Range(Names) : mem.obj[Slot(n)].shape = Shape(n)
  IN  Passing =>
        IF job.at > Len(Program)
        THEN fitting /\ \A i \in Rows : buf["logits"][i] = LogitsOf(job.tokens[i])
        ELSE fitting /\ Instruction.w # << >> => Fits(Instruction)

(* Both caches hold, in every layer, the keys and values of the tokens     *)
(* they count, computed by that layer, whatever passes threw in between.   *)
CachesHold ==
  /\ RowsHold
  /\ \A r \in Requests, l \in 1 .. NumLayers : \A p \in DOMAIN cached[r] :
       pool[r][l][p] = cached[r][p]
=============================================================================
