# A specification of LiteLLMEngine

LiteLLMEngine is a C++/CUDA inference engine for Qwen3 models. This directory
holds TLA+ modules of its control logic, the TLC configurations that check
them on small instances, and proofs, checked by TLAPS, that hold for every
instance. Paths below are relative to the repository root.

## 1. The system

One host thread drives everything. Concurrency exists only inside CUDA kernels;
what makes the host code hard is that a call is a long chain of operations, any
of which may throw, over state that several requests share.

| Component | State | Operations | Hard behaviour | Correct when |
|---|---|---|---|---|
| `BlockTableManager` (`src/engine/block_table_manager.cpp`) | free blocks, per-block flag, block tables, per-table flag, reusable indices | `allocate_table`, `free_table`, `ensure_blocks`, `physical_token_index`, `reset` | blocks and indices are recycled through two stacks in any order; stale indices; exhaustion | each block is free or in one place of one table; mappings of live tables never move |
| `GenerationRequest`, `RequestManager` (`request.cpp`, `request_manager.cpp`) | token vectors, `cached_len`, `table_idx`, status, options of the turn | add, append input, reset options, mark, append token, finish, ensure/release blocks | multi-turn life cycle, roll-back when blocks run out | lengths respect `max_device_len`; `cached_len` counts what is in the cache |
| `PagedKVCacheManager`, `ModelPagedKVCache` | one K and one V pool per layer, capacity | `ensure_blocks`, `release`, `fill_forward_context`, `update_layer`, gathers | writes happen layer by layer, before the lengths advance | a slot holds the token its table maps to it |
| `PagedGenerateEngine` (`paged_generate_engine.cpp`) | the three above | `add_request`, `append_input_tokens`, `prefill`, `decode_one_step`, `decode_batch`, `generate_until_finished`, `release_request` | partial failure in the middle of a call or of a batch | every attention reads what it should; requests advance independently; no call strands a request or loses blocks |
| `ModelKVCache` (`kv_cache.cpp`) | rows per layer, `current_len_`, capacity | `ensure_capacity`, `update_layer`, `advance`, `reset` | growth while a pass is under way, passes that throw | rows below `current_len_` are the tokens fed |
| Qwen3 model (`src/model/qwen3.cpp`) | weights | `load_weights`, `forward`, `forward_decode_batch` | order of cache write, attention and advance; two hidden buffers that change places; a pass or a load that throws half way | a pass computes the layers over the right context; a load that returns left the right weight everywhere |
| Greedy generators (`src/runtime/generation.cpp`) | a request and a cache of their own | three loops | three answers to EOS and to the last token | same tokens from all three |
| Benchmark (`src/benchmark/`) | an engine per run | sequential, interleaved, batched schedules | pool sized in tokens, used in blocks | a run never starves |
| Kernels (`src/ops/`, `src/layers/`) | shared memory, error flag, dense block tables | reductions, attention, embedding, rotary, linear, elementwise | threads between barriers, ties, padding, flat indices, launch grids | same result as the CPU versions |
| `Tensor`, memory tracker (`src/core/`) | one allocation per tensor, counters | allocate, move, copy, release | ownership on move, exceptions | every byte allocated is freed once |
| Weight loading (`src/weights/`, `main.cpp`) | the map of tensors read so far | `load_weight_map_from_directory`, `add`, `take` | an exception at any entry; leftovers; a second load over a first | nothing leaks; a good directory is accepted, a wrong one refused |
| Tokenizer, arguments, configuration, download | - | parsing, I/O | - | - |

Interaction: the engine calls `RequestManager` for lengths and status,
`PagedKVCacheManager` for blocks, the model with pointers to the pools and the
`BlockTableManager`, then `argmax`, then `RequestManager` again. The model's
attention writes the pools of its layer and reads them back through the block
table. Nothing is called back and nothing is undone when an exception leaves.

`PROJECT.json` lists, line by line, the hazards of this code and the
properties that cover them.

## 2. The modules

**`BlockTableOps`** translates each operation of `BlockTableManager` to an
operator from one manager record to the next; the fields of the record are the
fields of the class, and table index `i` of the code is `i + 1` (so that
`NoTable = 0` is the code's `-1`). It also names what makes a manager well
formed. Both `BlockTable` and the engine are built on it.

**`BlockTable`** is the manager as a state machine: one action per public
operation and outcome, `reply` being what the caller learns. `FreeThrows` and
`EnsureFails` are the calls that throw. **`BlockPool`** is what the manager
promises, without indices, stacks or order: handles own disjoint sets of
blocks, a request for blocks is met in full or fails, and it fails only when
the free blocks do not suffice. `BlockTable` implements it (`ImplementsPool`).

**`RequestOps`** is `GenerationRequest` and the updates that `RequestManager`
makes to one. Tokens are only ever appended, so token `p` of request `r` never
changes and the model keeps lengths instead of vectors, and in `eos` whether
the tokens generated in this turn end with the EOS token.

**`PagedEngine`** composes them. A call is cut into steps where an exception may
leave it: `reserve` (blocks for the next chunk, or for the next id of a batch),
`forward` (one layer a step: write the rows, then attend), `mark`, `sample`,
`append`. `call` is the program counter with the ids still to reserve (`todo`)
and the rows given to the model (`rows`, the `past_lens` and lengths of the
forward context). A new call starts only when none is under way: there is one
host thread. `kv[l][s]` is the tag `<<request, position>>` of the token whose K
and V are in slot `s` of layer `l`: whether a stale or foreign token is read is
then a comparison of tags. Whether a sampled token is EOS is a choice.
`FaultInForward` and `FaultInSample` are exceptions of the tensor layer. The
first may come before any token a layer writes, between the copies of its K and
of its V (`UpdateFails`), or after the last one; what is written stays, and the
code undoes nothing.

**`TokenStream`** is what the engine promises of each request whatever way it
batches, chunks and caches: tokens are sampled only after every token before
was fed, within the quota of the turn, and requests do not disturb each other.
A turn goes on until it has sampled EOS or its quota, unless the caller ends it:
finishing it one token early is no step of `TokenStream`.

**`KVCache`** is `ModelKVCache` under forward passes of several layers, any of
which may throw; rows carry the tag of the token written there, `UnsetRow` is the
memory of a new tensor, and `fed` remembers the tokens of completed passes.

**`Generation`** is the three generators of `src/runtime/generation.cpp`, one
action for each pass, check and way out; EOS right after the prefill
(`StopAfterPrefill`) and EOS in the loop (`StopInLoop`) leave the paged generator
at different places, each with its own release. The model is a function of what it
attends to: it continues tokens `1 .. n` with `n + 1` (or EOS, where the call
says so) and anything else with `Wrong`, so a cache that loses, repeats or
shifts a token shows in the output. A call owns its caches, hence an exception
leaves nothing behind and is not modelled here. The generators drop the EOS
token (`tests/test_generation_kv_cache.cpp`), the engine keeps it
(`tests/test_paged_generate_engine.cpp`): both are what the tests ask for.

**`Benchmark`** is a caller of `PagedEngine`: the round robin and the batched
schedule of `generation_benchmark.cpp`. `plan` holds its loop variables; the
engine's actions are those of `PagedEngine`, started by the schedule instead of
by an arbitrary caller. A run after a run (warm-up, measurement) has a new
engine.

**`ThreadBlock`** is a CUDA thread block as these kernels use it: threads that
run freely between barriers, strided loops, the halving tree. **`AttentionKernel`**
runs it through one head of one row of the three attention kernels, and gives
the outputs of the CPU loops beside them (`CpuOnePass`, of the steps `CpuRun`, for the two loops of
`attention.cu`, `CpuTwoPasses` for the two of `paged_attention.cpp`, which find
the largest score and the sum first). Numbers are
replaced by where they come from: K and V by the tag of their token, a partial
dot product by the bag of its terms, the running softmax and an element of the
accumulator by the sequence of what was folded into them. `KeyAt` is where the
three kernels differ: the tokens just fed, the rows gathered through
`physical_token_index`, or the pool through the dense block table. One thread's
work between two barriers is one step; `RaceFree` is what makes that sound. It
is about `Reads` and `Writes`, the shared cells a thread touches in each phase,
which are written by hand beside the actions from the same lines of the kernels,
since TLA+ cannot derive them from an action.
**`RowKernels`** runs the same block over a row of logits, with floats as an
ordered set with two bottoms and NaN, and over a row of `rms_norm`, whose sum of
squares is how often each square was added.

**`ElementKernels`** is the kernels without barriers: embedding, rotary, the
bias of linear behind its cuBLAS product, `silu_and_mul` and `add`. Threads of
all blocks run in any order; each takes its flat index apart as the kernel
does, and a term says which elements a result was computed from. `Gemm` is the
column-major `cublasSgemm` as `linear_forward_cuda` calls it. `Blocks` is the
launch grid with its narrowing to `int`. The host goes on at once, except that
the embedding waits in `copy_to_cpu` for its error flag.

**`TensorOps`** is `Tensor` and the byte counters of the memory tracker, as
operators on a memory: allocations, `Tensor` objects that own one or none,
counters. **`WeightLoading`** is everything from a directory of weights to a
model that `main` accepts: the loader, one entry at a time; `load_weights` as
the plan of takes and checks that its nested functions make (`Plan`); the
checks of `main`; and the end of the map's scope. Each step may throw;
`Unwound` is what stack unwinding destroys. A directory has at most one wrong
entry, and a second directory may be loaded over the first.

**`Qwen3Forward`** extends it with the passes over those weights. A pass is a
program, a sequence of operations with the tensors and the weight each one
reads and the tensor it writes, in the code's order (`ForwardProgram`,
`BatchProgram`); `buf` is its tensors, `job` the rows under way and the next
operation. It extends `KVCache` too: the contiguous cache takes part with its
own actions, the paged one is `pool`, by logical position, since
`PagedEngine` and `BlockTable` say where a position is. What the layers should
compute is written beside it as terms (`LayerOf`, `LogitsOf`), over the tokens
that the caches count.

**`PagedEngineInv`** is the inductive invariant of the engine, in a module of
its own that TLC can evaluate too. The **`*Proofs`** modules hold the theorems
of section 5.

**`MC*`** modules give the constants finite values. Operators commented as
*Mutant* are plausible wrong versions of the operator that follows them; they
are not used, but each property is known to fail when one replaces its original.

## 3. What TLC checks

| Run | Bounds | Shows |
|---|---|---|
| `block_table` | 4 blocks of 2 tokens, 3 tables of up to 5 tokens | type, `BlockPartition`, `IndexStack`, `TablesBounded`, `SlotsDisjoint`, `MappingStable`, and the refinement of `BlockPool` |
| `engine` | 2 requests of up to 4 tokens, 3 blocks of 2, capacity 5, 2 layers, 1 exception, refused options | `CacheHolds`, `AttentionReads`, `ModelAccepts`, `TableOwners`, `NoHoarding`, `StarvesOnlyWhenFull`, `LenWithinMax`, `Resumable`, and the refinement of `TokenStream` |
| `engine_returns` | 2 requests of up to 5 tokens, 2 blocks of 2, capacity 3, so that a request may outgrow it, 1 exception, batches that may list an id twice | `CallReturns` under fairness; `LenWithinMax` and `ModelAccepts`, which survive repeated ids |
| `kv_cache` | 3 layers, capacity 0 doubling to 8, 5 passes | `RowsHold`, `PassKept`, `CapacityAgrees` |
| `generation` | prompts and quotas of up to 4, 3 blocks of 2, EOS at every position | `SameTokens`, `NeverThrows`, `AllReleased` |
| `benchmark` | 3 requests of 4 tokens, 1 to spare, 5 blocks of 3, 2 layers, both schedules | `NeverThrows`, `AllServed`, `PoolRefilled`, `RunEnds` |
| `attention_kernel` | 4 threads, 5 elements, 2 rows of up to 3 tokens in 3 blocks of 2, three kernels | `RaceFree`, `Attends`, `KernelEnds` |
| `row_kernels` | 4 threads, rows of 1 to 5 elements, logits out of 5 floats | `SameAsCpu` |
| `element_kernels` | blocks of 2 threads, 5-bit `int`, up to 3 tokens, heads and columns, lengths 0, 1, 5, 17, 34 | `SameAsLoops` |
| `model` | 2 layers with 25 weights, 2 loads, 1 failed allocation, then 3 passes of up to 2 requests and 3 tokens over no cache, the contiguous or the paged one | `HeapOwned`, `LoadedWhole`, `RefusedForCause`, `ForwardComputes`, `CachesHold` |
| `engine_zero_turn` | 1 request | *violated*: `LenWithinMax` for a turn of zero tokens |
| `engine_reuse` | 2 requests | *violated*: `AttentionReads` for a released request that is revived |

Why these bounds are enough to be interesting. The pool is always smaller than
the sum of what the requests want, so starvation happens, in the first and in
later places of a batch; a page holds two tokens and prompts are shorter,
equal to and longer than a page, so tokens end inside and at the end of a block;
two layers are enough for one to be written and the other not; capacities 5 and 3 are
not multiples of the page size; three requests free blocks in an order that
differs from the order they were taken. `MaxLen`, `MaxRequests`, `MaxFaults`,
`MaxLive`, `MaxTokens` and `MaxPasses` only bound the state space; they are in
the guards of what a caller does, never of what the engine does.

The kernels run with 4 threads, so that the tree has two levels and a thread
has none, one or two elements of the loop; the tables of the two rows of
`attention_kernel` take every order of the blocks and may hold one block more
than the row needs. `generation` puts EOS before, at and after every position
of the output, and its paged calls are the two lengths for which the pool has
three blocks, one of which may use every slot. In `model` every weight in turn
is the one that is missing, doubled, unreadable, malformed or of the wrong
width; two layers make the buffers change places and come back; 51 addresses
hold two whole sets of weights and the tensor in hand, so that allocation
fails only where the model says so. Passes start after the first load only
(`ServedLoads`), and the second directory is good or lacks an entry: what a pass does depends on the
weights that are there, not on the load that brought them. The lengths 17 and
34 of `element_kernels` do not fit a five-bit `int`: 17 is narrowed to a
negative number and refused by the launch, 34 to 2. `benchmark` takes the
largest pages for which the pool still suffices, the equality case of
`PoolSuffices`.

What callers are assumed to do is explicit in the constants of `PagedEngine`:
`RepeatInBatch` (an id twice in a batch), `ReuseReleased` (more input for a
request that was released while it had cached tokens) and a zero in
`AppendMaxNews` (a turn of no tokens). The passing runs that check the cache
exclude these; a run of its own shows what each does.

**Fairness.** `FairSpec` adds weak fairness of `EngineStep`, that is, the host
thread keeps executing the call it is in. Callers are not assumed to call, and
exceptions are not assumed to come or to stay away. `BenchSpec` adds weak
fairness of the benchmark's next step: the thread that runs it runs nothing
else. `FairSpec` of `AttentionKernel` adds that some thread or the barrier moves
when one can: the GPU lets every thread of a resident block run. Four runs do
not check deadlock: a kernel that is done stays done (`attention_kernel`,
`row_kernels`, `element_kernels`), and the history of `model` ends after
`MaxLoads` and `MaxPasses`.

## 4. What is disagreed

Two runs find a statement of the repository violated by its code.

1. *A turn of zero tokens* (`engine_zero_turn`). `add_request` with
   `max_new_tokens = 0` makes a finished request, `generate_until_finished`
   treats 0 as nothing to do, but `append_input_tokens(..., 0, ...)` leaves the
   request `WaitingPrefill` or `Decoding`, and the next call that samples appends
   a token, against `assert(device_len() <= max_device_len())`
   (`include/engine/request.hpp:77`). The run: a request of one prompt token is
   added, a second token is appended with `max_new_tokens = 0` before any
   prefill, and `prefill` feeds both and appends a token, so that `device_len` is
   3 and `max_device_len` 2.
2. *Reviving a released request* (`engine_reuse`). `release_request` gives the
   blocks back and keeps `cached_len`; `append_input_tokens` then revives the
   request, and its attention reads `cached_len` positions of a fresh table. The
   run: request 1 is prefilled in block 0, ends at EOS, is released and given two
   more tokens. A batch of requests 2 and 1 reserves block 0 for request 2 and is
   refused at request 1, which has two tokens to feed. The prefill of request 1
   takes block 1 with a past of one token, and its attention reads position 0
   there, which nobody has written.

Also visible in the model, without a statement to contradict: an exception in
`argmax_last_token` after `mark_forward_done` leaves a request `Decoding` with
nothing to feed, which neither `prefill` nor `decode_one_step` accepts
(`Resumable` is checked with exceptions everywhere else); a batch that lists an
id twice counts a token as cached that was never fed; a benchmark with pages of
more than 18 tokens may starve its last requests (`PoolSuffices` is the
condition); a failed load over a loaded model leaves weights of two directories
with `initialized()` still true, until the next load replaces them all
(`LoadedWhole` is about loads that return); the width of a layer's two norms is
checked by no load, only by the first pass, which throws after earlier layers
wrote the cache (`ForwardComputes` covers it); the contiguous cache has
advanced when the final norm or `lm_head` throws; a kernel over more elements
than an `int` counts either fails to launch or leaves elements out; on a row without a logit above `-FLT_MAX`, or that begins with NaN,
the CPU's argmax and CUDA's differ.

## 5. What is proved

Every theorem holds for any value of the constants that the named assumptions
allow; TLC evaluates those assumptions on every run. A theorem that needs more
says so in its own hypotheses. The names below are those of `PROJECT.json`.

### The block table (`BlockTableOpsProofs`, `BlockTableProofs`)

For any number of blocks, any page size and any number of live tables:

- `SpecInv`: `Inv` is invariant, where `Inv` is `TypeOK`, `BlockPartition` and
  `IndexStack` together. None is inductive alone: that a popped block is in no
  table needs the partition, that a reused index names an empty table needs the
  index stack, and that a freed block returns to the free stack once needs the
  tables to be disjoint.
- `TypeCorrect`, `BlocksPartitioned`, `IndicesOnStack`: its three parts.
- `SlotsNeverShared`: from the partition, by the arithmetic of
  `physical_token_index` (`PhysicalInjective`).
- `TablesNeverOutgrow`: a new table is made only when the stack is empty, that
  is, when all tables are live.
- `MappingNeverMoves`: an action property, from the frame lemmas of each
  operation (`AllocateFrame`, `FreeFrame`, `EnsureFrame`).
- `ManagerImplementsPool`: the manager implements `BlockPool`. The partition
  makes "no live table owns it" and "on the free stack" the same
  (`FreeIsUnowned`), a table holds as many blocks as it is long
  (`TableCounted`), and `ensure_blocks` adds exactly the blocks it pops
  (`EnsureAdds`), so each call maps to the abstract one with the same answer.

The lemmas are stated on `BlockTableOps`, hence serve the engine too, and those
on `RequestOps` stand beside them.
Assumptions: `NumBlocks` and `PageSize` are positive (the constructors throw
otherwise), bounds are naturals.

### The engine (`PagedEngineProofs`)

For any number of requests, tokens, blocks and layers, and callers that call
what they like. `PagedEngineInv` holds the inductive invariant,
`EngineInv == StateInv /\ CallInv` (`SpecInv`):

- `StateInv`: the types, a well-formed block table, `TableOwners`,
  `NoHoarding`, and `Counts` of each request: no more is cached than there is,
  the tokens are the prompt and what was sampled, the quota is kept.
- `CallInv`: what a call has in hand. `Shape` says which stage has which lists;
  `TodoFits` that what is still to be reserved is what was asked when the call
  began; `RowsMapped` that the rows already accepted have blocks for their
  tokens. Between the two lie the reservations of other requests of a batch:
  these take blocks, end requests and release their tables, so a row has to be
  shown not to be touched by its neighbours. `RowsUnmarked` and `RowMarked` say
  that a row was not advanced before its turn and is exactly once after it, and
  `Distinct` that this turn is its only one. `RowsFit` is what is left of
  `RowsUnmarked` when a batch lists a request twice.

From it follow `TypeCorrect`, `TablesOwned`, `NothingHoarded`,
`ModelNeverThrows` (what `Qwen3Attention` and `ModelPagedKVCache` throw on
never reaches them) and `LenIsWithinMax`.
The latter has the hypothesis `QuotaGiven`, no turn of zero tokens;
`engine_zero_turn` shows that it is needed.

`StarvingIsFull`: blocks run out only if the requests' needs together exceed the
pool. Every block is charged to a unit of somebody's need: a block of a table to
its request at its place, which `NoHoarding` keeps within the need, and a free
block to the asker, who has fewer of them than it wants; so one unit is left
over (`NeedsExceed`). The needs are compared through `Units`, the set of pairs of
a request and a number below its need: `UnitsAreSum` shows that a sum over a set
of requests is the number of their units, by a smallest subset for which
it would not be.

`TokenLeft` adds `HasToken`, that a request which awaits nothing has a token to
feed; `RequestsResumable` follows for batches without repeats (`NoRepeats`)
and without an exception in the sampling of a single request (`SampleSafe`, see
section 4).

`CacheIsHeld` adds `CacheInv`: `CacheHolds`, and `RowsWritten`, that in the
layers the pass has been through, the rows' slots hold their tokens. `CacheHolds` says
nothing of those until the row is marked, and then needs all of them. A pass
that throws in the middle of a layer, even between the K and the V of a token,
has touched only what is not counted yet (`FailingKeepsCache`). A slot of a live table
is in no other table and no other position (`SlotOwned`), so what one row
writes leaves every other token where it is (`WritesOwn`, `TokenStays`), and a
reservation moves no mapping. `CachedTokensHeld` and `AttentionFinds` (every
attention reads the tokens of its own request, in order) follow, for batches
without repeats and without a released request taken up again (`NoReuse`);
`engine_reuse` shows the second to be needed.

`EngineImplementsStream`: the engine implements `TokenStream`, step by step.
`MarkIsFeed` and `AppendIsSample` are the two steps that are not stutters
within a call; all of blocks, layers, batches and exceptions are stutters.

### The generators (`GenerationProofs`)

For any prompt, quota, pool and position of EOS, `SpecInv` proves `IndInv`: the
output so far is `1 .. n`, the rows of the cache or the slots of the table hold
the tokens fed (`RowsHeld`, `SlotsHeld`), the request counts what the loop
counts (`RequestCounts`), and the call has the one table of its manager
(`OneTable`), which is why the blocks computed from the lengths suffice and no
guard throws. `TokensAgree`, `GuardsNeverThrow` and `BlocksGivenBack` follow:
the three generators return the same tokens, none of their checks fires, and
the paged one gives all blocks back.

### The benchmark (`BenchmarkProofs`)

For any number of requests, lengths and layers, and pages of at most
`Slack + 2` tokens (18 in `generation_benchmark.cpp`), `BenchInvariant` proves
`BenchInv == EngineInv /\ HasToken /\ PlanInv`; `BenchNeverThrows`,
`EveryRequestServed` and `BlocksComeBack` follow from it. The second says that
each request has stopped at EOS or has exactly `max_new_tokens` tokens when
decoding ends: `Alike`, a part of `PlanInv`, keeps for every request that it is
finished only when one of the two holds.

The pool is computed in tokens and given out in blocks. `PoolSuffices` is the
arithmetic: a request of `len` tokens feeds `len - 1` of them, so its blocks
hold less than a page more, at most `len + slack` tokens
(`RequiredBlocksRoundUp`), and the pool has that share, its quota, for every request. `Modest` says
that no request ever exceeds its quota; counting the blocks by an injection into
requests and places (`OwnedCounted`, `EnoughFree`) then gives a reservation the
blocks it asks for (`BlocksAreThere`), so no call is refused or skipped.
That a call is accepted needs more: `decode_one_step` and `decode_batch` refuse
a request with several tokens to feed, hence `OneTokenLeft`, which prefill
establishes and every turn keeps, and `WholeCall`, that a call feeds all a
request has. `FlagTrue` is what the loop variable `all_finished` says in the
middle of a round, over the requests already seen; `Released` is the same for
the tables given back. `OnlyCallerAssumption` says that the benchmark is the
only caller, as it is: it lists each request once and starts no second turn.
An exception of the tensor layer ends it.

### The contiguous cache (`ModelProofs`)

For any number of layers, any initial capacity and any
length of a pass, `RowsAlwaysHold`, `PassAlwaysKept` and
`CapacityAlwaysAgrees`, the parts of its invariant `CacheInv` that TLC checks. The
other two parts are why they are inductive together: the types, and `PassFits`,
which says that a pass runs over the length it started from and that, once a
layer of it is written, the capacity already covers the whole pass. So only the
first layer of a pass can grow the cache, when there is nothing of the pass to
lose, and the rows that count are copied by `GrownKeeps`. Growth throws away
whatever lies beyond `current_len_`, and without `PassFits` that would seem to
include the rows of earlier layers. That the doubling ends with enough room
(`DoubledSuffices`) takes the least element of a set of naturals and the
assumption `PowersOfTwo`, `k <= 2^k`: elementary, but the provers know nothing
of `^`, so it is an assumption that TLC evaluates up to `MaxTokens`.

### Loading weights (`ModelProofs`)

For any number of layers and any sizes, any directories loaded one after the
other with at most one entry wrong each, and allocations that fail anywhere.
`ForwardSpecInv` proves `LoadInv`, of loading with the passes that follow it: a
pass touches no weight, so every step of it leaves `LoadInv` as it was
(`LoadSpecInv` says the same of loading alone). `HeapAlwaysOwned`,
`AlwaysLoadedWhole` and `AlwaysRefusedForCause` follow.

The plan of a load and the entries of a directory are sequences joined layer by
layer, so first each position in them gets its content: `FlattenLaid` says where
`FlattenSeq` puts an element of parts of equal length, by the least part for
which it would put it elsewhere; `PlanIs` and `NamesAre` are the closed forms,
from which follow that each name is taken once (`TakesDiffer`), and before it is
checked (`ChecksAre`).

The memory comes next: `Whole` says that every allocation has one owner that
knows its size and that both counters are the sum of the bytes. The sum, a fold
over the heap, is the cardinality of its units, pairs of an address and a number
below its size (`UnitsAdd`), so that an allocation adds its bytes and a free
takes them off whatever the order. Construction, release, destruction and moves
keep `Whole` and leave every other object as it is (`Releases`, `WithoutWhole`
and the lemmas beside them); an exception that destroys the map does it for all
its tensors at once.

`LoadInv` adds what was done so far: the map holds the entries read so far, each
with its own shape (`MapHolds`, `ReadSoFar`); a load that has reached step `p` has
moved what the steps before `p` take to their layers and has found fitting what they
check (`LoadedSoFar`), and, unless the same map was loaded before, nothing else
has left the map. The last is why a failure has a cause: a name that is not there
was not in the directory. `AfterRead` and `AfterLoad` keep this when the call has
ended. That a layer may still own a weight of an earlier load is no obstacle:
`Take` releases what it moves into.

### The forward passes (`ModelProofs`)

For any number of layers, any set of requests, passes and batches of any length
over the contiguous cache, the paged one or none, exceptions anywhere in between
and the weights of any loads before: `PassesCompute` and `CachesAlwaysHold`.

A pass is a sequence of operations on tensors with fixed names, so the argument
is by the place the pass has reached in it. `ProgramIs` is the closed form of
the program, from `FlattenLaid`: one embedding, for each layer 25 *stages*, and
four places at the end. Each stage is one operation but the fifteenth, the write
of the cache, which in a batch is three operations for each row (`Places`,
`Positions`, `BatchWritesAre`). `Here` says which operation is next at each
stage.

`ModelSpecInv` proves `ModelInv`, and its core is `PassState`: the pass is at
its start, at a stage of a layer, at an operation of a row of a batch, or at its
end. `LayerState(l, s)` says that, before stage `s` of layer `l`, the tensors
its earlier stages have written hold what they should, as terms over the row's
token and its context, and that the layer's input is still there. `StageMakes`
shows, stage by stage, that the operation makes the term wanted, and
`OutsDiffer` that no stage writes what an earlier one of its layer has written
or what the layer was given: the two buffers for `hidden_states` alternate, so a
residual survives because the layer writes the other one. Its last stage makes
the input of the next layer (`LayerKeeps`).

The rest of `ModelInv` is about the caches. The layers behind the pass have the
rows that it feeds, and those still ahead have what they counted before
(`PassKept` for the contiguous cache; `PoolHolds` and, in the place, what is
written so far for the paged one). Attention reads after the write of its layer,
hence its context ends with the row's own token. Writes into the paged cache go
past what the request counts (`PutKeeps`), so a pass that throws has changed no
token of anyone; in a batch each row writes for a request of its own
(`IsInjective`, as the engine's lists are), and `RowKeeps` says that a row
leaves the pasts of the others alone. `AdvanceCache` and `Return` then count the
rows at a place where every layer has them (`ReturnStep`). `JobPast` says that
the lengths put into the contexts at the start are still those the caches count.

`ForwardComputes` also says which weights a pass accepts. `LoadInv` gives the
shapes that loading checks; the two norms of a layer are checked by the passes
only, and `NormsFit` says that those behind the pass were found fitting, so a
pass that ends has seen all of them (`EndFits`). Conversely no operation refuses
a weight of its own shape (`FittingFits`).

`ModelInv` also held in every state of the run `model` when TLC was given it.
Assumptions: those of loading and of the contiguous cache, as many layers in the
caches as in the model, a finite set of requests, and the three cache modes.

### The kernels with barriers (`ThreadBlockProofs`)

For any number of threads that is a power of two (up to 1024, the most a block
can have), any head and page size, and any batch of rows with any block tables.

`AlwaysRaceFree`: between two barriers no element of shared memory is written by
one thread and touched by another. Each thread owns the elements of a strided
loop by their remainder (`MineDisjoint`); in the tree reduction a thread below
the stride reads at most one stride above itself, which no thread below the
stride writes. The invariant adds that the array has room for this
(`StrideFits`: twice the stride is at most the number of threads), which halving
keeps.

`KernelAttends`: each of the three kernels leaves the attention of its row, as
does each loop of the CPU. `AttendInv` says phase by phase what is in shared
memory, and for a phase under way, which threads have done their share:
`AccHolds` and `SoftmaxHolds` that the accumulator and the softmax have the
tokens so far, `ReduceHolds` that, when `s` cells of the tree are in use, the
cell `t` has the terms of the elements whose index is `t` modulo `s`. A level
of the tree adds two classes modulo `2 s` to one modulo `s` (`HalvesOfResidue`,
`TermsAdd`), so cell 0 ends with every element (`WholeResidue`). This needs the power
of two: after an odd stride a cell would be left out. What a kernel reads is the token
it should be: no two tokens of a batch have the same slot (`SlotsApart`), hence
the pool holds a token where its table says (`PoolHolds`), and the dense table
has the same block there, since its lines are as long as the longest row needs
(`DenseFinds`). For the loop of the CPU, `CpuRunAttends` looks at the least step
after which it would hold anything but the tokens so far.

`ReductionsSameAsCpu`: for any row and any order of the threads, `argmax` on the
device gives the token of the loop on the CPU, on the rows the property is
about, and `rms_norm` writes what the CPU writes. `RowInv` follows
the same tree: with `s` cells left, a cell has the best logit of its residue
class modulo `s` or, if its thread has still to come, modulo `2 s`
(`Modulus`). The best of a set is at most one id (`BestUnique`): the lowest of
those with the largest logit, so the better of the best of two classes is the best
of both (`BestOfBoth`), which is false if ties stay with the lower thread. NaN
compares with nothing, so the theorem has to know that something in the row
beats the start (`BestExists`) and that the CPU does not start from NaN
(`BestIsCpus`); both are the property's own hypotheses. For `rms_norm` the
cells have disjoint sets of squares (`SquaresAdd`).

### The element kernels (`ElementKernelsProofs`)

`DeviceSameAsLoops`: for any shapes, any size of block and any order of the
threads, once all have run and the host has returned, the tensor is the one the
CPU's loops build, and an embedding throws just when they throw. The property's
own hypothesis is that the total fits an `int`; beyond it the grid is too small,
which TLC's run reaches. The invariant names for every element its `Writer`, the
one thread that writes it, and its `Value`: before the writer has run the
element is what `Init` left, afterwards the value, and no other thread touches
it (`ThreadWrites`). The error flag is raised exactly if a thread that ran met
an id out of range, and the host cannot have returned before every thread has
run. That a writer exists and is
unique is arithmetic on flat indices: `RowAndColumn`, `IndexTakenApart` and
`InMatrix` for two levels, `Heads` and `RotaryPlaces` for the three of rotary,
whose threads write two elements half a head apart. `GridCovers` is the grid,
rounded up, against the total. On the CPU's side each loop is shown to give one
value to every element (`EmbeddingLoops`, `RotaryLoops`, `LinearLoops`,
`PointwiseLoop`); `ProductShape` takes the column-major product of cuBLAS to the
row-major one. Assumptions: shapes are naturals, `head_dim` is even, as the
rotary layer requires, and `IntAssumption`, that narrowing to
an `int` keeps what fits: elementary, but it is about `^`, of which the provers
know nothing.

### Only model-checked

- Liveness (`CallReturns`, `RunEnds`, `KernelEnds`): liveness under fairness and
  `ENABLED` are out of the prover's reach.
- Induction over the data of recursive definitions: the library's theorems for
  it take an operator as a parameter, which the provers cannot instantiate.
  Where a proof needs it, a least element does instead.

Every safety invariant and every action property that a passing run checks is
stated by a theorem.

## 6. What is not modelled

- Floating-point arithmetic: values are terms, tags or bags of what they were
  computed from, so rounding and overflow of floats are out, and so are the
  kernels' contents where only arithmetic is in them.
- The token values themselves, but for being EOS, out of the vocabulary or
  not. Attention heads, which index memory alike and do not mix.
- Parsing of JSON, arguments and token ids, reading and downloading of files,
  the tokenizer, printing and timing: they keep no state. What they may reject
  is a choice in `WeightLoading`.
- The accessors of the engine that hand out its parts for direct modification.
  `mark_prefill_done` and `ModelPagedKVCache::reset`, which only tests or
  nothing call. The sequential mode of the benchmark, which is
  `generate_until_finished` on an engine of its own.
- Peak bytes and the counts of calls of the memory tracker, which only reports
  print; the device a tensor is on, since one run uses one device.
- Integer overflow of lengths: 64-bit counters of tokens that fit in memory.
  (The 32-bit narrowing of launch grids is modelled.)

## 7. Plan

Done: `BlockTable` family with proofs and refinement; `PagedEngine`,
`TokenStream`, with proofs and refinement; `KVCache` and `Generation` with
proofs; `Benchmark` with proofs; `TensorOps`, `WeightLoading`, `Qwen3Forward`;
the attention, row and element kernels with the CPU loops.
Every safety property has its proof. What remains is breadth: the accessors and
the request states that only tests reach (section 6).
