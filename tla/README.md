# A TLA+ development for nano-vllm

The engine of nano-vllm serves text-generation requests on GPUs: a paged KV cache
with prefix reuse, a scheduler that packs prefills and decodes into batches, a
model runner that executes a batch, and optional tensor parallelism. This
directory specifies that engine in TLA+, checks the specifications with TLC and
proves theorems about them with TLAPS. Paths are relative to the repository root.

```
tlc -workers 2 -config <run>.cfg <MC module>     # the runs of PROJECT.json
tlapm <module>Proofs.tla                         # the proofs
```

## 1. Inventory

| component (source) | state | operations | hard behaviour | what makes it correct |
|---|---|---|---|---|
| BlockManager (`nanovllm/engine/block_manager.py`) | blocks with reference count, generation, hash, lineage; free queue; used set; hash index | `match_prefix`, `claim_prefix`, `allocate_new`, `may_append`, `deallocate` | hash collisions, eviction and reuse of a block (ABA), duplicates of one prefix, sharing without copying | a table names only blocks that store the sequence's own prefix; no block is lost or lent twice; no assertion fires |
| Sequence (`nanovllm/engine/sequence.py`) | tokens, block table, cached and new token counters, chained hashes | `append_token` | block boundaries | the counters describe the table |
| Scheduler (`nanovllm/engine/scheduler.py`) | `waiting`, `chunked_req`, `running` | `add`, `schedule`, `preempt`, `postprocess`, `_finish` | lookups that go stale within a step, reserved decode blocks, preemption, chunks that pause | each batch respects the budgets, attention reads only computed pages of the row's own prefix, every request finishes |
| LLMEngine (`nanovllm/engine/llm_engine.py`) | the loop of `generate` | `add_request`, `step`, `exit` | order of schedule, run, postprocess | as above |
| ModelRunner: batch input (`nanovllm/engine/model_runner.py:354-484`) | none | `prepare_model_input` | page boundaries in the slot mapping | writes exactly the pages of the new tokens |
| ModelRunner: tensor-parallel channel (`nanovllm/engine/model_runner.py:179-244`) | shared buffer, one event per worker | `write_shm`, `read_shm`, `loop`, `call`, `exit` | no acknowledgement of a read; the order of collectives | every worker executes every call once, in order; exit ends all processes |
| ModelRunner: CUDA graphs (`model_runner.py:268-310, 496-766`) | graph states per batch size, statistics, static buffers | capture, `select_runtime_mode`, replay, reset | one capture session per process, stale static buffers | replay only for the exact bucket with metadata that fits |
| Attention backends (`nanovllm/layers/attention_backend.py`, `attention.py`) | registry, wrapper workspaces, graph state | `build_plan`, forward, graph planning | split and unified plans, plan cached between layers | every query row is computed once with its own metadata |
| Execution context (`nanovllm/utils/context.py`) | one module-level record | set, get, reset | stale context after an exception | set before and reset after each forward pass |
| Engine construction (`nanovllm/config.py`, `model_runner.py:66-176`) | defaults of torch, process group, rotary cache of the process | `Config.__post_init__`, `ModelRunner.__init__`, `exit` | a constructor that raises half-way, a further engine in the same process | a ready engine has restored the defaults; a failure is never followed by a broken engine |
| Custom operators (`nanovllm/layers/custom_op.py`, `cuda_ops.py`, `flashinfer_ops.py`, the operators) | registry filled at import | registration, selection, adaptive kernel | optional packages missing, shapes a kernel cannot read | an explicit choice is kept or refused, `auto` always finds a kernel that runs |
| Model and layers (`nanovllm/models/qwen3.py`, `nanovllm/layers/linear.py`, `embed_head.py`, ...) | parameters of a rank | forward pass | sharding of heads and columns, in-place norms | the ranks together compute what one rank with the whole model would |
| Weight loader (`nanovllm/utils/loader.py`) | parameters | `load_model`, the `weight_loader`s | merged and tied parameters, any order of files | every tensor in its place |
| CUDA extension (`csrc`) | none | the SiLU kernel | grid-stride loop with a capped grid | every element computed once, from its own row |
| Scheduler benchmark (`bench_scheduler.py`) | counters per step and per request | hooks on `schedule`, `claim_prefix`, `_allocate_block`, `preempt`; summary | chunks, hits, preemptions while counting | hits plus computed tokens are the prompts |

Interaction: `LLMEngine.step` calls `Scheduler.schedule`, then
`ModelRunner.call("run")`, then `Scheduler.postprocess`, in one thread. The
scheduler calls the block manager directly. Under tensor parallelism `call` also
hands the batch to the worker processes through shared memory.

The hazards are listed in PROJECT.json, each at its source line with the property
that covers it or the reason why none does.

## 2. Modules

| module | models | composed of |
|---|---|---|
| `PageCache` | abstract promise of the paged cache: requests, pages, and which prefix a page stores | - |
| `BlockManager` | `block_manager.py` and the cache-related part of `sequence.py` | refines `PageCache` |
| `Scheduler` | `scheduler.py`, the step loop of `llm_engine.py`, what `model_runner.py` writes and samples | EXTENDS `BlockManager`; refines its `Spec` |
| `Broadcast` | abstract promise of the control channel | - |
| `TPChannel` | shared buffer, events, collectives, exit | refines `Broadcast` |
| `ModelInput` | operators: a batch as packed tensors, the metadata and routes of the attention backend, what its kernels read | - |
| `ModelRunner` | one process: engines, capture, batches, replay, context, wrappers, counters | EXTENDS `ModelInput` |
| `SchedulerMetrics` | the measured phase of `bench_scheduler.py` | EXTENDS `Scheduler`: a hook runs in the step it wraps |
| `OperatorDispatch` | operators: which implementation an operator binds, which kernel that launches | - |
| `ParallelLayers` | operators: the parameters of a rank, the loader, what the sharded layers read and add up | - |
| `SiluKernel` | operators: launch, loop and addresses of the CUDA kernel | - |
| `EngineProcess` | one process that builds engines one after the other: options, constructor, loading, warm-up forward, exit | EXTENDS the three above |
| `PageCacheProofs`, `BlockManagerProofs`, `TPChannelProofs`, `ModelRunnerProofs`, `EngineProcessProofs` | theorems about the module of that name | EXTENDS it and `TLAPS` |
| `ParallelLayersProofs` | theorems about `ParallelLayers` and `SiluKernel` | EXTENDS both |
| `SchedulerProofs` | theorems about `Scheduler`: legal calls, queues, reservations, plans, batches, what attention reads | EXTENDS `Scheduler`, `BlockManagerProofs` |
| `SchedulerMetricsProofs` | theorems about `SchedulerMetrics`: what is charged to a request, and the verdict | EXTENDS `SchedulerMetrics`, `SchedulerProofs` |
| `MC...` | constants for TLC; `MCBlockManager` also the bound on its behaviours | - |

**BlockManager.** The variables have the names of the code's fields; `blocks[b]` is
the record of a `Block` with `(lineage_block_id, lineage_generation)` and the parent
pair each as one field. Blocks of a sequence count from 1. A call that changes state
is a loop over blocks. The action named after the method starts it (`ClaimPrefix`,
`AllocateNew`, `MayAppend`, `Deallocate`), sets `call`, and `ClaimBlock`, `FillBlock`
or `ReleaseBlock` is one iteration. No other call starts while `call` is set, so
behaviours are sequences of whole calls, and invariants also hold between
iterations. `allocate_new` and `may_append` share `FillBlock`, whose two cases (the
block is present or a free one is taken) are exactly those of their loop bodies.
`chain[b]` is a history variable: the whole prefix whose K/V block `b` is to store.
The hash is a CONSTANT operator on prefixes: nothing is assumed of it but that it
yields a number, so collisions are allowed. `Next` makes every legal call in every
order; between a claim and its `allocate_new` other requests may be served.

**Scheduler.** `pc` is the position of the engine thread, `step` the locals of
`schedule()`, each loop iteration is a step, and block-manager calls run to their end
in between (`BlockManagerStep`). Sampling appends any token. `kv[b]` is the prefix
whose K/V the page really stores, written by `Run` only, while `chain` and the index
change at allocation time: the distance between the two is what the attention
properties are about. An exception that leaves `schedule()` is the state
`pc = "raised"`.

**TPChannel.** Rank 0 and the workers are processes; each access to the buffer or an
event is a step. `ops[r]` is the sequence of collectives rank `r` has enqueued, and
one completes when all ranks have enqueued it. A worker's host never waits for its
forward pass; rank 0 waits by fetching the sampled tokens, if there are any.

**ModelInput, ModelRunner.** `ModelInput` translates `prepare_model_input`, the
metadata and routes of `attention_backend.py` and the reads of its kernels as operators
on a batch. `ModelRunner` is the thread that uses them. `engine.phase` is the position
in the life of an engine (warmup, allocate, capture, serving), `step.pc` the position in
`run()`: prepared, planned, dispatched, forwarded, sampled. `context` is the
module-level record, `wrappers` what each eager wrapper was planned with last,
`graph_states[b]` the fixed buffers of the graph for batch size `b` and the plan of its
wrapper, `active_graph` the state that overrides plans. `ReplayGraph` reads nothing but
the buffers of its graph, so a buffer that is not refreshed shows. One attention layer
stands for all, since they share plan and slots; K and V of a token are represented by
the token and its position, and the hidden value of a query by the token, its position
and what it has read, in order. `ForwardIsReference` compares that with the text of the
request, token by token. `attempted` and `context` are module globals and survive an
engine; `Construct` may follow `Exit` up to `MaxEngines` times. A configuration fixes
policy, backend, mode and which backends are usable on the machine.

The environment, `AddRow` and `Postprocess`, replaces the scheduler: it forms any
batch that `BatchWellFormed`, checked of `Scheduler`, allows, including a request that
starts with the first page of another one, computed before or in the same batch. What a
request will sample is fixed by `Text`, so a wrong read shows up as a wrong token.
`RunFails` gives the engine up and leaves the context as it is. A constructor that
raises (`ConstructFails`, `CaptureFails`) leaves the process group behind, so no further
engine starts in the process.

**EngineProcess, OperatorDispatch, ParallelLayers, SiluKernel.** `phase` is the position
in the constructor of `ModelRunner`: configured, entered (process group and defaults of
torch set), backend, loading, forward, ready. What outlives an engine is `torch`,
`rope_cache` (the one entry of `lru_cache(1)` on `_get_rope`) and `env`, the packages
and the device of the process. An action that ends in `Fails` is an exception: the
object is never created, and nothing is undone. `Configure` takes any of `Options`,
keyword arguments together with the model they name; `LowerCase` stands for `s.lower()`.
`LoadFile` reads a checkpoint file in the order of its tensors, the files in any order
(`glob` promises none). A tensor is a function on the units of the dimension that is
sharded (a head, a column, a word), and a unit of the checkpoint is the token
`<<name, i>>`, so a unit in a wrong place shows.

The forward pass runs on a heap of tensors. `fwd.hidden` and `fwd.residual` are the two
Python variables, `heap` the buffers they name: an in-place norm overwrites a buffer
whoever names it. Attention, MLP, embedding and head are single steps on all ranks, each
of which compares the sum over the ranks with the whole layer (`AttentionAddsUp` and so
on) and is garbled when they differ. The activation is computed by the kernel that
`OperatorDispatch` launches, for the in-tree one by the definition in `SiluKernel`.

**SchedulerMetrics.** Each hook of `bench_scheduler.py` runs in the step of the call it
wraps, so an action is the scheduler's own action and what is counted. `Unmeasured` runs
leaders before `Install`; `Summarize` is the verdict of `_metric_summary`, `"raised"` an
exception of a hook, of the summary or of the engine.

## 3. Runs

| run | instance | shows |
|---|---|---|
| `PageCache` | 2 requests, 2 pages, words up to 3 | `TypeOK`; `HeldPagesMatch`: a held page stores a prefix of its holder's text |
| `BlockManager` | 2 requests, 2 blocks of 2 tokens, 4 resets per block, hash of the last token | `PrefixSound`, `LineageSound`, `ReferencesResident`, `BlocksAccounted`, `AssertionsHold`, `SharedBlocksFrozen`, and `Implements`: the refinement of `PageCache` |
| `BlockManager_addressable` | perfect hash | **violated**: `FreeBlocksAddressable` |
| `Scheduler_same_step` | 3 requests, 4 blocks | `AttentionReadsOwnPrefix`, `DecodeReserved`, `EveryRequestFinishes` under preemption (an exception would strand a request) |
| `Scheduler_frozen` | 3 requests, 3 blocks of 2, chunked, one prompt larger than the pool | `PlansCurrent`, `QueuesConsistent`, `AttentionReadsOwnPrefix`, type invariant; both exceptions occur |
| `Scheduler_chunked` | 3 requests, 4 blocks of 2, budget of 2 tokens | `BatchWellFormed`, `CachedBlocksComputed`, `LegalCalls` (every step is a step of `BlockManager!Spec`); a chunk pauses |
| `SchedulerMetrics` | 2 requests, 3 blocks of 2, budget of 3 tokens, a pool too small for the longest request | `PromptTokensConserved`; `MeasurementEnds`: a measured phase ends, and the engine gets through its work unless it raises |
| `Scheduler_resumed_chunk` | 3 requests, 4 blocks, chunks | **violated**: `RunningReady` |
| `Scheduler_hits` | 4 requests, 2 blocks, LPM off | **violated**: `InitialHitsPersistent` |
| `TPChannel` | 2 workers, 3 batches and exit | `BufferExclusive`, `RanksAgree`, `SegmentIsOurs`, `EveryCallReturns`, `ImplementsBroadcast` |
| `ModelRunner` | 2 engines, 5 configurations, 3 requests of up to 5 tokens, 5 pages of 2, 3 batches | `ForwardIsReference`, `SamplesReachTheirRequest`, `MetadataAccepted`, `QuietWhenIdle`, `CountersAccountForBatches`, `OneCaptureSession` |
| `EngineProcess` | 2 engines, 28 environments, 9 models, 60 sets of options, up to 4 ranks | `ForwardIsReference`: the warm-up forward computes what one rank with the whole model would; `DispatchKeepsRequests`, `ActivationRuns`, `DefaultsRestored` |

Each property of a passing run has a mutant in PROJECT.json: a definition of the module
is replaced by a faulty variant (marked as such in the module) and the run then finds
the property violated.

### Findings

* `Scheduler_resumed_chunk` (code bug, `scheduler.py:371`): `postprocess` decides with
  `num_prompt_tokens` whether a prefill is complete. A preempted request is prefilled
  again together with the tokens it has generated. If a chunk ends after its prompt
  and before its last token it joins `running` with more than one token to compute,
  and the next `schedule()` fails the assertion in line 291.
* `BlockManager_addressable` (`block_manager.py:132`, `docs/architecture.md:378`): a
  republished duplicate takes over the index entry. When the duplicate is evicted the
  entry goes, and the older page with the same prefix stays cached but unreachable.
* `Scheduler_hits` (`scheduler.py:86`, `docs/architecture.md:353`): the hit counters
  compare lengths. A block evicted and republished within the step counts as an
  initial persistent hit.

Facts the models record that are no disagreement with a document:

* a benchmark phase in which a request was preempted always fails its own summary:
  the prompt of the request is charged again when it is admitted again
  (`bench_scheduler.py:386`), as `PromptTokensConserved` says;
* a pool too small for one request: the request preempts itself, is never admitted again
  and `schedule()` raises for all (`MeasurementEnds`);
* a constructor that raises after `init_process_group` leaves the group and the default
  dtype and device behind; no later engine of that process gets past
  `init_process_group`, which is what keeps `DefaultsRestored` true;
* `auto` with FlashInfer alone binds a kernel that refuses a shard whose activation row
  is not a multiple of 16 bytes; the warm-up raises (`ActivationRuns` excepts it);
* off CUDA, `KVCacheStore` accepts `native_triton` and runs the native one, and
  `operator_overrides` for an unknown operator are ignored; the engine always runs on
  CUDA, so `DispatchKeepsRequests` excepts the first;
* the native norms alias their input when `float()` does not copy, that is for a float32
  model: the residual would be overwritten. The engine never gets there, for both
  attention backends refuse float32;
* a parameter no tensor of the checkpoint names keeps what `torch.empty` left there, and
  no check finds it; the instances load complete checkpoints.

### Bounds

* `MaxLen`, the prompts and two tokens: texts of 3 blocks or more, so that a prefix
  has a parent and a grandparent (with two tokens per block: two full blocks and a
  partial one); prompts that differ in the first block and agree
  afterwards, which with `LastTokenHash` collide.
* `NumBlocks`: 3 or 4, fewer than the requests want together, so that eviction,
  sharing and preemption happen.
* `MaxGeneration` (`BoundedSpec` of `MCBlockManager`): the caller of `BlockManager` starts
  no fill once a free block was reset that often. Two resets are what ABA needs.
  `BlockManager!Spec` has no such bound, and the behaviours of the scheduler need none:
  they end when the requests do.
* `MaxCalls`: three batches, so that the one before and the one after a call exist.
* `MaxEngines`, `MaxBatches` (`ModelRunner`): two engines, so that an engine meets what
  its predecessor left behind in the process; three batches, so that a prefill, a
  decode that is replayed or mixed, and a further batch over the buffers of the one
  before occur. Batch sizes 2 and 3 have a graph, 1 has none, 8 exceeds every batch.
* `MaxEngines` (`EngineProcess`): two attempts, so that an engine meets what a finished or
  a failed one left in the process. Models have up to 8 heads, 8 columns and 4 words on
  1, 2 or 4 ranks, with and without grouped queries, tied heads and biases, and shapes no
  sharding fits. `Threads` and `MaxBlocks` are 2, so the kernel's loop goes round.
* `SYMMETRY` permutes the requests, which no definition distinguishes; the runs that
  check liveness do not use it.

### Fairness

`FairSchedSpec` has weak fairness of the engine thread, and nothing else: `generate`
calls `step()` as long as there is work. `add` is not fair: no request has to come.
`FairMetricsSpec` has weak fairness of the same loop, as the benchmark calls it
(`Unmeasured \/ Measured`); neither the arrival of requests nor `Install` is fair.
`FairTPSpec` has weak fairness of each process; nothing makes rank 0 start a call.

`EveryRequestFinishes` is checked for a pool that holds the longest text. The code
does not check that (`model_runner.py:344`, `config.py:96`); `MeasurementEnds` is checked
for a pool that does not, where the exception is the other way to end.

## 4. Proofs

No theorem bounds a constant: the assumptions are the named ones in the modules
(types of the constants, non-empty prompts no longer than `MaxLen`, a finite set of
requests; for `PromptTokensAreConserved` also `WorkloadFits`, see there). TLC has checked
each inductive invariant before it was proved.

**PageCacheProofs.** `TypeCorrect` (`Spec => []TypeOK`) and `CacheSound`
(`Spec => []HeldPagesMatch`). With the type invariant the property is inductive: `Grow`
keeps prefixes (`StartsWithAppend`), `Write` stores a prefix of the only holder's text
(`StartsWithPrefix`), `Share` checks it.

**BlockManagerProofs.** `BlockManagerTypeCorrect` (`Spec => []TypeOK`) and `NoBlockLost`
(`Spec => []BlocksAccounted`), for every pool, block size and hash function. Neither is
inductive alone. `PoolInv` adds

* `CommittedInv`: the tokens that are computed and scheduled exist. A block is published
  only when these fill it, so the hash is taken of a prefix within the bound, and the
  loops stop in time. It holds because `match_prefix` never matches the last block
  (`MatchPrefixFacts`, from `CeilDivFacts`);
* `PlanInv`: the rest of a claim in progress names blocks the request does not hold yet,
  each once, and fits into its tokens. Without it a claim could put a block into a table
  twice, and the reference count would exceed the number of holders;
* `ReleaseInv`: there is a block left to release.

The accounting argument is in four lemmas, one for each way a block changes hands:
`AccountTaken` (a free block), `AccountShared` (a used one), `AccountReleased` (the last
holder or another one) and `AccountKept`. The lemmas before them say what removing,
appending and dropping do to a sequence without repetition.

**BlockManagerProofs, prefix reuse.** Everything else the runs check of `BlockManager`, for every hash
function. `PrefixReuseSound`, `LineagesSound`, `SharedBlocksNeverRewritten` and
`BlockManagerImplementsPageCache` rest on `CacheInv`, which adds to `PoolInv`,
`PrefixSound` and `LineageSound`

* `ContentInv`: a published block is full, its `token_ids` are the end of what it stores,
  and only a first block has no parent;
* `FreshInv`: no published block names a lineage that is still to come. With it a reset
  block that is published under its own generation cannot be mistaken for an earlier one;
* `PrivateInv`: a block that is not full has one holder, so it may be written;
* `TableInv`, `FillInv`, `ClaimInv`: where the table and a loop in progress stand.

`StoresChain` is the heart: a block with the right tokens, whose parent lineage is that of
a block that stores what comes before, stores the prefix. The hash only finds candidates.
Publishing has two cases: the block takes the lineage of a resident twin with the same
contents (`TwinContent`), or founds its own (`FreshContent`). For the refinement, an
iteration of claim, fill and release is `Share`, `Write` and `Drop`; `AppendToken` is
`Grow`; everything else stutters.

`NoAssertionFires` needs `CallsInv` in addition: a full block of a table still passes the
test `match_prefix` made (`StoredInv`), a table covers the committed tokens of a request
nobody works on (`CoverInv`), the index still answers with the rest of a plan
(`PlannedInv`), and the free queue holds what a fill still needs (`SupplyInv`).

`NoDanglingReference` needs the order of the free queue: the lineage a free block names
belongs to a used block or to one behind it in the queue (`LeafFirst`). Releasing
a table from its end establishes it, taking a block out of the queue keeps it, and the
block that is reset is the head of the queue, so nobody else names it.

**SchedulerProofs.** Every safety property the runs check of `Scheduler`, for every pool,
budget, hash function, set of requests and both values of `EnableChunked`, `EnableLpm` and
`SameStep`. None of them is inductive, and they need each other: an admission is a legal
call only if the blocks it takes are there, they are there only if nobody has taken those
of the decodes, and that can only be counted if every request is in one place. So there
is one invariant, `SchedInv`, of named parts, and one lemma for each action:

* `PhaseInv`, `AtInv`: which call may be in progress at which line, and where the loops stand;
* `QueueInv`: `waiting`, `running` and `chunked_req` against `status`. A running request in
  none of them is a prefill of this step;
* `DecodeInv`, `ChunkInv`, `PrefillInv`, `RankedInv`, `AdmittedInv`: what the locals of
  `schedule()` name, each request once, and which admitted requests are allocated already;
* `PartialInv`, `LastPartialInv`: only the last prefill stops short, so `postprocess` never
  sees two partial ones;
* `HoldingInv`: who holds blocks, and that an admitted request holds its plan;
* `TokensInv`, `RowsInv`: which tokens are scheduled, and which rows still get their sample;
* `BudgetInv`: the tokens scheduled, the tokens still to come and the budget that is left
  add up to `max_num_batched_tokens`;
* `ReserveInv`: the blocks due to tokens scheduled or still to come, and the free blocks
  named by plans, fit into the free queue. This is the argument for the decode
  reservation, for the free budget of the frozen branch, and for `protected_free_ids`;
* `PlansInv`: what the snapshot matched still holds. In the frozen branch nothing is
  published or evicted before the last claim; a claim takes a block out of the queue, which
  the others may still share.

A sum over the requests (`Total`) is the number of pairs of a request and a unit due to
it, so the proofs count sets and need no induction over a fold.

`SchedulerCallsLegally` (`SchedSpec => LegalCalls`) is the theorem the others rest on: every
step of the scheduler is a step of `BlockManager!Spec`. `CacheSoundUnderScheduler` and
`SchedulerImplementsPageCache` compose it with the theorems of `BlockManagerProofs`.
`SchedulerTypeCorrect`, `SchedulerQueuesConsistent`, `DecodeKeepsItsBlocks`,
`PlansStayCurrent` and `BatchesWellFormed` follow from `SchedInv`.

`AttentionReadsItsPrefix` and `CachedBlocksAreComputed` are about `kv`, which only the
forward pass writes, while `chain` and the index change at allocation. `KvInv` says where
the two may differ: on the pages the next forward pass writes (`Dirty`), and nowhere once it
has run; between batches, the partial page of a request stores its cached tokens.
`PagesInv` says that no page is written for two rows, and that a fill in progress is
behind the pages of the cached tokens. Then `NextPages` and `KvStep` show that no call of the
block manager breaks this (`FillBlock` dirties what it publishes, `ClaimBlock` takes a page
that is computed or dirty in this very batch), `RunKv` that the forward pass makes every
dirty page equal to its `chain` whichever row wrote it, and `AdvanceKv` that the next step
starts with no dirty page.

**SchedulerMetricsProofs.** `EveryPromptCharged` (`PromptsCharged`, request by request) and
`PromptTokensAreConserved` (`PromptTokensConserved`, the sums and the verdict). A step of the
harness is a step of the scheduler, so `SchedInv` carries over, and three groups of
invariants stand on it:

* `ReachInv`, about the engine alone: the two hit counters of an admitted request add up to
  its plan (`HitsInv`), and a request that runs has its whole prompt in the cache
  (`RowsReach`, `RunningReach`);
* `CollectorInv`, about the rows: `Come(s)` is how much of its prompt a request has at any
  point of a step, and `ChargeInv` says that at least that has been charged, and exactly that
  while nothing was preempted. Only the end of `schedule()` charges and only a preemption
  takes away (`Balance`). A batch charges exactly what it adds if a request in prefill has
  nothing but its prompt; `UnsampledInv` says so, and it is what a preemption breaks;
* `LedgerInv`, about the totals and the verdict.

`LedgerInv` has one part for each way a measurement can be refused:

* the hook of `schedule` finds the previous step open: `RecordInv` ties the record to `pc`;
* classified and claimed blocks differ: `ClaimsInv` follows the claims of a step through
  either branch, and `HitsInv` gives the same number (`Agrees`);
* a decode row is not ready, the assertion of `schedule()`: `ReadyInv`. It fails after a
  preemption only, which is the finding of `Scheduler_resumed_chunk`;
* nothing is scheduled: `ProgressInv`. While `schedule()` has scheduled nothing, nobody holds a
  block and the budgets are whole, so the chunk (`ChunkFits`, `PlanNothing`) or the head of
  the ranking (`HeadPasses`, `HeadIsAdmitted`) fits. This needs `WorkloadFits`: a prompt has
  no more tokens than the pool, nor than a batch if it may not be split. `_run` sees to both
  (`minimum_logical_blocks` of 816 and 2240 blocks of 16 tokens, `max_num_batched_tokens`
  above `max_model_len`), and only `FitsInv` uses it. `EveryPromptCharged` does not;
* the sums of the summary: `TotalsInv` says that the totals are the sums of the rows, and that
  claims run ahead of the classification by the step that is being planned. With `ChargeInv`
  the sum is the prompts, and after a preemption `SurplusInv` names a request that was charged
  a whole prompt too much, so the sum exceeds them (`VerdictFollows`);
* a row without its stamps: `FinishedInv` and `StampInv`.

`SumFunction` is the fold of the community modules. `SumAdd`, `SumScale`, `SumOne` and `SumType`
are inductions over a finite set, done by `Shrink`: a family of sets that has `{}` and gains
no set by adding its chosen element to a smaller one has them all.

**TPChannelProofs.** `ChannelTypeCorrect`, `ChannelExclusive` (`BufferExclusive`),
`ChannelAgrees` (`RanksAgree`), `ChannelSegment` (`SegmentIsOurs`) and
`ChannelImplements` (`ImplementsBroadcast`), for any number of workers and calls, under
the hypothesis `EveryBatchSamples`, i.e. without chunked prefill (see section 5).
`ChannelInv` says where each rank is by what it has enqueued: the program of collectives
is a fixed function (`ProgramInv`), and the number a rank has enqueued tells how many
calls it has executed. Rank 0 is past its fetch only when the last collective is
complete (`Complete(0)`), hence every worker has enqueued it, hence has read the call,
cleared its event and is not behind. That is the acknowledgement `write_shm` does not
wait for.

**ModelRunnerProofs.** `CapturesOnce` (`OneCaptureSession`), `RunnerTypeCorrect`
(`RunnerTypeOK`), `MetadataNeverRejected` (`MetadataAccepted`), `NothingLeftBehind`
(`QuietWhenIdle`) and `BatchesAccounted` (`CountersAccountForBatches`), for any number of
engines, configurations, buckets, requests and pages, any page size and model length.
The invariant is `RunnerInv`:

* `SessionInv`: the flag is set before the session begins, and while an engine may still
  create graph states no session has taken place;
* `BatchInv`: a request has exactly the pages its context needs, whether it waits or is a
  row of the batch, and the prefills come before the decodes;
* `StepInv`: what each stage of a run has left for the next: the rows of the batch, the
  context built from them, the plan of an active graph;
* `GraphInv`: graph states exist for buckets only, and a serving engine's are captured;
* `StatsInv`: replays and fallbacks account for the batches. A hit is counted before the
  replay, so between the two the counters differ by one (`Pending`).

`MetadataNeverRejected` is the arithmetic of `prepare_model_input`. `Offsets`, `FlattenSeq`
and `LogitsRows` are recursive functions. That they exist (`OffsetsExist`,
`FlattenExists`, `EndingExists`) and what they return (`OffsetsFacts`, `FlattenFacts`,
`LogitsRowsFacts`) is an induction over numbers. The library's rules for it take the
formula as a parameter, which no prover here can instantiate; `Ascent` takes the set of
the numbers that satisfy it, and rests on its least exception (`WFMin`). `SlotsOfPagedRow` and
`SlotMappingLength` count the slots `slot_mapping` takes from the pages of one row: one
for each new token, whatever the page boundaries in between. `RowSums` adds the rows up and
`MetadataPasses` is the conclusion: no batch of rows like those of `BatchInv` fails a check
of `validate()`. For a replay `DecodeFits` is needed too: the pages of a decode batch fit
the index buffer, which is sized for that many rows of the largest length.
`NothingLeftBehind` needs that every way out of a run, with or without a graph,
resets the context and deactivates the graph.

**ModelRunnerProofs, the forward pass.** `ForwardAlwaysReference` (`ForwardIsReference`) and
`SamplesReachOwners` (`SamplesReachTheirRequest`): whatever batches follow each other, whoever
shares a first page, by either backend, any route, with a graph or without, each query is
computed from its own token and position and the keys of its own request up to itself, and
each token that is sampled goes to the request it was sampled for. `ForwardInv` adds to
`RunnerInv`

* `KeysInv`, what the pages hold. A page is in two tables only as the first one of both, and
  their prefixes agree on it (`PagesShared`); a token that counts as cached is in its slot, or
  the batch under way will write it there (`KeysStored`: this is the request that starts with
  a page computed in the same batch); once the batch has been forwarded, all of its tokens are
  (`KeysWritten`). Requests join by any number of shared and free pages (`RowJoins`,
  `PagesGrow`, `KeysGrow`), and `KeysProcessed` is `postprocess`;
* `FlowInv`, what the steps of a run hand to each other: the packed input is that of the rows,
  the wrappers are planned for the route and metadata of this batch and not of the last one,
  and a replay that was dispatched has a graph for its size.

The pass itself is in four steps, each for every page size and batch. The slots prepared for
a row are those its tokens are read from later (`SlotOfToken`), and `StoreOfRows` says what
the store kernel leaves in a slot; with `SlotsApart` no token of the batch overwrites the key
of another (`KeysForwarded`). `EveryRouteAttends`: from the flat arrays of the metadata
(`BatchDescribed`), the whole plan and the two re-based halves of a split plan find the same
pages for each row; `FlattenSplit` puts the halves together again. `PagedReference` turns
the keys that were read into the reference, `CachelessAttends` is the warmup pass without a
cache. `ReplayedForward` shows that the buffers a replay reads are refreshed.
`LastReference` and `RowsSampled` pick the last query of each row that ends.

**EngineProcessProofs.** `DefaultsAlwaysRestored` (`Spec => []DefaultsRestored`), for every
environment, set of options and number of attempts. `TorchInv` is the argument: without a
process group the defaults are those of the process, so whoever gets past
`init_process_group` saves the right ones. `NoEngineAfterFailure` and `FailureAbandons`
are the other half: a failed construction keeps its group, and no engine of the process
becomes ready after it.

`DispatchNeverSilent` (`DispatchKeepsRequests`) goes through the cases of `Select` operator
by operator; it needs no invariant, for dispatch reads no state but `env` and `torch.device`.
The other three theorems rest on `EngineInv`:

* `ConfigInv`: a config is the normalization of valid options (`ConfigFacts`);
* `CacheOfRopeInv`: an entry of `lru_cache(1)` is what its key says (`RopeSound`), whoever
  put it there. It outlives the engine, also one whose constructor failed;
* `BuiltInv`: what the constructors checked still holds of what they built: heads and
  columns divide, the providers are importable, `rope` has the key of this engine;
* `LoadInv`: the tensors of every file that was read are in their places (`Settled`), whatever
  was read since. `LoadSettles` shows that for one tensor, `FileLoaded` for a file. Two
  names may share a home, the parts of a packed parameter (`PackedLoad`) or the two names
  of a tied embedding (`SameHome`);
* `ForwardInv`: what the buffers named by `hidden` and `residual` hold at each place of the
  forward pass (`Stage`), and that they are two buffers. `AddNormFacts` and `NewBufferIsFree`
  show that no kernel overwrites the one still needed.

`ForwardMatchesReference` (`ForwardIsReference`) is their conclusion. With every file read,
`ParamsAddUp` holds (`LayersAddUp`, from the theorems of `ParallelLayersProofs`), so no step is
garbled, and `ReferenceFacts` (layer `l` from layer `l - 1`) follows the layers.
`ActivationNeverStuck` (`ActivationRuns`) is the arithmetic of the row's width,
`ProcessTypeCorrect` (`ProcTypeOK`) the rest. `OptionsAssumption` says what is assumed of the
options: the fields of `Config`, positive sizes, and a checkpoint that lacks no tensor of the
model. The last one is needed: `load_model` does not notice a tensor that is missing, and its
parameter would stay as `torch.empty` made it.

**ParallelLayersProofs, the kernel.** For every shape, number of threads and cap on blocks:
`EveryElementOnce` (exactly one launched thread visits an element: its remainder by the
stride), `ReadsItsOwnRow` (addresses within the row and the input) and `KernelIsActivation`
with `KernelOfOneRow`, which say that no element is left as `torch.empty` made it. The
module begins with the facts on quotient and remainder the solvers do not find.

**ParallelLayersProofs, the layers.** For every number of ranks that divides the model. The
all-reduce of attention, MLP and embedding counts every term of the whole layer once
(`AttentionShardsAddUp`, `MlpShardsAddUp`, `EmbeddingShardsAddUp`), from
`BlockIndex`: a global index is a rank and a local index in exactly one way.
`QueryHeadMeetsItsKeyValueHead` is the step grouped queries need. `MlpShardsAddUpByKernel`
combines it with the kernel's theorem. `LogitsGatheredInOrder` is the head. They assume
that the parameters hold their shards; `LoadPlaces` and `PlacedIsLoaded` say how that
comes about: loading a tensor puts its shard in place and disturbs no other, so any order
of the checkpoint will do.

Every invariant and every action property the passing runs check is a theorem. Left to
TLC: liveness under fairness (`EveryRequestFinishes`, `MeasurementEnds`,
`EveryCallReturns`), for TLAPS does not reason about `ENABLED` here.

## 5. Not modelled

Numbers (what a layer or a kernel computes for one element, sampling probabilities), the
sampler, the tokenizer, the file format of checkpoints; `get_token_layout` and
`allocate`, which compose modelled operations and are called by tests only; how memory is
measured to size the pool; registration of further attention backends, which no option
of `Config` can reach, and metadata that is not built by the engine; the keyword
arguments `LLM` drops silently, and `exit` called twice, which raises `AttributeError`;
workers that stay behind when the constructor of rank 0 fails. The capture session is
claimed before the model is built; `ModelRunner` and `EngineProcess` divide the
constructor between them and do not model that overlap. Of the benchmarks, the scripts
that only time and compare outputs, and in `bench_scheduler.py` the counters of shared
and duplicate prefill and the rows kept per step.

With `RowlessSteps = TRUE` (chunked prefill together with tensor parallelism: a batch
that is one partial chunk samples nothing) `BufferExclusive` fails in `TPChannel`: rank
0 has nothing to fetch and may overwrite the buffer. No document promises that
combination, so it is recorded as a hazard and not as a run.

## 6. Plan

1. (done) `PageCache`, `BlockManager`, `Scheduler`, `Broadcast`, `TPChannel`,
   `ModelInput`, `ModelRunner` and their runs.
2. (done) Theorems: the abstract cache, the accounting of the block manager, the control
   channel, the capture session.
3. (done) Prefix reuse: the lineage argument, the refinement of `PageCache`, the
   assertions and the eviction order.
4. (done) `SchedulerProofs`: `LegalCalls`, which carries the theorems about the block manager
   over to the engine, queues, reservation, plans, batches, and what attention reads.
5. (done) Engine construction, operator dispatch, sharded layers, loader and kernel, with
   their theorems; the measured phase of the scheduler benchmark.
6. (done) `ModelRunnerProofs`: types, metadata, what a run leaves behind, the counters.
7. (done) `EngineProcessProofs`: dispatch, the loaded checkpoint, the forward pass.
8. (done) The forward pass of `ModelRunner`: what the pages hold after any history of
   batches, and what is read of them.
9. (done) `SchedulerMetricsProofs`: what a measured phase charges, and its verdict.
