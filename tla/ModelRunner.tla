----------------------------- MODULE ModelRunner -----------------------------
(***************************************************************************)
(* The single-process life of ModelRunner (nanovllm/engine/model_runner):   *)
(* construction, memory warmup, the capture of full-decode CUDA graphs, the *)
(* execution of scheduled batches by eager kernels or by graph replay, and  *)
(* exit - together with the state it reads and writes around a forward      *)
(* pass: the execution context (utils/context), the planned wrappers and    *)
(* the graph states of the attention backend (layers/attention_backend).    *)
(*                                                                         *)
(* Several engines may follow each other in one process; the flag           *)
(* `attempted' and the context are module globals that survive them.        *)
(*                                                                         *)
(* Batches come from an environment that may form any batch a scheduled     *)
(* batch may be (Scheduler!BatchWellFormed).  CUDA work is ordered by one    *)
(* stream, so a forward pass is one step.                                  *)
(***************************************************************************)
EXTENDS ModelInput, FiniteSetsExt

CONSTANTS
    Requests,
    Text,               \* Text[r]: what request r will consist of
    PromptLen,          \* PromptLen[r]: how much of it is there from the start
    NumPages,           \* num_kvcache_blocks
    MaxModelLen,
    MaxNumSeqs,
    MaxNumBatchedTokens,
    BatchSizes,         \* cudagraph_batch_sizes
    Configs,            \* the configurations an engine may be started with
    MaxEngines,         \* bound: engines started in the process
    MaxBatches,         \* bound: batches an engine is given
    NoRequest           \* a model value

Pages == 0 .. (NumPages - 1)
Slots == 0 .. (NumPages * BlockSize - 1)

ASSUME ModelRunnerAssumption ==
    /\ NumPages \in Nat \ {0}
    /\ MaxModelLen \in Nat \ {0}
    /\ MaxNumSeqs \in Nat \ {0}
    /\ MaxNumBatchedTokens \in Nat \ {0}
    /\ BatchSizes \subseteq Nat \ {0}
    /\ MaxEngines \in Nat
    /\ \A r \in Requests :
        /\ Text[r] \in Seq(Int) /\ Len(Text[r]) = MaxModelLen
        /\ PromptLen[r] \in 1 .. MaxModelLen - 1
    /\ \A c \in Configs :
        /\ c.policy \in {"none", "full_decode_only"}
        /\ c.attention_backend \in {"auto", "flashattention", "flashinfer"}
        /\ c.usable \subseteq {"flashattention", "flashinfer"}
        /\ c.mode \in {"unified", "split"}
        /\ "flashattention" \in c.usable => c.mode = "unified"
        /\ c.batch_attention \in BOOLEAN
        /\ c.world_size \in Nat \ {0}

VARIABLES
    attempted,      \* _FULL_DECODE_GRAPH_CAPTURE_ATTEMPTED
    context,        \* _CONTEXT
    engine,         \* configuration and phase of the current engine
    graph_states,   \* decode_graph_states: bucket -> DecodeGraphState
    active_graph,   \* _active_graph_state of the backend
    wrappers,       \* what the eager wrappers were planned with last
    kv_cache,
    stats,          \* _cudagraph_stats, and the number of batches (history)
    step,           \* locals of run()
    requests,       \* the sequences, as the scheduler hands them over
    batch,          \* the scheduled batch: a sequence of requests ...
    num_prefill,    \* ... and how many of its rows are prefills
    started,        \* engines started so far
    sessions        \* history: engines that created graph states

processVars == <<attempted, started, sessions>>
runnerVars == <<context, engine, graph_states, active_graph, wrappers, kv_cache, stats, step>>
batchVars == <<requests, batch, num_prefill>>
vars == <<processVars, runnerVars, batchVars>>

None == -1
EmptyContext == [metadata |-> <<>>]
NoKernel == <<>>
NoWrappers == [prefill |-> NoKernel, decode |-> NoKernel, mixed |-> NoKernel]
NoStats == [replays |-> 0, fallbacks |-> 0, hits |-> 0, misses |-> 0, batches |-> 0]
NoGraphs == [b \in {} |-> None]
Idle == [pc |-> "idle"]
Fresh == [r \in Requests |-> [length |-> PromptLen[r], num_cached_tokens |-> 0,
                              num_new_tokens |-> 0, block_table |-> <<>>]]

(* A request and a warmup sequence as rows of a batch.                      *)
RowOf(r) ==
    [token_ids |-> SubSeq(Text[r], 1, requests[r].length),
     num_cached_tokens |-> requests[r].num_cached_tokens,
     num_new_tokens |-> requests[r].num_new_tokens,
     block_table |-> requests[r].block_table]
WarmupRow(n) ==
    [token_ids |-> [i \in 1 .. n |-> 0], num_cached_tokens |-> 0,
     num_new_tokens |-> n, block_table |-> <<>>]

WarmupRows ==
    LET tokens == Min({MaxNumBatchedTokens, MaxNumSeqs * MaxModelLen})
        full == tokens \div MaxModelLen
        rest == tokens % MaxModelLen
    IN  [i \in 1 .. full |-> WarmupRow(MaxModelLen)]
            \o (IF rest = 0 THEN <<>> ELSE <<WarmupRow(rest)>>)

Rows == IF engine.phase = "warmup" THEN WarmupRows
        ELSE [i \in DOMAIN batch |-> RowOf(batch[i])]

-----------------------------------------------------------------------------
(* Construction                                                            *)

Init ==
    /\ attempted = FALSE
    /\ context = EmptyContext
    /\ engine = [phase |-> "absent"]
    /\ graph_states = NoGraphs
    /\ active_graph = None
    /\ wrappers = NoWrappers
    /\ kv_cache = <<>>
    /\ stats = NoStats
    /\ step = Idle
    /\ requests = Fresh
    /\ batch = <<>>
    /\ num_prefill = 0
    /\ started = 0
    /\ sessions = 0

MaxDecodeBatch == Min({MaxNumSeqs, MaxNumBatchedTokens})

\* Faulty variant: buckets no batch can have.
AllBuckets == BatchSizes

Buckets == {b \in BatchSizes : b <= MaxDecodeBatch}

(* AttentionBackendRegistry.create among the backends that are usable here  *)
(* (packages, device, dtype, block size, mode); NoBackend if it raises.     *)
NoBackend == "none"
Backend(config) ==
    CASE config.attention_backend # "auto" ->
            IF config.attention_backend \in config.usable
            THEN config.attention_backend ELSE NoBackend
      [] config.attention_backend = "auto" /\ "flashattention" \in config.usable ->
            "flashattention"
      [] OTHER -> IF "flashinfer" \in config.usable THEN "flashinfer" ELSE NoBackend

SupportsFullDecodeGraph(config) ==
    Backend(config) = "flashinfer" /\ config.mode = "unified"
SupportsUnifiedMixed(config) ==
    \/ Backend(config) = "flashattention"
    \/ config.mode = "unified" /\ config.batch_attention

Capable(config) ==
    /\ config.policy = "full_decode_only"
    /\ config.world_size = 1
    /\ SupportsFullDecodeGraph(config)
    /\ Buckets # {}

(* __init__ up to the model: the first capable engine of the process claims  *)
(* the capture session, later ones run eagerly.                            *)
Construct(config) ==
    /\ engine.phase = "absent"
    /\ started < MaxEngines
    /\ Backend(config) # NoBackend
    /\ engine' = [phase |-> "warmup", config |-> config,
                  capable |-> Capable(config) /\ ~attempted]
    /\ attempted' = (attempted \/ Capable(config))
    /\ started' = started + 1
    /\ stats' = NoStats
    /\ UNCHANGED <<context, graph_states, active_graph, wrappers, kv_cache, step,
                   batchVars, sessions>>

(* The constructor raises; its process group stays initialized, so that no  *)
(* further engine can be started in the process.                           *)
ConstructFails(config) ==
    /\ engine.phase = "absent"
    /\ started < MaxEngines
    /\ Backend(config) = NoBackend
    /\ engine' = [phase |-> "rejected"]
    /\ started' = started + 1
    /\ UNCHANGED <<attempted, sessions, context, graph_states, active_graph, wrappers,
                   kv_cache, stats, step, batchVars>>

\* Faulty variant: room for the pages of one request only.
PagesOfOneRequest(b) == CeilDiv(MaxModelLen, BlockSize)

PageCapacity(b) == b * CeilDiv(MaxModelLen, BlockSize)

(* create_full_decode_graph_state: buffers and a wrapper without a plan.    *)
NewGraphState ==
    [captured |-> FALSE, kernel |-> NoKernel, input_ids |-> <<>>, positions |-> <<>>,
     slot_mapping |-> <<>>, hidden |-> <<>>]

InitializeGraphStates ==
    /\ engine.phase = "allocate"
    /\ engine.capable /\ graph_states = NoGraphs
    /\ graph_states' = [b \in Buckets |-> NewGraphState]
    /\ sessions' = sessions + 1
    /\ UNCHANGED <<attempted, started, context, engine, active_graph, wrappers,
                   kv_cache, stats, step, batchVars>>

(* allocate_kv_cache; without graph states construction is over.            *)
AllocateKvCache ==
    /\ engine.phase = "allocate"
    /\ engine.capable => graph_states # NoGraphs
    /\ kv_cache' = [slot \in Slots |-> None]
    /\ engine' = [engine EXCEPT !.phase =
            IF graph_states = NoGraphs THEN "serving" ELSE "capture"]
    /\ stats' = IF graph_states = NoGraphs THEN NoStats ELSE stats
    /\ UNCHANGED <<processVars, context, graph_states, active_graph, wrappers, step,
                   batchVars>>

-----------------------------------------------------------------------------
(* Context, plan and dispatch                                              *)

UpdatedWrappers(planned) ==
    [w \in DOMAIN wrappers |-> IF w \in DOMAIN planned THEN planned[w] ELSE wrappers[w]]

(* run: prepare_model_input and prepare_sample.                             *)
StartRun(rows, prefills) ==
    /\ step' = [pc |-> "prepared",
                input_ids |-> FlattenSeq([i \in DOMAIN rows |-> InputIds(rows[i])]),
                positions |-> FlattenSeq([i \in DOMAIN rows |-> Positions(rows[i])])]
    /\ context' = [metadata |-> Metadata(rows, prefills), route |-> "none",
                   logits_rows |-> LogitsRows(rows), mode |-> "eager"]
    /\ UNCHANGED <<processVars, engine, graph_states, active_graph, wrappers, kv_cache,
                   stats, batchVars>>

WarmupModel ==
    /\ engine.phase = "warmup" /\ step = Idle
    /\ StartRun(WarmupRows, Len(WarmupRows))

PrepareModelInput ==
    /\ engine.phase = "serving" /\ step = Idle
    /\ batch # <<>>
    /\ StartRun(Rows, num_prefill)

(* build_plan: the wrappers of the route are planned.  (Dao FlashAttention   *)
(* plans nothing ahead, its plan carries the metadata.)                     *)
BuildPlan ==
    /\ step.pc = "prepared"
    /\ Valid(context.metadata) /\ PageCountsMatch(context.metadata)
    /\ LET common == context.metadata
           route == Route(common, SupportsUnifiedMixed(engine.config))
       IN  /\ context' = [context EXCEPT !.route = route]
           /\ wrappers' = IF Backend(engine.config) = "flashinfer"
                            THEN UpdatedWrappers(Planned(common, route))
                            ELSE wrappers
    /\ step' = [step EXCEPT !.pc = "planned"]
    /\ UNCHANGED <<processVars, engine, graph_states, active_graph, kv_cache, stats,
                   batchVars>>

(* The checks of select_runtime_mode before the lookup of a bucket ...      *)
IsDecodeStep ==
    LET common == context.metadata
        n == common.num_decode_seqs
    IN  /\ BatchType(common) = "pure_decode"
        /\ SupportsFullDecodeGraph(engine.config)
        /\ engine.config.world_size = 1
        /\ common.num_prefill_seqs = 0 /\ common.num_prefill_tokens = 0
        /\ common.num_decode_tokens = n
        /\ Len(step.input_ids) = n
        /\ Len(common.query_start_loc) = n + 1

(* ... those of the backend on its metadata (full_decode_graph_metadata_fits)  *)
BackendMetadataFits(common, b) ==
    /\ BatchType(common) = "pure_decode" /\ context.route = "decode"
    /\ common.num_prefill_seqs = 0 /\ common.num_prefill_tokens = 0
    /\ common.num_decode_seqs = b /\ common.num_decode_tokens = b
    /\ Len(common.query_start_loc) = b + 1
    /\ Len(KvIndptr(common)) = b + 1 /\ Len(LastPageLen(common)) = b
    /\ Len(PageIndices(common)) <= PageCapacity(b)
    /\ common.num_kv_blocks = Len(PageIndices(common))
    /\ common.num_prefill_kv_blocks = 0
    /\ Len(common.slot_mapping) = b

(* ... and those of the runner before them (graph_metadata_fits).           *)
MetadataFits(b) ==
    LET common == context.metadata IN
    /\ Len(common.query_start_loc) = b + 1
    /\ Len(common.seq_lens) = b /\ Len(common.slot_mapping) = b
    /\ Len(common.block_tables) = b
    /\ BackendMetadataFits(common, b)

(* select_runtime_mode: a graph only for exactly its batch size; everything  *)
(* else is a counted fallback, except under policy none.                    *)
SelectRuntimeMode ==
    /\ step.pc = "planned"
    /\ LET b == context.metadata.num_decode_seqs
           graphs == engine.config.policy # "none"
           lookup == graphs /\ IsDecodeStep
           hit == lookup /\ b \in DOMAIN graph_states
           replay == hit /\ graph_states[b].captured /\ MetadataFits(b)
           Counted(x, condition) == IF condition THEN x + 1 ELSE x
       IN  /\ context' = [context EXCEPT !.mode = IF replay THEN "full_graph" ELSE "eager"]
           /\ stats' = [stats EXCEPT !.hits = Counted(@, hit),
                                     !.misses = Counted(@, lookup /\ ~hit),
                                     !.fallbacks = Counted(@, graphs /\ ~replay),
                                     !.batches = @ + 1]
    /\ step' = [step EXCEPT !.pc = "dispatched"]
    /\ UNCHANGED <<processVars, engine, graph_states, active_graph, wrappers, kv_cache,
                   batchVars>>

-----------------------------------------------------------------------------
(* Forward pass                                                            *)

(* FlashAttentionBackend.forward: by the route of the plan.                 *)
FlashAttentionForward(common, cache) ==
    IF context.route = "warmup" THEN AttendCacheless(common, step.input_ids, step.positions)
    ELSE Attend(UnifiedKernel(common), cache)

(* FlashInferBackend.forward: an active graph state takes over whatever the  *)
(* plan says, then the absence of a cache, then the route.                  *)
FlashInferForward(common, cache) ==
    CASE active_graph # None -> Attend(graph_states[active_graph].kernel, cache)
      [] active_graph = None /\ cache = <<>> ->
            AttendCacheless(common, step.input_ids, step.positions)
      [] OTHER ->
            LET used == WrappersOf(context.route)
            IN  FlattenSeq([i \in DOMAIN used |-> Attend(wrappers[used[i]], cache)])

(* One forward pass: the K/V of the batch is stored, then read.             *)
RunEagerly ==
    /\ step.pc = "dispatched" /\ context.mode = "eager"
    /\ LET common == context.metadata
           cache == Store(kv_cache, step.input_ids, step.positions, common.slot_mapping)
           seen == IF Backend(engine.config) = "flashattention"
                   THEN FlashAttentionForward(common, cache)
                   ELSE FlashInferForward(common, cache)
       IN  /\ kv_cache' = cache
           /\ step' = [pc |-> "forwarded",
                       hidden |-> Hidden(step.input_ids, step.positions, seen)]
    /\ UNCHANGED <<processVars, context, engine, graph_states, active_graph, wrappers,
                   stats, batchVars>>

(* What replay computes depends on the fixed buffers of the graph alone.    *)
Replayed(g, cache) == Hidden(g.input_ids, g.positions, Attend(g.kernel, cache))

\* Faulty variant: the kernel keeps the plan it was captured with.
FilledWithoutPlan(g) ==
    [g EXCEPT !.input_ids = step.input_ids, !.positions = step.positions,
              !.slot_mapping = context.metadata.slot_mapping]

(* plan_full_decode_graph and the copies into the static buffers.           *)
Filled(g) ==
    LET common == context.metadata IN
    [g EXCEPT !.kernel = DecodeKernel(KvIndptr(common), PageIndices(common),
                                      LastPageLen(common)),
              !.input_ids = step.input_ids, !.positions = step.positions,
              !.slot_mapping = common.slot_mapping]

ReplayGraph ==
    /\ step.pc = "dispatched" /\ context.mode = "full_graph"
    /\ LET b == context.metadata.num_decode_seqs
           g == Filled(graph_states[b])
           cache == Store(kv_cache, g.input_ids, g.positions, g.slot_mapping)
           hidden == Replayed(g, cache)
       IN  /\ graph_states' = [graph_states EXCEPT ![b] = [g EXCEPT !.hidden = hidden]]
           /\ kv_cache' = cache
           /\ step' = [pc |-> "forwarded", hidden |-> hidden]
    /\ stats' = [stats EXCEPT !.replays = @ + 1]
    /\ UNCHANGED <<processVars, context, engine, active_graph, wrappers, batchVars>>

(* compute_logits, the sampler and reset_context: row i of the logits is     *)
(* divided by the temperature of row i of those that sample.               *)
Sample ==
    /\ step.pc = "forwarded"
    /\ LET last == LastIndices(context.metadata, context.logits_rows)
       IN  step' = [pc |-> "sampled", logits_rows |-> context.logits_rows,
                    logits |-> [i \in DOMAIN last |-> step.hidden[last[i]]]]
    /\ context' = EmptyContext
    /\ UNCHANGED <<processVars, engine, graph_states, active_graph, wrappers, kv_cache,
                   stats, batchVars>>

(* The warmup run returns.                                                 *)
WarmupEnd ==
    /\ engine.phase = "warmup" /\ step.pc = "sampled"
    /\ step' = Idle
    /\ engine' = [engine EXCEPT !.phase = "allocate"]
    /\ UNCHANGED <<processVars, context, graph_states, active_graph, wrappers, kv_cache,
                   stats, batchVars>>

-----------------------------------------------------------------------------
(* Capture                                                                 *)

CaptureRow == [token_ids |-> <<0>>, num_cached_tokens |-> 0, num_new_tokens |-> 1,
               block_table |-> <<0>>]
CaptureMetadata(b) ==
    [Metadata([i \in 1 .. b |-> CaptureRow], 0)
        EXCEPT !.slot_mapping = [i \in 1 .. b |-> -1]]

Uncaptured == {b \in DOMAIN graph_states : ~graph_states[b].captured}

(* _capture_full_decode_graphs, largest bucket first: synthetic rows on page *)
(* zero with slots that are never written.  The plan of the eager decode    *)
(* wrapper is a side effect of build_plan.                                 *)
BeginCapture ==
    /\ engine.phase = "capture" /\ step = Idle
    /\ Uncaptured # {}
    /\ active_graph = None       \* otherwise activation raises
    /\ LET b == Max(Uncaptured)
           common == CaptureMetadata(b)
       IN  /\ context' = [metadata |-> common, route |-> "decode",
                          logits_rows |-> <<>>, mode |-> "full_graph"]
           /\ wrappers' = UpdatedWrappers(Planned(common, "decode"))
           /\ graph_states' = [graph_states EXCEPT ![b] =
                  [@ EXCEPT !.kernel = Planned(common, "decode").decode,
                            !.input_ids = [i \in 1 .. b |-> 0],
                            !.positions = [i \in 1 .. b |-> 0],
                            !.slot_mapping = common.slot_mapping]]
           /\ active_graph' = b
           /\ step' = [pc |-> "capturing"]
           \* page zero is cleared before the first bucket
           /\ kv_cache' = IF Uncaptured = DOMAIN graph_states
                          THEN [slot \in Slots |->
                                    IF slot < BlockSize THEN 0 ELSE kv_cache[slot]]
                          ELSE kv_cache
    /\ UNCHANGED <<processVars, engine, stats, batchVars>>

\* Faulty variant: the state stays active after its capture.
StillActive == active_graph

Deactivated == None

(* Warm run and capture of the bucket, then deactivate_full_decode_graph and *)
(* reset_context; after the last bucket the counters are reset.             *)
EndCapture ==
    /\ step.pc = "capturing"
    /\ LET b == active_graph
           g == graph_states[b]
       IN  /\ graph_states' = [graph_states EXCEPT ![b] =
                  [g EXCEPT !.captured = TRUE, !.hidden = Replayed(g, kv_cache)]]
           /\ IF Uncaptured = {b}
                THEN /\ engine' = [engine EXCEPT !.phase = "serving"]
                     /\ stats' = NoStats
                ELSE UNCHANGED <<engine, stats>>
    /\ active_graph' = Deactivated
    /\ context' = EmptyContext
    /\ step' = Idle
    /\ UNCHANGED <<processVars, wrappers, kv_cache, batchVars>>

(* The capture of a bucket raises: cleaned up in `finally', and the          *)
(* constructor fails.                                                      *)
CaptureFails ==
    /\ step.pc = "capturing"
    /\ active_graph' = Deactivated
    /\ context' = EmptyContext
    /\ step' = Idle
    /\ engine' = [engine EXCEPT !.phase = "broken"]
    /\ UNCHANGED <<processVars, graph_states, wrappers, kv_cache, stats, batchVars>>

\* Faulty variant: exit makes room for another capture session.
Reopened == FALSE

StaysAttempted == attempted

(* exit: graphs, backend and cache are gone; the module globals stay.       *)
Discard ==
    /\ engine' = [phase |-> "absent"]
    /\ graph_states' = NoGraphs
    /\ active_graph' = None
    /\ wrappers' = NoWrappers
    /\ kv_cache' = <<>>
    /\ stats' = NoStats
    /\ attempted' = StaysAttempted
    /\ requests' = Fresh
    /\ batch' = <<>>
    /\ num_prefill' = 0
    /\ UNCHANGED <<started, sessions, context>>

Exit ==
    /\ engine.phase = "serving" /\ step = Idle
    /\ Discard
    /\ UNCHANGED step

(* Something in the forward pass raises (out of memory, an interrupt): the   *)
(* context stays as it is, and the engine is given up.                      *)
RunFails ==
    /\ engine.phase = "serving"
    /\ step.pc \in {"prepared", "planned", "dispatched"}
    /\ step' = Idle
    /\ Discard

-----------------------------------------------------------------------------
(* Environment: the scheduler forms a batch row by row and takes back what   *)
(* was sampled.                                                            *)

FreePages == Pages \ UNION {Range(requests[r].block_table) : r \in Requests}
LastFirst == Reverse(SetToSeq(FreePages))
RowTokens(r) == requests[r].num_new_tokens
Decodes(r) == requests[r].length > PromptLen[r]
Partial(r) == requests[r].num_cached_tokens + requests[r].num_new_tokens
                \in 1 .. requests[r].length - 1 /\ ~Decodes(r)

(* Request r may start with the first page of request d, which is computed or *)
(* will be in this batch: it holds the same prefix, and r goes on after it.  *)
Shareable(r, d) ==
    /\ d # r /\ requests[r].block_table = <<>> /\ requests[d].block_table # <<>>
    /\ ContextEnd(requests[d]) >= BlockSize
    /\ requests[r].length > BlockSize
    /\ SubSeq(Text[d], 1, BlockSize) = SubSeq(Text[r], 1, BlockSize)

(* r joins the batch with n new tokens, which start after the page it shares *)
(* with d (if d is a request), and gets the pages it needs.                 *)
AddRow(r, n, d) ==
    /\ engine.phase = "serving" /\ step = Idle /\ stats.batches < MaxBatches
    /\ r \notin Range(batch) /\ requests[r].length < MaxModelLen
    /\ Len(batch) < MaxNumSeqs
    /\ MapThenSumSet(RowTokens, Range(batch)) + n <= MaxNumBatchedTokens
    /\ Decodes(r) => d = NoRequest
    /\ ~Decodes(r) => num_prefill = Len(batch)
    /\ d # NoRequest => Shareable(r, d)
    /\ LET shared == IF d = NoRequest THEN <<>> ELSE <<requests[d].block_table[1]>>
           table == requests[r].block_table \o shared
           cached == requests[r].num_cached_tokens + Len(shared) * BlockSize
           more == CeilDiv(cached + n, BlockSize) - Len(table)
       IN  /\ cached + n <= requests[r].length
           /\ cached + n < requests[r].length => \A q \in Requests \ {r} : ~Partial(q)
           /\ more <= Cardinality(FreePages)
           /\ requests' = [requests EXCEPT ![r] =
                    [@ EXCEPT !.num_cached_tokens = cached, !.num_new_tokens = n,
                              !.block_table = table \o SubSeq(LastFirst, 1, more)]]
    /\ batch' = Append(batch, r)
    /\ num_prefill' = IF Decodes(r) THEN num_prefill ELSE num_prefill + 1
    /\ UNCHANGED <<processVars, runnerVars>>

(* postprocess: a row that sampled gets its token; a request that reaches    *)
(* MaxModelLen gives its pages back.                                       *)
Postprocess ==
    /\ engine.phase = "serving" /\ step.pc = "sampled"
    /\ LET sampled == {batch[step.logits_rows[i]] : i \in DOMAIN step.logits_rows}
           Length(r) == requests[r].length + IF r \in sampled THEN 1 ELSE 0
       IN  requests' = [r \in Requests |->
                IF r \notin Range(batch) THEN requests[r]
                ELSE [length |-> Length(r),
                      num_cached_tokens |-> ContextEnd(requests[r]),
                      num_new_tokens |-> 0,
                      block_table |-> IF Length(r) = MaxModelLen THEN <<>>
                                      ELSE requests[r].block_table]]
    /\ batch' = <<>>
    /\ num_prefill' = 0
    /\ step' = Idle
    /\ UNCHANGED <<processVars, context, engine, graph_states, active_graph, wrappers,
                   kv_cache, stats>>

Run == PrepareModelInput \/ BuildPlan \/ SelectRuntimeMode \/ RunEagerly
            \/ ReplayGraph \/ Sample \/ RunFails
Capture == BeginCapture \/ EndCapture \/ CaptureFails
Initialize == WarmupModel \/ WarmupEnd \/ InitializeGraphStates \/ AllocateKvCache

Next ==
    \/ \E config \in Configs : Construct(config) \/ ConstructFails(config)
    \/ Initialize
    \/ Capture
    \/ \E r \in Requests, n \in 1 .. MaxNumBatchedTokens, d \in Requests \cup {NoRequest} :
            AddRow(r, n, d)
    \/ Run
    \/ Postprocess
    \/ Exit

Spec == Init /\ [][Next]_vars

-----------------------------------------------------------------------------
(* Properties                                                              *)

RunnerPhases == {"absent", "warmup", "allocate", "capture", "serving", "broken", "rejected"}

(* The variables range over their domains; a graph state exists only for     *)
(* buckets no batch can exceed.                                            *)
RunnerTypeOK ==
    /\ attempted \in BOOLEAN
    /\ engine.phase \in RunnerPhases
    /\ DOMAIN graph_states \subseteq 1 .. MaxDecodeBatch
    /\ active_graph \in DOMAIN graph_states \cup {None}
    /\ DOMAIN kv_cache \in {{}, Slots}
    /\ \A w \in DOMAIN stats : stats[w] \in Nat
    /\ Range(batch) \subseteq Requests /\ num_prefill \in 0 .. Len(batch)
    /\ \A r \in Requests :
        /\ requests[r].length \in 1 .. MaxModelLen
        /\ ContextEnd(requests[r]) <= requests[r].length
        /\ requests[r].block_table \in Seq(Pages)
    /\ started \in 0 .. MaxEngines /\ sessions \in Nat

(* No batch the scheduler may form is rejected when its metadata is           *)
(* validated: slots, pages and offsets agree with the tokens of the batch.  *)
MetadataAccepted ==
    step.pc = "prepared" => Valid(context.metadata) /\ PageCountsMatch(context.metadata)

(* Whatever the route - warmup, prefill, decode, one or two kernels for a     *)
(* mixed batch, or replay from fixed buffers - every query token is computed *)
(* from its own token and position and sees exactly the tokens of its own   *)
(* request up to itself, in order.                                         *)
ForwardIsReference ==
    step.pc = "forwarded" => step.hidden = ReferenceBatch(Rows)

(* Token i that run() returns goes to the request that postprocess gives it  *)
(* to: it was sampled from the last known token of that request, and every  *)
(* request that is completely computed gets one.                           *)
SamplesReachTheirRequest ==
    engine.phase = "serving" /\ step.pc = "sampled" =>
        /\ \A i \in DOMAIN step.logits_rows :
            LET row == RowOf(batch[step.logits_rows[i]])
            IN  step.logits[i] = Reference(row.token_ids, Len(row.token_ids))
        /\ {step.logits_rows[i] : i \in DOMAIN step.logits_rows}
                = {k \in DOMAIN batch :
                    ContextEnd(RowOf(batch[k])) = requests[batch[k]].length}

(* Between batches nothing of a finished forward pass or capture is left     *)
(* that the next one could pick up, also if a capture failed.               *)
QuietWhenIdle ==
    step = Idle /\ engine.phase \in {"allocate", "capture", "serving", "broken"} =>
        context = EmptyContext /\ active_graph = None

(* The counters account for each batch once, and a bucket that was captured  *)
(* is always replayed when its batch size comes up: the page buffer is      *)
(* large enough for any batch of requests the scheduler lets grow.          *)
CountersAccountForBatches ==
    engine.phase = "serving" /\ step = Idle =>
        /\ stats.replays + stats.fallbacks =
                IF engine.config.policy = "none" THEN 0 ELSE stats.batches
        /\ stats.hits = stats.replays
        /\ stats.misses <= stats.fallbacks

(* "only one full-decode capture session is initialized per CUDA process"    *)
(* (docs/architecture.md), however many engines follow each other.          *)
OneCaptureSession == sessions <= 1
=============================================================================
