--------------------------- MODULE EngineProcess ----------------------------
(***************************************************************************)
(* One process that builds engines one after the other: the validation of  *)
(* the options (Config.__post_init__), the constructor of ModelRunner up to *)
(* the end of its warm-up forward, exit(), and a new attempt.  What is      *)
(* shared by the attempts is the state of torch (default dtype and device,  *)
(* process group) and the cache of get_rope.                               *)
(*                                                                         *)
(* All ranks execute the same constructor on the same options; they meet in *)
(* the collectives of the forward pass.  `params' holds the parameters of   *)
(* every rank, the rest is the state of each of them.                       *)
(*                                                                         *)
(* The forward pass runs on a heap of tensors: `heap' maps a buffer to the  *)
(* term it stores, the registers of fwd are the Python variables that name  *)
(* buffers.  An in-place kernel overwrites the buffer, whoever names it.    *)
(***************************************************************************)
EXTENDS OperatorDispatch, ParallelLayers, SiluKernel, Sequences, FiniteSetsExt

CONSTANTS
    Environments,       \* what a process may find installed
    Options,            \* keyword arguments of LLM, with their model
    LowerCase,          \* LowerCase[s] is s.lower()
    ProcessDtype,       \* torch.get_default_dtype() when the process starts
    MaxEngines          \* bound: engines attempted in one process

ASSUME EngineProcessAssumption ==
    /\ MaxEngines \in Nat
    /\ ProcessDtype \notin {"uninitialized"}

(* The keyword arguments Config has a field for, all of them given; what the *)
(* configuration file of a model says; and a checkpoint in the format of     *)
(* Hugging Face, where q, k, v, gate and up are tensors of their own and no  *)
(* tensor of the model is missing.                                         *)
OptionNames ==
    {"hf", "tensor_parallel_size", "attention_backend", "attention_mode", "kvcache_block_size",
     "enforce_eager", "cudagraph_mode", "cudagraph_batch_sizes", "max_model_len",
     "operator_overrides"}
LayerTensors(hf) ==
    {"q_proj", "k_proj", "v_proj", "o_proj", "gate_proj", "up_proj", "down_proj",
     "input_layernorm", "post_attention_layernorm"}
        \cup (IF hf.bias THEN {} ELSE {"q_norm", "k_norm"})
ModelTensors(hf) ==
    (Layers(hf) \X LayerTensors(hf)) \cup {<<0, "embed_tokens">>, <<0, "norm">>}
        \cup (IF hf.tied THEN {} ELSE {<<0, "lm_head">>})
CheckpointNames ==
    Nat \X {"q_proj", "k_proj", "v_proj", "o_proj", "gate_proj", "up_proj", "down_proj",
            "input_layernorm", "post_attention_layernorm", "q_norm", "k_norm",
            "embed_tokens", "norm", "lm_head"}

ASSUME OptionsAssumption ==
    \A options \in Options :
        LET hf == options.hf
        IN  /\ DOMAIN options = OptionNames
            /\ options.max_model_len \in Nat /\ hf.max_position \in Nat
            /\ {hf.heads, hf.kv_heads, hf.inter, hf.vocab, hf.layers} \subseteq Nat \ {0}
            /\ \A file \in hf.files : file \in Seq(CheckpointNames)
            /\ \A name \in ModelTensors(hf) :
                    \E file \in hf.files : \E k \in DOMAIN file : file[k] = name

VARIABLES
    env,            \* the environment of the process
    phase,          \* where the constructor of the engine is
    config,         \* the validated Config
    torch,          \* [dtype, device : default ones, group : process group exists]
    rope_cache,     \* the entry of lru_cache(1) on _get_rope
    saved_dtype,    \* default_dtype in ModelRunner.__init__
    backend,        \* attention_backend
    provider,       \* the implementation each operator of the model is bound to
    rope,           \* rotary_emb of the layers
    params,         \* params[rank][name]
    unread,         \* files of the checkpoint not loaded yet
    heap, fwd,      \* the forward pass
    attempts        \* engines attempted

processVars == <<env, torch, rope_cache, attempts>>
modelVars == <<backend, provider, rope, params, unread>>
vars == <<processVars, modelVars, phase, config, saved_dtype, heap, fwd>>

None == "none"
NoConfig == [tensor_parallel_size |-> 0]
NoRope == [provider |-> None]
Lower(s) == IF s \in DOMAIN LowerCase THEN LowerCase[s] ELSE s

-----------------------------------------------------------------------------
(* Config.__post_init__                                                    *)

Policies == {"none", "full_decode_only"}
FlashAttentionNames == {"flashattention", "legacy"}

(* The policy and enforce_eager settle each other.                          *)
Policy(options) ==
    IF options.enforce_eager THEN "none" ELSE Lower(options.cudagraph_mode)

Valid(options) ==
    /\ Lower(options.cudagraph_mode) \in Policies
    /\ options.cudagraph_batch_sizes # {}
    /\ 0 \notin options.cudagraph_batch_sizes
    /\ options.kvcache_block_size > 0
    /\ Lower(options.attention_backend) \in {"auto", "flashinfer"} \cup FlashAttentionNames
    /\ Lower(options.attention_mode) \in {"unified", "split"}
    /\ Lower(options.attention_backend) \in FlashAttentionNames =>
        options.kvcache_block_size % 256 = 0 /\ Lower(options.attention_mode) = "unified"
    /\ options.tensor_parallel_size \in 1 .. 8

\* Faulty variant: max_model_len is not cut to the model.
NormalizedAnyLength(options) ==
    [options EXCEPT
        !.cudagraph_mode = Policy(options),
        !.enforce_eager = Policy(options) = "none",
        !.attention_backend = Lower(@),
        !.attention_mode = Lower(@)]

Normalized(options) ==
    [options EXCEPT
        !.cudagraph_mode = Policy(options),
        !.enforce_eager = Policy(options) = "none",
        !.attention_backend = Lower(@),
        !.attention_mode = Lower(@),
        !.max_model_len = IF @ <= options.hf.max_position THEN @ ELSE options.hf.max_position]

-----------------------------------------------------------------------------
(* The pieces of ModelRunner.__init__                                      *)

tp == config.tensor_parallel_size

(* CustomOpConfig(platform="cuda", ...): the names of the implementations   *)
(* are lowered, those of the operators are not.                            *)
OpConfig ==
    [platform |-> "cuda", dtype |-> config.hf.dtype,
     overrides |-> [op \in DOMAIN config.operator_overrides |->
                        Lower(config.operator_overrides[op])]]

(* AttentionBackend.__init__                                               *)
HeadsAccepted ==
    LET q == config.hf.heads \div tp
        kv == config.hf.kv_heads \div tp
    IN  q > 0 /\ kv > 0 /\ q % kv = 0

(* The two packages are imported the first time a backend is asked whether  *)
(* it is supported; attention needs what the operators of FlashInfer need.  *)
FlashAttentionLoads == env.flash_attn
FlashInferLoads == FlashInferAvailable(env)

(* support_reason of the two backends.                                     *)
FlashAttentionSupported ==
    /\ config.kvcache_block_size % 256 = 0
    /\ config.attention_mode = "unified"
    /\ config.hf.dtype \in HalfPrecision
    /\ FlashAttentionLoads

FlashInferSupported ==
    /\ config.kvcache_block_size > 0
    /\ config.hf.dtype \in HalfPrecision
    /\ FlashInferLoads

(* AttentionBackendRegistry.create                                         *)
CreatedBackend ==
    LET requested == IF config.attention_backend = "legacy" THEN "flashattention"
                     ELSE config.attention_backend
        Usable(name) == /\ requested \in {"auto", name}
                        /\ CASE name = "flashattention" -> FlashAttentionSupported
                             [] name = "flashinfer" -> FlashInferSupported
    IN  IF ~HeadsAccepted THEN Raises
        ELSE IF Usable("flashattention") THEN "flashattention"
        ELSE IF Usable("flashinfer") THEN "flashinfer"
        ELSE Raises

(* get_rope: rope_scaling other than the default type is refused.           *)
RopeRefused == config.hf.rope \notin {"default"}

\* Faulty variant: the key leaves the table length out.
RopeKeyAnyLength == [max_position |-> 0, config |-> OpConfig]
RopeKey == [max_position |-> config.hf.max_position, config |-> OpConfig]

(* The rotary embedding of a key, built on this occasion.                   *)
NewRope == [key |-> RopeKey, max_position |-> config.hf.max_position,
            config |-> OpConfig,
            provider |-> Select(OpConfig, "rotary_embedding", torch.device, env)]

ModelProviders ==
    [op \in Operators |-> Select(OpConfig, op, torch.device, env)]

NoForward == [at |-> "embed", layer |-> 0, hidden |-> 0, residual |-> 0]

-----------------------------------------------------------------------------

Init ==
    /\ env \in Environments
    /\ phase = "idle"
    /\ config = NoConfig
    /\ torch = [dtype |-> ProcessDtype, device |-> "cpu", group |-> FALSE]
    /\ rope_cache = NoRope
    /\ saved_dtype = ProcessDtype
    /\ backend = None
    /\ provider = [op \in Operators |-> None]
    /\ rope = NoRope
    /\ params = <<>>
    /\ unread = {}
    /\ heap = <<>>
    /\ fwd = NoForward
    /\ attempts = 0

(* The engine object is never created: its exception reaches the caller,    *)
(* who may try again.  Nothing that was done to the process is undone.      *)
Forgotten ==
    /\ config' = NoConfig
    /\ backend' = None
    /\ provider' = [op \in Operators |-> None]
    /\ rope' = NoRope
    /\ params' = <<>>
    /\ unread' = {}
    /\ heap' = <<>>
    /\ fwd' = NoForward

\* Faulty variant: the process group is released, the defaults are not.
AfterFailureReleased == [torch EXCEPT !.group = FALSE]
AfterFailure == torch

Fail ==
    /\ phase' = "idle"
    /\ torch' = AfterFailure
    /\ Forgotten
    /\ UNCHANGED <<env, rope_cache, attempts, saved_dtype>>

(* The keyword arguments of LLM, and Config.__post_init__                   *)
Configure(options) ==
    /\ phase = "idle"
    /\ attempts < MaxEngines
    /\ Valid(options)
    /\ config' = Normalized(options)
    /\ phase' = "configured"
    /\ attempts' = attempts + 1
    /\ UNCHANGED <<env, torch, rope_cache, modelVars, saved_dtype, heap, fwd>>

(* init_process_group, and the defaults of torch for the construction.      *)
EnterProcess ==
    /\ phase = "configured"
    /\ ~torch.group
    /\ torch' = [dtype |-> config.hf.dtype, device |-> "cuda", group |-> TRUE]
    /\ saved_dtype' = torch.dtype
    /\ phase' = "entered"
    /\ UNCHANGED <<env, rope_cache, attempts, config, modelVars, heap, fwd>>

(* A process has one default group.                                        *)
EnterProcessFails ==
    /\ phase = "configured"
    /\ torch.group
    /\ Fail

CreateBackend ==
    /\ phase = "entered"
    /\ CreatedBackend # Raises
    /\ backend' = CreatedBackend
    /\ phase' = "backend"
    /\ UNCHANGED <<processVars, config, saved_dtype, provider, rope, params, unread, heap, fwd>>
CreateBackendFails ==
    /\ phase = "entered"
    /\ CreatedBackend = Raises
    /\ Fail

(* Qwen3ForCausalLM(...): uninitialized parameters, the rotary embedding    *)
(* from the cache or new, an implementation for each operator.              *)
ModelRefused ==
    \/ ~Divisible(config.hf, tp)
    \/ RopeRefused
    \/ \E op \in Operators : ModelProviders[op] = Raises
BuildModel ==
    /\ phase = "backend"
    /\ ~ModelRefused
    /\ LET hit == rope_cache # NoRope /\ rope_cache.key = RopeKey
           built == IF hit THEN rope_cache ELSE NewRope
       IN  /\ rope' = built
           /\ rope_cache' = built
           /\ provider' = [ModelProviders EXCEPT !["rotary_embedding"] = built.provider]
    /\ params' = NewParams(config.hf, tp)
    /\ unread' = config.hf.files
    /\ phase' = "loading"
    /\ UNCHANGED <<env, torch, attempts, config, saved_dtype, backend, heap, fwd>>

(* The first layer may have cached its rotary embedding when a later        *)
(* operator refuses.                                                       *)
BuildModelFails ==
    /\ phase = "backend"
    /\ ModelRefused
    /\ phase' = "idle"
    /\ torch' = AfterFailure
    /\ Forgotten
    /\ rope_cache' =
            IF /\ Divides(tp, config.hf.vocab)
               /\ Divides(tp, config.hf.heads) /\ Divides(tp, config.hf.kv_heads)
               /\ ~RopeRefused
               /\ ModelProviders["rotary_embedding"] # Raises
               /\ ~(rope_cache # NoRope /\ rope_cache.key = RopeKey)
            THEN NewRope ELSE rope_cache
    /\ UNCHANGED <<env, attempts, saved_dtype>>

(* load_model: the files in the order of the directory, the tensors of a    *)
(* file in theirs.                                                         *)
AllKnown(file) == \A k \in DOMAIN file : Target(file[k]) \in ParamNames(config.hf)
AfterFile(file) ==
    LET after[k \in 0 .. Len(file)] ==
            IF k = 0 THEN params ELSE LoadTensor(config.hf, tp, after[k - 1], file[k])
    IN  after[Len(file)]
LoadFile(file) ==
    /\ phase = "loading"
    /\ file \in unread
    /\ AllKnown(file)
    /\ params' = AfterFile(file)
    /\ unread' = unread \ {file}
    /\ UNCHANGED <<processVars, phase, config, saved_dtype, backend, provider, rope, heap, fwd>>
LoadFileFails(file) ==
    /\ phase = "loading"
    /\ file \in unread
    /\ ~AllKnown(file)
    /\ Fail

StartForward ==
    /\ phase = "loading"
    /\ unread = {}
    /\ phase' = "forward"
    /\ fwd' = NoForward
    /\ heap' = <<>>
    /\ UNCHANGED <<processVars, config, saved_dtype, modelVars>>

-----------------------------------------------------------------------------
(* The forward pass (Qwen3Model.forward, Qwen3DecoderLayer.forward)         *)

(* Buffers no variable names can be reused by the allocator.                *)
Live == {fwd.hidden, fwd.residual}
NewBuffers(n) ==
    CHOOSE s \in SUBSET (1 .. 4) : Cardinality(s) = n /\ s \cap Live = {}
NewBuffer == Min(NewBuffers(1))

Store(b, term) == [i \in DOMAIN heap \cup {b} |-> IF i = b THEN term ELSE heap[i]]
Stores(b, s, c, t) ==
    [i \in DOMAIN heap \cup {b, c} |-> IF i = b THEN s ELSE IF i = c THEN t ELSE heap[i]]

Weight(name) == params[0][name][0]
Rms(name, x) == <<"rms", Weight(name), x>>
Sum(x, y) == <<"add", x, y>>

(* float() of a half-precision tensor is a copy, of a float32 one the       *)
(* tensor itself.                                                          *)
FloatCopies == config.hf.dtype \in HalfPrecision

(* hidden, residual = input_layernorm(hidden), hidden: a new tensor, unless *)
(* the native norm works on x.float() and that is x.                       *)
Norm(name) ==
    LET normalized == Rms(name, heap[fwd.hidden])
        result == IF provider["rms_norm"] = "native_torch" /\ ~FloatCopies
                  THEN fwd.hidden ELSE NewBuffer
    IN  /\ heap' = Store(result, normalized)
        /\ fwd' = [fwd EXCEPT !.at = "attention", !.hidden = result, !.residual = fwd.hidden]

(* hidden, residual = forward_inplace(hidden, residual)                     *)
AddNorm(name, next, layer) ==
    LET total == Sum(heap[fwd.hidden], heap[fwd.residual])
        fresh == CHOOSE p \in (1 .. 4) \X (1 .. 4) :
                    p[1] # p[2] /\ {p[1], p[2]} \cap Live = {}
        target == IF provider["fused_add_rms_norm"] = "flashinfer" THEN <<fwd.hidden, fwd.residual>>
                  ELSE IF FloatCopies THEN fresh
                  ELSE <<fwd.hidden, fwd.hidden>>
    IN  /\ heap' = Stores(target[1], Rms(name, total), target[2], total)
        /\ fwd' = [at |-> next, layer |-> layer, hidden |-> target[1], residual |-> target[2]]

(* A layer that adds up over the ranks is named by its place, one that does *)
(* not is garbled.                                                         *)
Computed(sound, stage, layer, x) ==
    <<IF sound THEN stage ELSE "garbled", layer, x>>

(* The kernel of SiluAndMul on one row of a rank, and whether it refuses    *)
(* the row.                                                                *)
SiluOfRank(columns) ==
    SiluKernel(provider["silu_and_mul"], env, config.hf.dtype, 2 * columns, 1)
SiluRefuses ==
    LET columns == config.hf.inter \div tp
    IN  ~SiluAccepts(SiluOfRank(columns), env, config.hf.dtype, 2 * columns)
Activation(gate_up, columns) ==
    IF SiluOfRank(columns) = "custom_cuda" THEN SiluAndMul(gate_up, 1, columns)
    ELSE [j \in Indices(columns) |-> <<gate_up[j], gate_up[columns + j]>>]

(* The rotary embedding was built for this engine, although get_rope keeps  *)
(* one across engines, and has every position the scheduler may use.        *)
RopeUsable ==
    /\ rope.max_position = config.hf.max_position
    /\ config.max_model_len <= rope.max_position
    /\ rope.config = OpConfig
    /\ rope.provider = "flashinfer" => FlashInferAvailable(env)

Forwarding(at) == phase = "forward" /\ fwd.at = at
ForwardUnchanged == UNCHANGED <<processVars, modelVars, phase, config, saved_dtype>>

Embed ==
    /\ Forwarding("embed")
    /\ LET sound == EmbeddingAddsUp(config.hf, tp, params)
       IN  heap' = Store(NewBuffer, Computed(sound, "embed", 0, "input_ids"))
    /\ fwd' = [fwd EXCEPT !.at = "input_norm", !.layer = 1, !.hidden = NewBuffer]
    /\ ForwardUnchanged

InputNorm ==
    /\ Forwarding("input_norm")
    /\ IF fwd.residual = 0
         THEN Norm(<<fwd.layer, "input_layernorm">>)
         ELSE AddNorm(<<fwd.layer, "input_layernorm">>, "attention", fwd.layer)
    /\ ForwardUnchanged

SelfAttention ==
    /\ Forwarding("attention")
    /\ LET sound == AttentionAddsUp(config.hf, tp, params, fwd.layer) /\ RopeUsable
       IN  heap' = Store(NewBuffer, Computed(sound, "attention", fwd.layer, heap[fwd.hidden]))
    /\ fwd' = [fwd EXCEPT !.at = "post_norm", !.hidden = NewBuffer]
    /\ ForwardUnchanged

PostNorm ==
    /\ Forwarding("post_norm")
    /\ AddNorm(<<fwd.layer, "post_attention_layernorm">>, "mlp", fwd.layer)
    /\ ForwardUnchanged

Mlp ==
    /\ Forwarding("mlp")
    /\ ~SiluRefuses
    /\ LET sound == MlpAddsUp(config.hf, tp, params, fwd.layer, [rank \in Indices(tp) |->
                    Activation(params[rank][<<fwd.layer, "gate_up_proj">>], config.hf.inter \div tp)])
       IN  heap' = Store(NewBuffer, Computed(sound, "mlp", fwd.layer, heap[fwd.hidden]))
    /\ fwd' = [fwd EXCEPT
            !.at = IF fwd.layer = config.hf.layers THEN "final_norm" ELSE "input_norm",
            !.layer = IF fwd.layer = config.hf.layers THEN 0 ELSE @ + 1,
            !.hidden = NewBuffer]
    /\ ForwardUnchanged

MlpFails ==
    /\ Forwarding("mlp")
    /\ SiluRefuses
    /\ Fail

FinalNorm ==
    /\ Forwarding("final_norm")
    /\ AddNorm(<<0, "norm">>, "lm_head", 0)
    /\ ForwardUnchanged

LmHead ==
    /\ Forwarding("lm_head")
    /\ LET sound == LogitsInOrder(config.hf, tp, params)
       IN  heap' = Store(NewBuffer, Computed(sound, "lm_head", 0, heap[fwd.hidden]))
    /\ fwd' = [fwd EXCEPT !.at = "done", !.hidden = NewBuffer]
    /\ ForwardUnchanged

ForwardStep ==
    Embed \/ InputNorm \/ SelfAttention \/ PostNorm \/ Mlp \/ MlpFails \/ FinalNorm \/ LmHead

-----------------------------------------------------------------------------

(* The end of __init__: the defaults of torch are put back.                 *)
Ready ==
    /\ phase = "forward"
    /\ fwd.at = "done"
    /\ phase' = "ready"
    /\ torch' = [torch EXCEPT !.dtype = saved_dtype, !.device = "cpu"]
    /\ heap' = <<>>
    /\ fwd' = NoForward
    /\ UNCHANGED <<env, rope_cache, attempts, config, saved_dtype, modelVars>>

(* LLMEngine.exit, ModelRunner.exit                                         *)
Exit ==
    /\ phase = "ready"
    /\ phase' = "idle"
    /\ torch' = [torch EXCEPT !.group = FALSE]
    /\ Forgotten
    /\ UNCHANGED <<env, rope_cache, attempts, saved_dtype>>

(* The caller builds no further engine.                                     *)
Stopped == phase = "idle" /\ UNCHANGED vars

Next ==
    \/ \E options \in Options : Configure(options)
    \/ EnterProcess \/ EnterProcessFails
    \/ CreateBackend \/ CreateBackendFails
    \/ BuildModel \/ BuildModelFails
    \/ \E file \in unread : LoadFile(file) \/ LoadFileFails(file)
    \/ StartForward \/ ForwardStep
    \/ Ready \/ Exit \/ Stopped

Spec == Init /\ [][Next]_vars

-----------------------------------------------------------------------------
(* Properties                                                              *)

Phases == {"idle", "configured", "entered", "backend", "loading", "forward", "ready"}

(* Every variable ranges over its domain.                                  *)
ProcTypeOK ==
    /\ env \in Environments
    /\ phase \in Phases
    /\ phase = "idle" <=> config = NoConfig
    /\ phase # "idle" =>
        /\ config.cudagraph_mode \in Policies
        /\ config.enforce_eager <=> config.cudagraph_mode = "none"
        /\ config.max_model_len \in 0 .. config.hf.max_position
    /\ torch.group \in BOOLEAN /\ torch.device \in {"cpu", "cuda"}
    /\ attempts \in 0 .. MaxEngines
    /\ DOMAIN provider = Operators
    /\ backend \in {None, "flashattention", "flashinfer"}
    /\ phase = "forward" => DOMAIN heap \subseteq 1 .. 4 /\ Live \subseteq 0 .. 4

(* The forward pass of one rank that holds the whole model, without sharing *)
(* of buffers: layer l maps (hidden, residual) to a new pair.               *)
ReferenceNorm(l, module, x) == <<"rms", <<<<l, module>>, 0>>, x>>
ReferenceInput(l, before) == IF l = 1 THEN before[1] ELSE Sum(before[1], before[2])
ReferenceSum(l, before) ==
    LET r == ReferenceInput(l, before)
    IN  Sum(<<"attention", l, ReferenceNorm(l, "input_layernorm", r)>>, r)
ReferenceLayer(l, before) ==
    LET s == ReferenceSum(l, before)
    IN  <<<<"mlp", l, ReferenceNorm(l, "post_attention_layernorm", s)>>, s>>
ReferenceLayers(hf) ==
    LET After[l \in 0 .. hf.layers] ==
            IF l = 0 THEN <<<<"embed", 0, "input_ids">>, None>>
            ELSE ReferenceLayer(l, After[l - 1])
    IN  After
ReferenceLogits(hf) ==
    LET last == ReferenceLayers(hf)[hf.layers]
    IN  <<"lm_head", 0, ReferenceNorm(0, "norm", Sum(last[1], last[2]))>>

(* Whatever the sharding, the order of the files of the checkpoint, the      *)
(* kernels chosen and the engines built before, a forward pass that ends    *)
(* returns what one rank with the whole model would compute: every weight   *)
(* counts once and in its place, query heads meet their own key-value head, *)
(* positions are rotated with a table of this model that has all of them,   *)
(* the kernel launched for the activation writes every column, and no       *)
(* in-place norm overwrites a tensor still in use.                          *)
ForwardIsReference ==
    Forwarding("done") => heap[fwd.hidden] = ReferenceLogits(config.hf)

(* "auto" never refuses, an explicit implementation is the one bound or the  *)
(* constructor raises, and nothing is bound that the process could not      *)
(* import; whatever the operator, dtype and platform (docs/architecture.md: *)
(* an explicit choice "fails instead of silently changing the request").    *)
(* Off CUDA the store accepts native_triton and runs the native one.        *)
DispatchKeepsRequests ==
    attempts = 0 =>
        \A op \in Operators, platform \in {"auto", "cuda", "cpu", "xpu"},
           dtype \in HalfPrecision \cup {"float32", "none"} :
            \A choice \in Supported[op] \cup {"unknown"} :
                LET request == [platform |-> platform, dtype |-> dtype, overrides |-> [o \in {op} |-> choice]]
                    bound == Select(request, op, torch.device, env)
                IN  /\ choice \in {"auto"} \cup Native => bound # Raises
                    /\ choice \notin {"auto", "native"} =>
                        \/ bound \in {choice, Raises}
                        \/ op = "kv_cache_store" /\ platform # "cuda"
                    /\ bound \in {"flashinfer", "adaptive_cuda"} => FlashInferAvailable(env)
                    /\ bound \in {"custom_cuda", "adaptive_cuda"} => CustomCudaAvailable(env)

(* With the in-tree extension built, the activation that "auto" binds runs   *)
(* on any row of an even width: what FlashInfer cannot read goes to the     *)
(* in-tree kernel.  Only FlashInfer alone can refuse the layout of a shard. *)
ActivationRuns ==
    Forwarding("mlp") /\ SiluRefuses => provider["silu_and_mul"] = "flashinfer"

(* A ready engine has put back the defaults the process had when it          *)
(* started, even when an earlier construction failed half-way: that one     *)
(* leaves its own defaults behind, but also its process group, and no later *)
(* construction gets past init_process_group.                              *)
DefaultsRestored ==
    phase = "ready" => torch = [dtype |-> ProcessDtype, device |-> "cpu", group |-> TRUE]
=============================================================================
