------------------------ MODULE EngineProcessProofs -------------------------
(***************************************************************************)
(* What engines leave behind in the process that builds them, for every     *)
(* environment, every set of options and every number of attempts: the      *)
(* defaults of torch, and the providers a warm-up may rely on.  Then what    *)
(* the engine built computes: the checkpoint a load leaves in the parameters *)
(* and the values a forward pass reads and writes, against the reference.   *)
(***************************************************************************)
EXTENDS EngineProcess, ParallelLayersProofs, WellFoundedInduction

(* The defaults a process starts with.                                     *)
Clean(group) == [dtype |-> ProcessDtype, device |-> "cpu", group |-> group]

(* Between init_process_group and the end of the constructor.               *)
UnderConstruction == phase \in {"entered", "backend", "loading", "forward"}

(* A construction has failed half-way, and its process group is still there. *)
Abandoned == torch.group /\ phase \in {"idle", "configured"}

(* The invariant.  DefaultsRestored is not inductive: that the dtype Ready   *)
(* puts back is the one of the process rests on what EnterProcess saved,     *)
(* and what it saved on every construction that left the defaults dirty     *)
(* having left its process group as well.                                  *)
TorchInv ==
    /\ torch = [dtype |-> torch.dtype, device |-> torch.device, group |-> torch.group]
    /\ torch.group \in BOOLEAN
    /\ ~torch.group => torch = Clean(FALSE) /\ phase \in {"idle", "configured"}
    /\ UnderConstruction => saved_dtype = ProcessDtype
    /\ phase = "ready" => torch = Clean(TRUE)

(* Fail, and BuildModelFails, go back to "idle" and leave torch as it is.    *)
LEMMA FailKeepsInv ==
    ASSUME TorchInv, torch.group, phase' = "idle", torch' = torch
    PROVE  TorchInv'
  BY DEF TorchInv, Clean, UnderConstruction

(* What every other step but EnterProcess, Ready and Exit does to torch.     *)
LEMMA MoveKeepsInv ==
    ASSUME TorchInv, UnderConstruction, UnderConstruction',
           torch' = torch, saved_dtype' = saved_dtype
    PROVE  TorchInv'
  BY DEF TorchInv, Clean, UnderConstruction

(* A fresh process is clean.                                               *)
LEMMA TorchInvInit == Init => TorchInv
  BY DEF Init, TorchInv, Clean, UnderConstruction

(* A step of the forward pass either fails or touches only heap and fwd.     *)
LEMMA ForwardKeepsTorch ==
    ASSUME ForwardStep
    PROVE  phase = "forward" /\ (Fail \/ UNCHANGED <<phase, torch, saved_dtype>>)
  <1>1. CASE Embed \/ InputNorm \/ SelfAttention \/ PostNorm \/ FinalNorm \/ LmHead \/ Mlp
    <2>1. phase = "forward" /\ ForwardUnchanged
      BY <1>1 DEF Embed, InputNorm, SelfAttention, PostNorm, FinalNorm, LmHead, Mlp, Forwarding
    <2> QED  BY <2>1 DEF ForwardUnchanged, processVars
  <1>2. CASE MlpFails
    BY <1>2 DEF MlpFails, Forwarding
  <1> QED  BY <1>1, <1>2 DEF ForwardStep

(* Every step of the constructor, of exit() and of a failure keeps it.      *)
LEMMA TorchInvStep == TorchInv /\ [Next]_vars => TorchInv'
<1> SUFFICES ASSUME TorchInv, [Next]_vars PROVE TorchInv'
  OBVIOUS
<1>1. ASSUME NEW options \in Options, Configure(options) PROVE TorchInv'
  BY <1>1 DEF Configure, TorchInv, Clean, UnderConstruction
<1>2. CASE EnterProcess
  BY <1>2 DEF EnterProcess, TorchInv, Clean, UnderConstruction
<1>3. CASE EnterProcessFails
  BY <1>3, FailKeepsInv DEF EnterProcessFails, Fail, AfterFailure
<1>4. CASE CreateBackend
  <2>1. phase = "entered" /\ phase' = "backend" /\ UNCHANGED <<torch, saved_dtype>>
    BY <1>4 DEF CreateBackend, processVars
  <2> QED  BY <2>1, MoveKeepsInv DEF UnderConstruction
<1>5. CASE CreateBackendFails
  <2>1. phase = "entered" /\ Fail
    BY <1>5 DEF CreateBackendFails
  <2> QED  BY <2>1, FailKeepsInv DEF Fail, AfterFailure, TorchInv
<1>6. CASE BuildModel
  <2>1. phase = "backend" /\ phase' = "loading" /\ UNCHANGED <<torch, saved_dtype>>
    BY <1>6 DEF BuildModel
  <2> QED  BY <2>1, MoveKeepsInv DEF UnderConstruction
<1>7. CASE BuildModelFails
  <2>1. phase = "backend" /\ phase' = "idle" /\ torch' = torch
    BY <1>7 DEF BuildModelFails, AfterFailure
  <2> QED  BY <2>1, FailKeepsInv DEF TorchInv
<1>8. ASSUME NEW file \in unread, LoadFile(file) PROVE TorchInv'
  <2>1. phase = "loading" /\ UNCHANGED <<phase, torch, saved_dtype>>
    BY <1>8 DEF LoadFile, processVars
  <2> QED  BY <2>1, MoveKeepsInv DEF UnderConstruction
<1>9. ASSUME NEW file \in unread, LoadFileFails(file) PROVE TorchInv'
  <2>1. phase = "loading" /\ Fail
    BY <1>9 DEF LoadFileFails
  <2> QED  BY <2>1, FailKeepsInv DEF Fail, AfterFailure, TorchInv
<1>10. CASE StartForward
  <2>1. phase = "loading" /\ phase' = "forward" /\ UNCHANGED <<torch, saved_dtype>>
    BY <1>10 DEF StartForward, processVars
  <2> QED  BY <2>1, MoveKeepsInv DEF UnderConstruction
<1>11. CASE ForwardStep
  <2>1. phase = "forward" /\ (Fail \/ UNCHANGED <<phase, torch, saved_dtype>>)
    BY <1>11, ForwardKeepsTorch
  <2>2. CASE Fail
    BY <2>1, <2>2, FailKeepsInv DEF Fail, AfterFailure, TorchInv
  <2>3. CASE UNCHANGED <<phase, torch, saved_dtype>>
    BY <2>1, <2>3, MoveKeepsInv DEF UnderConstruction
  <2> QED  BY <2>1, <2>2, <2>3
<1>12. CASE Ready
  <2>1. phase = "forward" /\ phase' = "ready"
        /\ torch' = [torch EXCEPT !.dtype = saved_dtype, !.device = "cpu"]
    BY <1>12 DEF Ready
  <2>2. saved_dtype = ProcessDtype /\ torch.group
    BY <2>1 DEF TorchInv, UnderConstruction
  <2>3. torch' = Clean(TRUE)
    BY <2>1, <2>2 DEF TorchInv, Clean
  <2> QED  BY <2>1, <2>3 DEF TorchInv, UnderConstruction, Clean
<1>13. CASE Exit
  <2>1. torch = Clean(TRUE)
    BY <1>13 DEF Exit, TorchInv
  <2>2. torch' = [torch EXCEPT !.group = FALSE] /\ phase' = "idle"
    BY <1>13 DEF Exit
  <2>3. torch' = Clean(FALSE)
    BY <2>1, <2>2 DEF Clean
  <2> QED  BY <2>2, <2>3 DEF TorchInv, UnderConstruction, Clean
<1>14. CASE UNCHANGED vars
  BY <1>14 DEF vars, processVars, TorchInv, UnderConstruction, Clean
<1> QED
  BY <1>1, <1>2, <1>3, <1>4, <1>5, <1>6, <1>7, <1>8, <1>9, <1>10, <1>11, <1>12, <1>13, <1>14
  DEF Next, Stopped

(* The invariant holds throughout.                                         *)
LEMMA TorchInvHolds == Spec => []TorchInv
  BY TorchInvInit, TorchInvStep, PTL DEF Spec

-----------------------------------------------------------------------------

(* ModelRunner.__init__ ends with the default dtype and device the process   *)
(* started with, whatever was built, failed or exited before.               *)
THEOREM DefaultsAlwaysRestored == Spec => []DefaultsRestored
<1>1. TorchInv => DefaultsRestored
  BY DEF TorchInv, DefaultsRestored, Clean
<1> QED  BY <1>1, TorchInvHolds, PTL

(* No step leaves the state where a failed constructor abandoned its         *)
(* process group: EnterProcess needs there to be none, and only the exit of  *)
(* a ready engine destroys it.                                             *)
LEMMA AbandonedStep == TorchInv /\ Abandoned /\ [Next]_vars => Abandoned'
<1> SUFFICES ASSUME TorchInv, Abandoned, [Next]_vars PROVE Abandoned'
  OBVIOUS
<1> USE DEF Abandoned
<1>1. ASSUME NEW options \in Options, Configure(options) PROVE Abandoned'
  BY <1>1 DEF Configure
<1>2. CASE EnterProcess
  BY <1>2 DEF EnterProcess
<1>3. CASE EnterProcessFails
  BY <1>3 DEF EnterProcessFails, Fail, AfterFailure
<1>4. CASE \/ CreateBackend \/ CreateBackendFails \/ BuildModel \/ BuildModelFails
           \/ StartForward \/ Ready \/ Exit
  BY <1>4 DEF CreateBackend, CreateBackendFails, BuildModel, BuildModelFails,
              StartForward, Ready, Exit
<1>5. ASSUME NEW file \in unread, LoadFile(file) \/ LoadFileFails(file) PROVE Abandoned'
  BY <1>5 DEF LoadFile, LoadFileFails
<1>6. CASE ForwardStep
  BY <1>6, ForwardKeepsTorch
<1>7. CASE UNCHANGED vars
  BY <1>7 DEF vars, processVars
<1> QED
  BY <1>1, <1>2, <1>3, <1>4, <1>5, <1>6, <1>7 DEF Next, Stopped

(* A constructor that raised after init_process_group makes its process      *)
(* useless: no later LLM(...) of that process ever becomes ready, however    *)
(* good its options.                                                       *)
THEOREM NoEngineAfterFailure == Spec => [](Abandoned => [](phase # "ready"))
<1>1. Abandoned => phase # "ready"
  BY DEF Abandoned
<1>2. TorchInv /\ Abandoned /\ [Next]_vars => Abandoned'
  BY AbandonedStep
<1>3. Spec => [][Next]_vars
  BY PTL DEF Spec
<1> QED  BY <1>1, <1>2, <1>3, TorchInvHolds, PTL

(* A step from the middle of the constructor back to "idle" is a failure:    *)
(* the process group was there, and nothing destroys it.                    *)
LEMMA FailureStep ==
    TorchInv /\ [Next]_vars => (UnderConstruction /\ phase' = "idle" => Abandoned')
<1> SUFFICES ASSUME TorchInv, UnderConstruction, [Next]_vars, phase' = "idle"
             PROVE  Abandoned'
  OBVIOUS
<1>1. torch.group
  BY DEF TorchInv, UnderConstruction
<1>2. torch' = torch
  <2>1. CASE ForwardStep
    BY <2>1, ForwardKeepsTorch DEF Fail, AfterFailure
  <2>2. CASE CreateBackendFails \/ BuildModelFails
    BY <2>2 DEF CreateBackendFails, BuildModelFails, Fail, AfterFailure
  <2>3. ASSUME NEW file \in unread, LoadFile(file) \/ LoadFileFails(file)
        PROVE  torch' = torch
    BY <2>3 DEF LoadFile, LoadFileFails, Fail, AfterFailure, processVars
  <2>4. CASE UNCHANGED vars
    BY <2>4 DEF vars, processVars
  <2>5. CASE CreateBackend \/ BuildModel \/ StartForward \/ Ready
    BY <2>5 DEF CreateBackend, BuildModel, StartForward, Ready
  <2>6. CASE EnterProcess \/ EnterProcessFails \/ Exit
    BY <2>6 DEF EnterProcess, EnterProcessFails, Exit, UnderConstruction
  <2>7. ASSUME NEW options \in Options, Configure(options) PROVE torch' = torch
    BY <2>7 DEF Configure
  <2> QED
    BY <2>1, <2>2, <2>3, <2>4, <2>5, <2>6, <2>7 DEF Next, Stopped
<1> QED  BY <1>1, <1>2 DEF Abandoned

(* Every failure after init_process_group does abandon the process: with     *)
(* NoEngineAfterFailure, that promise is not an empty one.                  *)
THEOREM FailureAbandons ==
    Spec => [][UnderConstruction /\ phase' = "idle" => Abandoned']_vars
<1>1. TorchInv /\ [Next]_vars => (UnderConstruction /\ phase' = "idle" => Abandoned')
  BY FailureStep
<1> QED  BY <1>1, TorchInvHolds, PTL DEF Spec

-----------------------------------------------------------------------------
(***************************************************************************)
(* The choice of implementations                                           *)
(***************************************************************************)

(* A kernel that comes from a package is bound only if the package could be  *)
(* imported, and the dtype is one it knows.                                *)
LEMMA SiluChoice ==
    ASSUME NEW c, NEW platform, NEW e, NEW p,
           p = SelectSilu(c, platform, e), p # Raises
    PROVE  /\ p \in {"native_torch", "custom_cuda", "adaptive_cuda", "flashinfer"}
           /\ p \in {"custom_cuda", "adaptive_cuda"} => CustomCudaAvailable(e)
           /\ p \in {"flashinfer", "adaptive_cuda"} => FlashInferAvailable(e)
           /\ p # "native_torch" => DtypeSupported(c)
  BY DEF SelectSilu, Require, Raises

LEMMA FlashInferChoice ==
    ASSUME NEW c, NEW op, NEW platform, NEW e, NEW p,
           p = SelectFlashInfer(c, op, platform, e), p # Raises
    PROVE  /\ p \in {"native_torch", "flashinfer"}
           /\ p = "flashinfer" => FlashInferAvailable(e)
  BY DEF SelectFlashInfer, Require, Raises

(* What becomes of a request for one operator.                              *)
Requested(op, platform, dtype, choice) ==
    [platform |-> platform, dtype |-> dtype, overrides |-> [o \in {op} |-> choice]]

LEMMA RequestFields ==
    ASSUME NEW op, NEW platform, NEW dtype, NEW choice
    PROVE  LET c == Requested(op, platform, dtype, choice)
           IN  /\ ImplementationFor(c, op) = choice
               /\ c.platform = platform /\ c.dtype = dtype
  BY DEF Requested, ImplementationFor

Kept(op, choice, platform, e, bound) ==
    /\ choice \in {"auto"} \cup Native => bound # Raises
    /\ choice \notin {"auto", "native"} =>
        \/ bound \in {choice, Raises}
        \/ op = "kv_cache_store" /\ platform # "cuda"
    /\ bound \in {"flashinfer", "adaptive_cuda"} => FlashInferAvailable(e)
    /\ bound \in {"custom_cuda", "adaptive_cuda"} => CustomCudaAvailable(e)

LEMMA SiluKept ==
    ASSUME NEW c, NEW where, NEW platform, NEW e, NEW choice,
           choice = ImplementationFor(c, "silu_and_mul"),
           choice \in Supported["silu_and_mul"] \cup {"unknown"}
    PROVE  Kept("silu_and_mul", choice, where, e, SelectSilu(c, platform, e))
  BY DEF Kept, SelectSilu, Require, Raises, Refused, Native, Supported, FlashInferChoices

LEMMA FlashInferKept ==
    ASSUME NEW op \in {"rms_norm", "fused_add_rms_norm", "rotary_embedding"},
           NEW c, NEW where, NEW platform, NEW e, NEW choice,
           choice = ImplementationFor(c, op), choice \in Supported[op] \cup {"unknown"}
    PROVE  Kept(op, choice, where, e, SelectFlashInfer(c, op, platform, e))
<1>1. Supported[op] = {"auto", "flashinfer", "native", "native_torch"}
  BY DEF Supported, FlashInferChoices, Native
<1> QED
  BY <1>1 DEF Kept, SelectFlashInfer, Require, Raises, Refused, Native

LEMMA StoreKept ==
    ASSUME NEW c, NEW where, NEW platform, NEW e, NEW choice,
           choice = ImplementationFor(c, "kv_cache_store"),
           choice \in Supported["kv_cache_store"] \cup {"unknown"},
           where = "cuda" => platform = "cuda"
    PROVE  Kept("kv_cache_store", choice, where, e, SelectKvStore(c, platform))
<1>1. Supported["kv_cache_store"] = {"auto", "native_triton", "native", "native_torch"}
  BY DEF Supported, Native
<1> QED
  BY <1>1 DEF Kept, SelectKvStore, Raises, Native

LEMMA RequestsKept ==
    ASSUME NEW op \in Operators, NEW where, NEW dtype, NEW device, NEW e,
           NEW choice \in Supported[op] \cup {"unknown"}
    PROVE  Kept(op, choice, where, e, Select(Requested(op, where, dtype, choice), op, device, e))
<1> DEFINE c == Requested(op, where, dtype, choice)
           platform == Platform(c, device)
<1>1. choice = ImplementationFor(c, op) /\ (where = "cuda" => platform = "cuda")
  BY RequestFields DEF Platform
<1>2. op \in {"silu_and_mul", "rms_norm", "fused_add_rms_norm", "rotary_embedding", "kv_cache_store"}
  BY DEF Operators, Supported
<1> HIDE DEF c, platform
<1>3. Select(c, op, device, e) =
        CASE op = "silu_and_mul" -> SelectSilu(c, platform, e)
          [] op = "kv_cache_store" -> SelectKvStore(c, platform)
          [] OTHER -> SelectFlashInfer(c, op, platform, e)
  BY DEF Select, platform
<1>4. ASSUME op = "silu_and_mul" PROVE Kept(op, choice, where, e, Select(c, op, device, e))
  BY <1>1, <1>3, <1>4, SiluKept
<1>5. ASSUME op = "kv_cache_store" PROVE Kept(op, choice, where, e, Select(c, op, device, e))
  BY <1>1, <1>3, <1>5, StoreKept
<1>6. ASSUME op \in {"rms_norm", "fused_add_rms_norm", "rotary_embedding"}
      PROVE  Kept(op, choice, where, e, Select(c, op, device, e))
  <2>1. Select(c, op, device, e) = SelectFlashInfer(c, op, platform, e)
    BY <1>3, <1>6
  <2> QED  BY <1>1, <1>6, <2>1, FlashInferKept
<1>7. Kept(op, choice, where, e, Select(c, op, device, e))
  BY <1>2, <1>4, <1>5, <1>6
<1> QED  BY <1>7 DEF c

(* For every operator, platform and dtype, whatever is installed: "auto" and *)
(* the native implementations are never refused, an explicit choice is      *)
(* bound or the constructor raises, and no package is bound that the        *)
(* process could not import (_select_impl of every CustomOp).                *)
THEOREM DispatchNeverSilent == Spec => []DispatchKeepsRequests
<1>1. DispatchKeepsRequests
  <2> USE DEF DispatchKeepsRequests
  <2> HAVE attempts = 0
  <2> TAKE op \in Operators, platform \in {"auto", "cuda", "cpu", "xpu"},
           dtype \in HalfPrecision \cup {"float32", "none"}
  <2> TAKE choice \in Supported[op] \cup {"unknown"}
  <2> DEFINE bound == Select(Requested(op, platform, dtype, choice), op, torch.device, env)
  <2>1. Kept(op, choice, platform, env, bound)
    BY RequestsKept
  <2> QED  BY <2>1 DEF Kept, Requested
<1> QED  BY <1>1, PTL

-----------------------------------------------------------------------------
(***************************************************************************)
(* The configuration and the model                                         *)
(***************************************************************************)

(* Between Config() and the return to the caller there is a configuration,   *)
(* made from options that Config accepted.                                 *)
ConfigInv ==
    /\ phase \in Phases
    /\ IF phase = "idle" THEN config = NoConfig
       ELSE \E options \in Options : Valid(options) /\ config = Normalized(options)

(* What a model has to be for Shape, apart from the divisions.              *)
LEMMA ConfigFacts ==
    ASSUME ConfigInv, phase # "idle"
    PROVE  /\ config # NoConfig
           /\ config.cudagraph_mode \in Policies
           /\ config.enforce_eager <=> config.cudagraph_mode = "none"
           /\ config.hf.max_position \in Nat
           /\ config.max_model_len \in 0 .. config.hf.max_position
           /\ tp \in Nat \ {0}
           /\ config.hf.heads \in Nat \ {0} /\ config.hf.kv_heads \in Nat \ {0}
           /\ config.hf.inter \in Nat \ {0} /\ config.hf.vocab \in Nat \ {0}
           /\ config.hf.layers \in Nat \ {0}
           /\ \A file \in config.hf.files : file \in Seq(CheckpointNames)
           /\ \A name \in ModelTensors(config.hf) :
                \E file \in config.hf.files : \E k \in DOMAIN file : file[k] = name
<1>1. PICK options \in Options : Valid(options) /\ config = Normalized(options)
  BY DEF ConfigInv
<1> DEFINE hf == options.hf
<1>2. DOMAIN options = OptionNames /\ options.max_model_len \in Nat
  BY OptionsAssumption
<1>3. /\ hf.max_position \in Nat
      /\ {hf.heads, hf.kv_heads, hf.inter, hf.vocab, hf.layers} \subseteq Nat \ {0}
      /\ \A file \in hf.files : file \in Seq(CheckpointNames)
      /\ \A name \in ModelTensors(hf) :
            \E file \in hf.files : \E k \in DOMAIN file : file[k] = name
  BY OptionsAssumption
<1>4. /\ config.hf = hf /\ tp = options.tensor_parallel_size
      /\ config.cudagraph_mode = Policy(options)
      /\ config.enforce_eager = (Policy(options) = "none")
      /\ config.max_model_len = IF options.max_model_len <= hf.max_position
                                THEN options.max_model_len ELSE hf.max_position
  BY <1>1, <1>2 DEF Normalized, OptionNames, tp
<1>5. Policy(options) \in Policies /\ options.tensor_parallel_size \in 1 .. 8
  BY <1>1 DEF Valid, Policy, Policies
<1> HIDE DEF hf
<1>6. config.max_model_len \in 0 .. hf.max_position
  BY <1>2, <1>3, <1>4
<1>7. tp \in 1 .. 8
  BY <1>4, <1>5
<1>8. config # NoConfig
  BY <1>7 DEF NoConfig, tp
<1>9. {hf.heads, hf.kv_heads, hf.inter, hf.vocab, hf.layers} \subseteq Nat \ {0}
  BY <1>3
<1>10. /\ config.cudagraph_mode \in Policies
       /\ config.enforce_eager <=> config.cudagraph_mode = "none"
  BY <1>4, <1>5
<1>11. /\ hf.heads \in Nat \ {0} /\ hf.kv_heads \in Nat \ {0}
       /\ hf.inter \in Nat \ {0} /\ hf.vocab \in Nat \ {0} /\ hf.layers \in Nat \ {0}
  BY <1>9
<1>12. tp \in Nat \ {0}
  BY <1>7
<1> QED  BY <1>3, <1>4, <1>6, <1>8, <1>10, <1>11, <1>12, Zenon

(* The phases after each piece of the constructor.                          *)
Backed == phase \in {"backend", "loading", "forward", "ready"}
Built == phase \in {"loading", "forward", "ready"}

(* A rotary embedding is what its key says, and runs what could be imported. *)
RopeSound(r) ==
    /\ r.max_position = r.key.max_position /\ r.config = r.key.config
    /\ r.provider = "flashinfer" => FlashInferAvailable(env)

(* Whatever an engine left in the cache of get_rope may be used by a later   *)
(* one: it answers to its key only.                                        *)
CacheOfRopeInv == rope_cache = NoRope \/ RopeSound(rope_cache)

(* What the constructors of the backend and of the model have checked.      *)
BuiltInv ==
    /\ env \in Environments /\ attempts \in 0 .. MaxEngines
    /\ DOMAIN provider = Operators
    /\ backend \in {None, "flashattention", "flashinfer"}
    /\ Backed => config.hf.dtype \in HalfPrecision /\ HeadsAccepted
    /\ Built =>
        /\ Divisible(config.hf, tp)
        /\ provider["silu_and_mul"] \in {"native_torch", "custom_cuda", "adaptive_cuda", "flashinfer"}
        /\ provider["silu_and_mul"] \in {"custom_cuda", "adaptive_cuda"} => CustomCudaAvailable(env)
        /\ provider["silu_and_mul"] \in {"flashinfer", "adaptive_cuda"} => FlashInferAvailable(env)
        /\ rope.key = RopeKey /\ RopeSound(rope)

(* A backend exists for half precision only, and for heads that divide.      *)
LEMMA BackendFacts ==
    ASSUME CreatedBackend # Raises
    PROVE  /\ CreatedBackend \in {"flashattention", "flashinfer"}
           /\ config.hf.dtype \in HalfPrecision /\ HeadsAccepted
  BY DEF CreatedBackend, FlashAttentionSupported, FlashInferSupported, Raises

(* The rotary embedding of get_rope, when its operator can be built.         *)
LEMMA NewRopeSound ==
    ASSUME ModelProviders["rotary_embedding"] # Raises
    PROVE  RopeSound(NewRope) /\ NewRope.key = RopeKey
<1>1. "rotary_embedding" \in Operators
  BY DEF Operators, Supported
<1>2. ModelProviders["rotary_embedding"] = Select(OpConfig, "rotary_embedding", torch.device, env)
  BY <1>1 DEF ModelProviders
<1>3. Select(OpConfig, "rotary_embedding", torch.device, env)
        = SelectFlashInfer(OpConfig, "rotary_embedding", Platform(OpConfig, torch.device), env)
  BY DEF Select
<1>4. NewRope.provider = "flashinfer" => FlashInferAvailable(env)
  BY <1>2, <1>3, FlashInferChoice DEF NewRope
<1> QED  BY <1>4 DEF NewRope, RopeSound, RopeKey

LEMMA ModelFacts ==
    ASSUME ~ModelRefused
    PROVE  /\ Divisible(config.hf, tp)
           /\ DOMAIN ModelProviders = Operators
           /\ ModelProviders["rotary_embedding"] # Raises
           /\ LET p == ModelProviders["silu_and_mul"]
              IN  /\ p \in {"native_torch", "custom_cuda", "adaptive_cuda", "flashinfer"}
                  /\ p \in {"custom_cuda", "adaptive_cuda"} => CustomCudaAvailable(env)
                  /\ p \in {"flashinfer", "adaptive_cuda"} => FlashInferAvailable(env)
<1>1. {"silu_and_mul", "rotary_embedding"} \subseteq Operators
  BY DEF Operators, Supported
<1>2. \A op \in Operators : ModelProviders[op] # Raises
  BY DEF ModelRefused
<1>3. ModelProviders["silu_and_mul"] = Select(OpConfig, "silu_and_mul", torch.device, env)
  BY <1>1 DEF ModelProviders
<1>4. Select(OpConfig, "silu_and_mul", torch.device, env)
        = SelectSilu(OpConfig, Platform(OpConfig, torch.device), env)
  BY DEF Select
<1>5. Divisible(config.hf, tp) /\ DOMAIN ModelProviders = Operators
  BY DEF ModelRefused, ModelProviders
<1> QED  BY <1>1, <1>2, <1>3, <1>4, <1>5, SiluChoice

(* The shape of the shards of a model that was built.                       *)
LEMMA BuiltShape ==
    ASSUME ConfigInv, BuiltInv, Built
    PROVE  /\ Shape(config.hf, tp)
           /\ QSize(config.hf, tp) % KvSize(config.hf, tp) = 0
           /\ Columns(config.hf, tp) \in Nat \ {0}
<1>1. phase # "idle" /\ Backed
  BY DEF Built, Backed
<1>2. Shape(config.hf, tp)
  BY <1>1, ConfigFacts DEF Shape, BuiltInv
<1>3. QSize(config.hf, tp) % KvSize(config.hf, tp) = 0
  BY <1>1 DEF BuiltInv, HeadsAccepted, QSize, KvSize
<1>4. Columns(config.hf, tp) \in Nat /\ config.hf.inter = tp * Columns(config.hf, tp)
  BY <1>2, Parts
<1>5. Columns(config.hf, tp) # 0
  BY <1>2, <1>4 DEF Shape
<1> QED  BY <1>2, <1>3, <1>4, <1>5

-----------------------------------------------------------------------------
(***************************************************************************)
(* The checkpoint                                                          *)
(***************************************************************************)

PackedNames == {"q_proj", "k_proj", "v_proj", "gate_proj", "up_proj"}
ShardedNames == {"o_proj", "down_proj", "embed_tokens", "lm_head"}
MergedOf(module) == IF module \in {"q_proj", "k_proj", "v_proj"} THEN "qkv_proj" ELSE "gate_up_proj"

(* Where a tensor of the checkpoint goes.                                   *)
Home(hf, name) == Storage(hf, Target(name))

(* The unpacked part of a rank: its shard, or the whole tensor.             *)
Piece(hf, tp_, rank, name) ==
    IF name[2] \in ShardedNames THEN RankShard(Tensor(hf, name), ParamSize(hf, tp_, name), rank)
    ELSE Tensor(hf, name)

(* Every rank has the parameters of its model, in the sizes it allocated.    *)
Shaped(hf, tp_, q) ==
    \A rank \in Indices(tp_) :
        /\ DOMAIN q[rank] = ParamNames(hf)
        /\ \A name \in ParamNames(hf) : DOMAIN q[rank][name] = Indices(ParamSize(hf, tp_, name))

(* The tensor is in its place on every rank.                                *)
Settled(hf, tp_, q, name) ==
    \A rank \in Indices(tp_) :
        LET param == q[rank][Home(hf, name)]
        IN  IF name[2] \in PackedNames THEN Placed(hf, tp_, rank, name[1], name[2], param)
            ELSE param = Piece(hf, tp_, rank, name)

Known(hf, name) == name \in CheckpointNames /\ Target(name) \in ParamNames(hf)

LEMMA TargetOf ==
    ASSUME NEW name \in CheckpointNames
    PROVE  /\ name = <<name[1], name[2]>>
           /\ name[2] \in PackedNames => Target(name) = <<name[1], MergedOf(name[2])>>
           /\ name[2] \notin PackedNames => Target(name) = name
           /\ name[2] \notin {"qkv_proj", "gate_up_proj"}
           /\ name[2] \in PackedNames =>
                name[2] \in PartsOf(MergedOf(name[2])) /\ MergedOf(name[2]) \in {"qkv_proj", "gate_up_proj"}
           /\ \A merged \in {"qkv_proj", "gate_up_proj"} :
                name[2] \in PackedNames /\ MergedOf(name[2]) = merged => name[2] \in PartsOf(merged)
  BY DEF CheckpointNames, Target, Packed, PackedNames, MergedOf, PartsOf

LEMMA HomeOf ==
    ASSUME NEW hf, NEW name, Known(hf, name)
    PROVE  /\ Home(hf, name) \in ParamNames(hf)
           /\ name[2] \in PackedNames => Home(hf, name) = <<name[1], MergedOf(name[2])>>
           /\ name[2] \notin PackedNames => Home(hf, name) = Storage(hf, name)
<1>1. name \in CheckpointNames /\ Target(name) \in ParamNames(hf)
  BY DEF Known
<1>2. <<0, "embed_tokens">> \in ParamNames(hf)
  BY DEF ParamNames
<1>3. Home(hf, name) \in ParamNames(hf)
  BY <1>1, <1>2 DEF Home, Storage
<1>4. CASE name[2] \in PackedNames
  <2>1. Target(name) = <<name[1], MergedOf(name[2])>>
    BY <1>1, <1>4, TargetOf
  <2>2. Target(name)[2] # "lm_head"
    BY <2>1 DEF MergedOf
  <2> QED  BY <1>3, <1>4, <2>1, <2>2 DEF Home, Storage
<1>5. CASE name[2] \notin PackedNames
  BY <1>1, <1>3, <1>5, TargetOf DEF Home
<1> QED  BY <1>4, <1>5

(* Sizes are numbers.                                                      *)
LEMMA SizeOfShard ==
    ASSUME NEW hf, NEW tp_, Shape(hf, tp_), NEW name, name[2] \in ShardedNames
    PROVE  ParamSize(hf, tp_, name) \in Nat
<1>1. QSize(hf, tp_) \in Nat /\ Columns(hf, tp_) \in Nat /\ Words(hf, tp_) \in Nat
  BY Parts
<1>2. ParamSize(hf, tp_, name) = TensorSize(hf, name) \div tp_
  BY DEF ParamSize, ShardedNames
<1>3. CASE name[2] = "o_proj"
  BY <1>1, <1>2, <1>3 DEF TensorSize, QSize
<1>4. CASE name[2] = "down_proj"
  BY <1>1, <1>2, <1>4 DEF TensorSize, Columns
<1>5. CASE name[2] \in {"embed_tokens", "lm_head"}
  BY <1>1, <1>2, <1>5 DEF TensorSize, Words
<1> QED  BY <1>3, <1>4, <1>5 DEF ShardedNames

LEMMA CountOfIndices ==
    ASSUME NEW n \in Nat
    PROVE  Cardinality(Indices(n)) = n
<1>1. 0 \in Int /\ n - 1 \in Int
  OBVIOUS
<1>2. Cardinality(0 .. n - 1) = IF 0 > n - 1 THEN 0 ELSE n - 1 - 0 + 1
  BY <1>1, FS_Interval
<1> QED  BY <1>2 DEF Indices

(* What loading an unpacked tensor leaves in its parameter.                  *)
LEMMA LoadedPiece ==
    ASSUME NEW hf, NEW tp_, Shape(hf, tp_), NEW rank, NEW name, Known(hf, name),
           name[2] \notin PackedNames, NEW param,
           DOMAIN param = Indices(ParamSize(hf, tp_, Home(hf, name)))
    PROVE  /\ Loaded(hf, tp_, rank, param, name) = Piece(hf, tp_, rank, name)
           /\ DOMAIN Piece(hf, tp_, rank, name) = Indices(ParamSize(hf, tp_, Home(hf, name)))
<1>1. Target(name) = name /\ name[2] \notin {"qkv_proj", "gate_up_proj"}
  BY TargetOf DEF Known
<1>2. Home(hf, name) = Storage(hf, name)
  BY HomeOf
<1>3. ParamSize(hf, tp_, Home(hf, name)) = ParamSize(hf, tp_, name)
  BY <1>2 DEF Storage, ParamSize, TensorSize
<1>4. CASE name[2] \in ShardedNames
  <2>1. PICK n \in Nat : n = ParamSize(hf, tp_, name)
    BY <1>4, SizeOfShard
  <2>2. Cardinality(DOMAIN param) = n
    BY <1>3, <2>1, CountOfIndices
  <2>3. Loaded(hf, tp_, rank, param, name) = RankShard(Tensor(hf, name), Cardinality(DOMAIN param), rank)
    BY <1>1, <1>4 DEF Loaded, ShardedNames
  <2>4. DOMAIN RankShard(Tensor(hf, name), n, rank) = Indices(n)
    BY DEF RankShard, Narrow
  <2> QED  BY <1>3, <1>4, <2>1, <2>2, <2>3, <2>4 DEF Piece
<1>5. CASE name[2] \notin ShardedNames
  <2>1. Loaded(hf, tp_, rank, param, name) = Tensor(hf, name)
    BY <1>1, <1>5 DEF Loaded, ShardedNames
  <2>2. TensorSize(hf, name) = 1 /\ ParamSize(hf, tp_, name) = 1
    BY <1>1, <1>5 DEF TensorSize, ParamSize, ShardedNames, PackedNames
  <2>3. DOMAIN Tensor(hf, name) = Indices(1)
    BY <2>2 DEF Tensor
  <2> QED  BY <1>3, <1>5, <2>1, <2>2, <2>3 DEF Piece
<1> QED  BY <1>4, <1>5

(* Two unpacked tensors of one home are the same, or the two names of a tied *)
(* embedding.                                                              *)
LEMMA SameHome ==
    ASSUME NEW hf, NEW tp_, NEW rank, NEW name, NEW other, Known(hf, name), Known(hf, other),
           name[2] \notin PackedNames, Home(hf, other) = Home(hf, name)
    PROVE  other[2] \notin PackedNames /\ Piece(hf, tp_, rank, other) = Piece(hf, tp_, rank, name)
<1>1. /\ name \in CheckpointNames /\ other \in CheckpointNames
      /\ Home(hf, name) = Storage(hf, name)
  BY HomeOf DEF Known
<1>2. Home(hf, name)[2] \notin {"qkv_proj", "gate_up_proj"}
  BY <1>1, TargetOf DEF Storage
<1>3. other[2] \notin PackedNames
  <2>1. ASSUME other[2] \in PackedNames PROVE FALSE
    <3>1. Home(hf, other) = <<other[1], MergedOf(other[2])>>
      BY <2>1, HomeOf
    <3>2. Home(hf, other)[2] \in {"qkv_proj", "gate_up_proj"}
      BY <3>1 DEF MergedOf
    <3> QED  BY <1>2, <3>2
  <2> QED  BY <2>1
<1>4. Storage(hf, other) = Storage(hf, name)
  BY <1>1, <1>3, HomeOf
<1>5. CASE ~hf.tied \/ (name[2] # "lm_head" /\ other[2] # "lm_head")
  BY <1>3, <1>4, <1>5 DEF Storage
<1>6. CASE hf.tied /\ (name[2] = "lm_head" \/ other[2] = "lm_head")
  <2>1. name[2] \in {"embed_tokens", "lm_head"} /\ other[2] \in {"embed_tokens", "lm_head"}
    BY <1>4, <1>6 DEF Storage
  <2>2. /\ name[2] = "embed_tokens" => name = <<0, "embed_tokens">>
        /\ other[2] = "embed_tokens" => other = <<0, "embed_tokens">>
    BY <1>4, <1>6 DEF Storage
  <2>3. Tensor(hf, name) = Tensor(hf, other)
    BY <1>6, <2>1, <2>2 DEF Tensor, TensorSize
  <2>4. ParamSize(hf, tp_, name) = ParamSize(hf, tp_, other)
    BY <2>1 DEF ParamSize, TensorSize
  <2> QED  BY <1>3, <2>1, <2>3, <2>4 DEF Piece, ShardedNames
<1> QED  BY <1>3, <1>5, <1>6

(* LoadPlaces, for a parameter that is named.                               *)
LEMMA PackedLoad ==
    ASSUME NEW hf, NEW tp_, Shape(hf, tp_), NEW rank \in Indices(tp_), NEW layer, NEW param,
           NEW merged, NEW module, NEW after,
           merged \in {"qkv_proj", "gate_up_proj"}, module \in PartsOf(merged),
           DOMAIN param = Indices(ParamSize(hf, tp_, <<layer, merged>>)),
           after = Loaded(hf, tp_, rank, param, <<layer, module>>)
    PROVE  /\ DOMAIN after = DOMAIN param
           /\ Placed(hf, tp_, rank, layer, module, after)
           /\ \A other \in PartsOf(merged) : Placed(hf, tp_, rank, layer, other, param) =>
                    Placed(hf, tp_, rank, layer, other, after)
<1>1. DOMAIN after = DOMAIN param
  <2>1. PICK name : name = <<layer, module>>
    OBVIOUS
  <2>2. /\ Target(name)[2] = "qkv_proj" \/ Target(name)[2] = "gate_up_proj"
        /\ name[2] \notin {"o_proj", "down_proj", "embed_tokens", "lm_head"}
    BY <2>1 DEF Target, Packed, PartsOf
  <2> DEFINE shard == Chunk(Tensor(hf, name), tp_, rank)
             loaded == Loaded(hf, tp_, rank, param, name)
  <2>3. \/ loaded = CopyInto(param, QkvOffset(hf, tp_, Packed[name[2]][2]), shard)
        \/ loaded = CopyInto(param, MergedOffset(hf, tp_, Packed[name[2]][2]), shard)
    BY <2>2 DEF Loaded
  <2>4. DOMAIN loaded = DOMAIN param
    BY <2>3 DEF CopyInto
  <2> QED  BY <2>1, <2>4
<1>2. Placed(hf, tp_, rank, layer, module, after)
  BY LoadPlaces, Zenon
<1>3. \A other \in PartsOf(merged) : Placed(hf, tp_, rank, layer, other, param) =>
                    Placed(hf, tp_, rank, layer, other, after)
  BY LoadPlaces, Zenon
<1> QED  BY <1>1, <1>2, <1>3

(* Loading one tensor puts it in its place and disturbs none that is there.  *)
LEMMA LoadSettles ==
    ASSUME NEW hf, NEW tp_, Shape(hf, tp_), NEW q, Shaped(hf, tp_, q),
           NEW name, Known(hf, name)
    PROVE  LET next == LoadTensor(hf, tp_, q, name)
           IN  /\ Shaped(hf, tp_, next) /\ Settled(hf, tp_, next, name)
               /\ \A other : Known(hf, other) /\ Settled(hf, tp_, q, other) =>
                        Settled(hf, tp_, next, other)
<1> DEFINE next == LoadTensor(hf, tp_, q, name)
           home == Home(hf, name)
<1>1. home \in ParamNames(hf)
  BY HomeOf
<1>2. ASSUME NEW rank \in Indices(tp_)
      PROVE  /\ DOMAIN next[rank] = ParamNames(hf)
             /\ next[rank][home] = Loaded(hf, tp_, rank, q[rank][home], name)
             /\ \A n \in ParamNames(hf) : n # home => next[rank][n] = q[rank][n]
             /\ DOMAIN q[rank][home] = Indices(ParamSize(hf, tp_, home))
  <2>1. DOMAIN q[rank] = ParamNames(hf)
    BY DEF Shaped
  <2>2. next[rank] = [q[rank] EXCEPT ![home] = Loaded(hf, tp_, rank, q[rank][home], name)]
    BY DEF LoadTensor, Home
  <2> QED  BY <1>1, <2>1, <2>2 DEF Shaped
<1> HIDE DEF next
<1>3. ASSUME NEW rank \in Indices(tp_), NEW other, Known(hf, other)
      PROVE  Home(hf, other) # home => next[rank][Home(hf, other)] = q[rank][Home(hf, other)]
  BY <1>2, <1>3, HomeOf
<1>4. CASE name[2] \in PackedNames
  <2> DEFINE layer == name[1]
             merged == MergedOf(name[2])
  <2>1. /\ name = <<layer, name[2]>> /\ home = <<layer, merged>>
        /\ name[2] \in PartsOf(merged) /\ merged \in {"qkv_proj", "gate_up_proj"}
    BY <1>4, TargetOf, HomeOf DEF Known
  <2> HIDE DEF layer, merged
  <2>2. ASSUME NEW rank \in Indices(tp_)
        PROVE  /\ DOMAIN next[rank][home] = DOMAIN q[rank][home]
               /\ Placed(hf, tp_, rank, layer, name[2], next[rank][home])
               /\ \A m \in PartsOf(merged) : Placed(hf, tp_, rank, layer, m, q[rank][home]) =>
                        Placed(hf, tp_, rank, layer, m, next[rank][home])
    <3>1. DOMAIN q[rank][home] = Indices(ParamSize(hf, tp_, <<layer, merged>>))
      BY <1>2, <2>1
    <3>2. next[rank][home] = Loaded(hf, tp_, rank, q[rank][home], <<layer, name[2]>>)
      BY <1>2, <2>1
    <3>3. PICK module, param, after :
            module = name[2] /\ param = q[rank][home] /\ after = next[rank][home]
      OBVIOUS
    <3>4. /\ merged \in {"qkv_proj", "gate_up_proj"} /\ module \in PartsOf(merged)
          /\ DOMAIN param = Indices(ParamSize(hf, tp_, <<layer, merged>>))
          /\ after = Loaded(hf, tp_, rank, param, <<layer, module>>)
      BY <2>1, <3>1, <3>2, <3>3
    <3>5. /\ DOMAIN after = DOMAIN param
          /\ Placed(hf, tp_, rank, layer, module, after)
          /\ \A m \in PartsOf(merged) : Placed(hf, tp_, rank, layer, m, param) =>
                    Placed(hf, tp_, rank, layer, m, after)
      BY <3>4, PackedLoad
    <3> QED  BY <3>3, <3>5
  <2>3. Shaped(hf, tp_, next)
    BY <1>2, <2>2 DEF Shaped
  <2>4. Settled(hf, tp_, next, name)
    BY <1>4, <2>2 DEF Settled, layer
  <2>5. ASSUME NEW other, Known(hf, other), Settled(hf, tp_, q, other)
        PROVE  Settled(hf, tp_, next, other)
    <3>1. CASE Home(hf, other) # home
      BY <1>3, <2>5, <3>1 DEF Settled
    <3>2. CASE Home(hf, other) = home
      <4>1. other[2] \in PackedNames /\ other[1] = layer /\ MergedOf(other[2]) = merged
        <5>1. other[2] \in PackedNames
          <6>1. ASSUME other[2] \notin PackedNames PROVE FALSE
            <7>1. Home(hf, other) = Storage(hf, other) /\ other \in CheckpointNames
              BY <2>5, <6>1, HomeOf DEF Known
            <7>2. Home(hf, other)[2] \notin {"qkv_proj", "gate_up_proj"}
              BY <7>1, TargetOf DEF Storage
            <7> QED  BY <2>1, <3>2, <7>2
          <6> QED  BY <6>1
        <5>2. Home(hf, other) = <<other[1], MergedOf(other[2])>>
          BY <2>5, <5>1, HomeOf
        <5> QED  BY <2>1, <3>2, <5>1, <5>2
      <4>2. other[2] \in PartsOf(merged)
        BY <2>1, <2>5, <4>1, TargetOf DEF Known
      <4> QED  BY <2>2, <2>5, <3>2, <4>1, <4>2 DEF Settled
    <3> QED  BY <3>1, <3>2
  <2> QED  BY <2>3, <2>4, <2>5 DEF next
<1>5. CASE name[2] \notin PackedNames
  <2>1. ASSUME NEW rank \in Indices(tp_)
        PROVE  /\ next[rank][home] = Piece(hf, tp_, rank, name)
               /\ DOMAIN next[rank][home] = Indices(ParamSize(hf, tp_, home))
    BY <1>2, <1>5, LoadedPiece
  <2>2. Shaped(hf, tp_, next)
    BY <1>2, <2>1 DEF Shaped
  <2>3. Settled(hf, tp_, next, name)
    BY <1>5, <2>1 DEF Settled
  <2>4. ASSUME NEW other, Known(hf, other), Settled(hf, tp_, q, other)
        PROVE  Settled(hf, tp_, next, other)
    <3>1. CASE Home(hf, other) # home
      BY <1>3, <2>4, <3>1 DEF Settled
    <3>2. CASE Home(hf, other) = home
      <4>1. \A rank : other[2] \notin PackedNames
                        /\ Piece(hf, tp_, rank, other) = Piece(hf, tp_, rank, name)
        BY <1>5, <2>4, <3>2, SameHome
      <4> QED  BY <2>1, <3>2, <4>1 DEF Settled
    <3> QED  BY <3>1, <3>2
  <2> QED  BY <2>2, <2>3, <2>4 DEF next
<1> QED  BY <1>4, <1>5

-----------------------------------------------------------------------------
(* Counting up                                                             *)

LEMMA Least ==
    ASSUME NEW S, S \subseteq Nat, S # {}
    PROVE  \E m \in S : \A x \in S : m <= x
<1>1. IsWellFoundedOn(OpToRel(<, Nat), Nat)
  BY NatLessThanWellFounded
<1>2. \E x \in S : \A y \in S : ~(<<y, x>> \in OpToRel(<, Nat))
  BY <1>1, WFMin
<1>3. PICK m \in S : \A y \in S : ~(y < m)
  BY <1>2 DEF OpToRel
<1>4. \A y \in S : y \in Nat /\ m \in Nat /\ m <= y
  BY <1>3
<1> QED  BY <1>4

LEMMA Ascent ==
    ASSUME NEW G, 0 \in G, NEW L \in Nat, \A n \in 1 .. L : n - 1 \in G => n \in G
    PROVE  \A n \in 0 .. L : n \in G
<1> DEFINE Bad == {n \in Nat : n <= L /\ n \notin G}
<1>1. ASSUME Bad # {} PROVE FALSE
  <2>1. PICK m \in Bad : \A x \in Bad : m <= x
    BY <1>1, Least
  <2>2. m # 0
    BY <2>1
  <2>3. m \in 1 .. L /\ m - 1 \in Nat /\ m - 1 \notin Bad
    BY <2>1, <2>2
  <2> QED  BY <2>1, <2>3
<1> QED  BY <1>1

-----------------------------------------------------------------------------
(* load_model on one file                                                  *)

FileStep(f, file, k) ==
    IF k = 0 THEN params ELSE LoadTensor(config.hf, tp, f[k - 1], file[k])

(* The parameters after each tensor of a file: the recursive function of    *)
(* AfterFile exists.                                                       *)
LEMMA FileStepsExist ==
    ASSUME NEW file, NEW L \in Nat
    PROVE  \E f : f = [k \in 0 .. L |-> FileStep(f, file, k)]
<1> DEFINE Upto(m) == \E f : f = [k \in 0 .. m |-> FileStep(f, file, k)]
           G == {m \in Nat : Upto(m)}
<1>1. Upto(0)
  <2> DEFINE g == [k \in 0 .. 0 |-> params]
  <2>1. g = [k \in 0 .. 0 |-> FileStep(g, file, k)]
    BY DEF FileStep
  <2> QED  BY <2>1
<1>2. ASSUME NEW m \in 1 .. L, Upto(m - 1) PROVE Upto(m)
  <2>1. PICK f : f = [k \in 0 .. m - 1 |-> FileStep(f, file, k)]
    BY <1>2
  <2> DEFINE g == [k \in 0 .. m |-> FileStep(f, file, k)]
  <2>2. ASSUME NEW k \in 0 .. m - 1 PROVE g[k] = f[k]
    <3>1. f[k] = FileStep(f, file, k)
      BY <2>1
    <3> QED  BY <3>1
  <2>3. ASSUME NEW k \in 0 .. m PROVE g[k] = FileStep(g, file, k)
    <3>1. g[k] = FileStep(f, file, k)
      OBVIOUS
    <3>2. k # 0 => k - 1 \in 0 .. m - 1
      OBVIOUS
    <3>3. k # 0 => g[k - 1] = f[k - 1]
      BY <2>2, <3>2
    <3> HIDE DEF g
    <3> QED  BY <3>1, <3>3 DEF FileStep
  <2>4. g = [k \in 0 .. m |-> FileStep(g, file, k)]
    BY <2>3
  <2> QED  BY <2>4
<1>3. 0 \in G /\ \A m \in 1 .. L : m - 1 \in G => m \in G
  BY <1>1, <1>2
<1> HIDE DEF G
<1>4. L \in G
  BY <1>3, Ascent
<1> QED  BY <1>4 DEF G

(* All the tensors of a file end up in their places, and those of the files  *)
(* loaded before stay in theirs.                                           *)
LEMMA FileSettles ==
    ASSUME Shape(config.hf, tp), Shaped(config.hf, tp, params),
           NEW file \in Seq(CheckpointNames), AllKnown(file)
    PROVE  LET after == AfterFile(file)
           IN  /\ Shaped(config.hf, tp, after)
               /\ \A k \in DOMAIN file : Settled(config.hf, tp, after, file[k])
               /\ \A name : Known(config.hf, name) /\ Settled(config.hf, tp, params, name) =>
                        Settled(config.hf, tp, after, name)
<1>1. PICK L \in Nat : L = Len(file) /\ DOMAIN file = 1 .. L
  OBVIOUS
<1> DEFINE f == CHOOSE f : f = [k \in 0 .. Len(file) |->
                    IF k = 0 THEN params ELSE LoadTensor(config.hf, tp, f[k - 1], file[k])]
<1>2. f = [k \in 0 .. L |-> FileStep(f, file, k)]
  <2>1. \E g : g = [k \in 0 .. L |-> FileStep(g, file, k)]
    BY FileStepsExist
  <2>2. \E g : g = [k \in 0 .. Len(file) |->
                    IF k = 0 THEN params ELSE LoadTensor(config.hf, tp, g[k - 1], file[k])]
    BY <1>1, <2>1 DEF FileStep
  <2> QED  BY <1>1, <2>2 DEF FileStep
<1>3. AfterFile(file) = f[L]
  BY <1>1 DEF AfterFile
<1> HIDE DEF f
<1>4. f[0] = params
  BY <1>2 DEF FileStep
<1>5. \A k \in 1 .. L : f[k] = LoadTensor(config.hf, tp, f[k - 1], file[k])
  BY <1>2 DEF FileStep
<1> DEFINE Good(n) ==
        /\ Shaped(config.hf, tp, f[n])
        /\ \A k \in 1 .. n : Settled(config.hf, tp, f[n], file[k])
        /\ \A name : Known(config.hf, name) /\ Settled(config.hf, tp, params, name) =>
                Settled(config.hf, tp, f[n], name)
           G == {n \in Nat : Good(n)}
<1>6. Good(0)
  BY <1>4
<1>7. \A k \in 1 .. L : Known(config.hf, file[k])
  BY <1>1 DEF AllKnown, Known
<1>8. ASSUME NEW n \in 1 .. L, Good(n - 1) PROVE Good(n)
  <2>1. PICK hf, q, next : hf = config.hf /\ q = f[n - 1] /\ next = f[n]
    OBVIOUS
  <2>2. next = LoadTensor(hf, tp, q, file[n]) /\ Known(hf, file[n])
    BY <1>5, <1>7, <2>1
  <2>3. Shape(hf, tp) /\ Shaped(hf, tp, q)
    BY <1>8, <2>1
  <2>4. /\ Shaped(hf, tp, next) /\ Settled(hf, tp, next, file[n])
        /\ \A other : Known(hf, other) /\ Settled(hf, tp, q, other) => Settled(hf, tp, next, other)
    BY <2>2, <2>3, LoadSettles, Zenon
  <2>5. \A k \in 1 .. n - 1 : Settled(hf, tp, q, file[k]) /\ Known(hf, file[k])
    BY <1>7, <1>8, <2>1
  <2>6. ASSUME NEW k \in 1 .. n PROVE Settled(hf, tp, next, file[k])
    <3>1. CASE k = n
      BY <2>4, <3>1
    <3>2. CASE k # n
      <4>1. k \in 1 .. n - 1
        BY <3>2
      <4> QED  BY <2>4, <2>5, <4>1
    <3> QED  BY <3>1, <3>2
  <2>7. \A name : Known(hf, name) /\ Settled(hf, tp, params, name) => Settled(hf, tp, next, name)
    BY <1>8, <2>1, <2>4
  <2> QED  BY <2>1, <2>4, <2>6, <2>7
<1>9. 0 \in G /\ \A n \in 1 .. L : n - 1 \in G => n \in G
  BY <1>6, <1>8
<1> HIDE DEF G
<1>10. L \in G
  BY <1>9, Ascent
<1>11. Good(L)
  BY <1>10 DEF G
<1> QED  BY <1>1, <1>3, <1>11

-----------------------------------------------------------------------------
(* A model with all its tensors in place                                   *)

(* Where the tensors are that are not packed.                               *)
LEMMA HomeOfUnpacked ==
    ASSUME NEW hf, NEW name, name[2] \notin PackedNames
    PROVE  /\ Home(hf, name) = Storage(hf, name)
           /\ name[2] # "lm_head" => Home(hf, name) = name
<1>1. Target(name) = name
  BY DEF Target, Packed, PackedNames
<1> QED  BY <1>1 DEF Home, Storage

(* The rows of a tensor that is cut over the ranks.                         *)
LEMMA ShardSettled ==
    ASSUME NEW hf, NEW tp_, Shape(hf, tp_), NEW q, NEW rank \in Indices(tp_),
           NEW name, name = <<name[1], name[2]>>, name[2] \in ShardedNames,
           NEW n \in Nat, ParamSize(hf, tp_, name) = n, Settled(hf, tp_, q, name)
    PROVE  \A j \in Indices(n) : q[rank][Storage(hf, name)][j] = Tensor(hf, name)[(rank * n) + j]
<1>1. name[2] \notin PackedNames
  BY DEF ShardedNames, PackedNames
<1>2. Home(hf, name) = Storage(hf, name)
  BY <1>1, HomeOfUnpacked
<1>3. q[rank][Home(hf, name)] = Piece(hf, tp_, rank, name)
  BY <1>1 DEF Settled
<1>4. Piece(hf, tp_, rank, name) = RankShard(Tensor(hf, name), n, rank)
  BY <1>1 DEF Piece
<1>5. RankShard(Tensor(hf, name), n, rank)
        = [j \in Indices(n) |-> Tensor(hf, name)[(rank * n) + j]]
  BY DEF RankShard, Narrow
<1> QED  BY <1>2, <1>3, <1>4, <1>5

RowNames == {"o_proj", "down_proj", "embed_tokens"}

LEMMA RowsSettled ==
    ASSUME NEW hf, NEW tp_, Shape(hf, tp_), NEW q, NEW rank \in Indices(tp_),
           NEW name, name = <<name[1], name[2]>>, name[2] \in RowNames, NEW n \in Nat,
           TensorSize(hf, name) = tp_ * n, ParamSize(hf, tp_, name) = n,
           Settled(hf, tp_, q, name)
    PROVE  \A j \in Indices(n) : q[rank][name][j] = <<name, (rank * n) + j>>
<1>1. name[2] \in ShardedNames /\ Storage(hf, name) = name /\ name[2] # "lm_head"
  BY DEF RowNames, ShardedNames, Storage
<1>2. \A j \in Indices(n) : q[rank][name][j] = Tensor(hf, name)[(rank * n) + j]
  BY <1>1, ShardSettled
<1>3. tp_ \in Nat \ {0}
  BY DEF Shape
<1>4. ASSUME NEW j \in Indices(n)
      PROVE  Tensor(hf, name)[(rank * n) + j] = <<name, (rank * n) + j>>
  <2>1. (rank * n) + j \in Indices(tp_ * n)
    BY <1>3, BlockIndex DEF Indices
  <2>2. PICK i : i = (rank * n) + j
    OBVIOUS
  <2>3. Tensor(hf, name)[i] = <<name, i>>
    BY <1>1, <2>1, <2>2 DEF Tensor
  <2> QED  BY <2>2, <2>3
<1> QED  BY <1>2, <1>4

(* A tensor every rank holds whole.                                        *)
WholeNames == {"input_layernorm", "post_attention_layernorm", "q_norm", "k_norm", "norm"}

LEMMA WholeSettled ==
    ASSUME NEW hf, NEW tp_, NEW q, NEW rank \in Indices(tp_), NEW name,
           name = <<name[1], name[2]>>, name[2] \in WholeNames, Settled(hf, tp_, q, name)
    PROVE  q[rank][name][0] = <<name, 0>>
<1>1. name[2] \notin PackedNames /\ name[2] \notin ShardedNames /\ name[2] # "lm_head"
  BY DEF WholeNames, ShardedNames, PackedNames
<1>2. Home(hf, name) = name
  BY <1>1, HomeOfUnpacked
<1>3. q[rank][name] = Tensor(hf, name)
  BY <1>1, <1>2 DEF Settled, Piece
<1>4. TensorSize(hf, name) = 1
  BY DEF TensorSize, WholeNames
<1>5. Tensor(hf, name)[0] = <<name, 0>>
  BY <1>1, <1>4 DEF Tensor, Indices
<1> QED  BY <1>3, <1>5

(* The sizes of the shards, in the units of ParallelLayersProofs.            *)
LEMMA ShardSizes ==
    ASSUME NEW hf, NEW tp_, Shape(hf, tp_), NEW layer
    PROVE  /\ ParamSize(hf, tp_, <<layer, "o_proj">>) = QSize(hf, tp_)
           /\ TensorSize(hf, <<layer, "o_proj">>) = tp_ * QSize(hf, tp_)
           /\ ParamSize(hf, tp_, <<layer, "down_proj">>) = Columns(hf, tp_)
           /\ TensorSize(hf, <<layer, "down_proj">>) = tp_ * Columns(hf, tp_)
           /\ ParamSize(hf, tp_, <<layer, "embed_tokens">>) = Words(hf, tp_)
           /\ TensorSize(hf, <<layer, "embed_tokens">>) = tp_ * Words(hf, tp_)
           /\ ParamSize(hf, tp_, <<layer, "lm_head">>) = Words(hf, tp_)
<1>1. /\ hf.heads = tp_ * QSize(hf, tp_) /\ hf.inter = tp_ * Columns(hf, tp_)
      /\ hf.vocab = tp_ * Words(hf, tp_)
  BY Parts
<1>2. /\ TensorSize(hf, <<layer, "o_proj">>) = hf.heads
      /\ TensorSize(hf, <<layer, "down_proj">>) = hf.inter
      /\ TensorSize(hf, <<layer, "embed_tokens">>) = hf.vocab
      /\ TensorSize(hf, <<layer, "lm_head">>) = hf.vocab
  BY DEF TensorSize
<1>3. \A module \in {"o_proj", "down_proj", "embed_tokens", "lm_head"} :
        ParamSize(hf, tp_, <<layer, module>>) = TensorSize(hf, <<layer, module>>) \div tp_
  BY DEF ParamSize
<1> QED  BY <1>1, <1>2, <1>3 DEF QSize, Columns, Words

AllSettled(hf, tp_, q) == \A name \in ModelTensors(hf) : Settled(hf, tp_, q, name)

LEMMA TensorsOfLayer ==
    ASSUME NEW hf, NEW layer \in Layers(hf)
    PROVE  /\ \A module \in {"q_proj", "k_proj", "v_proj", "o_proj", "gate_proj", "up_proj",
                             "down_proj", "input_layernorm", "post_attention_layernorm"} :
                <<layer, module>> \in ModelTensors(hf)
           /\ \A name \in QkNorms(hf, layer) :
                /\ name \in ModelTensors(hf)
                /\ \E module \in {"q_norm", "k_norm"} : name = <<layer, module>>
  BY DEF ModelTensors, LayerTensors, QkNorms

(* The parts of qkv_proj and of gate_up_proj.                               *)
LEMMA PartsSettled ==
    ASSUME NEW hf, NEW tp_, NEW q, NEW rank \in Indices(tp_), NEW layer,
           NEW merged \in {"qkv_proj", "gate_up_proj"}, NEW module \in PartsOf(merged),
           Settled(hf, tp_, q, <<layer, module>>)
    PROVE  Placed(hf, tp_, rank, layer, module, q[rank][<<layer, merged>>])
<1> DEFINE name == <<layer, module>>
<1>1. name[1] = layer /\ name[2] = module /\ module \in PackedNames
  BY DEF PartsOf, PackedNames
<1>2. Target(name) = <<layer, merged>>
  BY DEF Target, Packed, PartsOf
<1>3. Home(hf, name) = <<layer, merged>>
  BY <1>2 DEF Home, Storage
<1>4. Placed(hf, tp_, rank, name[1], name[2], q[rank][Home(hf, name)])
  BY <1>1 DEF Settled
<1> QED  BY <1>1, <1>3, <1>4

LEMMA AttentionSettled ==
    ASSUME NEW hf, NEW tp_, Shape(hf, tp_), NEW q, AllSettled(hf, tp_, q),
           NEW rank \in Indices(tp_), NEW layer \in Layers(hf)
    PROVE  AttentionLoaded(hf, tp_, rank, layer, q[rank])
<1>1. QSize(hf, tp_) \in Nat
  BY Parts
<1>2. \A module \in {"q_proj", "k_proj", "v_proj", "o_proj"} : Settled(hf, tp_, q, <<layer, module>>)
  BY TensorsOfLayer DEF AllSettled
<1>3. \A module \in PartsOf("qkv_proj") :
        Placed(hf, tp_, rank, layer, module, q[rank][<<layer, "qkv_proj">>])
  <2> SUFFICES ASSUME NEW module \in PartsOf("qkv_proj")
               PROVE  Placed(hf, tp_, rank, layer, module, q[rank][<<layer, "qkv_proj">>])
    OBVIOUS
  <2>1. Settled(hf, tp_, q, <<layer, module>>)
    BY <1>2 DEF PartsOf
  <2> QED  BY <2>1, PartsSettled
<1>4. QkvLoaded(hf, tp_, rank, layer, q[rank][<<layer, "qkv_proj">>])
  BY <1>3, PlacedIsLoaded
<1>5. OProjLoaded(hf, tp_, rank, layer, q[rank][<<layer, "o_proj">>])
  <2>1. PICK n \in Nat : n = QSize(hf, tp_)
    BY <1>1
  <2>a. PICK name : name = <<layer, "o_proj">>
    OBVIOUS
  <2>2. /\ name = <<name[1], name[2]>> /\ name[2] \in RowNames
        /\ TensorSize(hf, name) = tp_ * n /\ ParamSize(hf, tp_, name) = n
        /\ Settled(hf, tp_, q, name)
    BY <1>2, <2>1, <2>a, ShardSizes DEF RowNames
  <2>3. \A j \in Indices(n) : q[rank][name][j] = <<name, (rank * n) + j>>
    BY <2>2, RowsSettled
  <2> QED  BY <2>1, <2>a, <2>3 DEF OProjLoaded
<1>6. ASSUME NEW name \in QkNorms(hf, layer) PROVE q[rank][name][0] = <<name, 0>>
  <2>1. PICK module \in {"q_norm", "k_norm"} : name = <<layer, module>>
    BY TensorsOfLayer
  <2>2. Settled(hf, tp_, q, name)
    BY TensorsOfLayer DEF AllSettled
  <2>3. name = <<name[1], name[2]>> /\ name[2] \in WholeNames
    BY <2>1 DEF WholeNames
  <2> QED  BY <2>2, <2>3, WholeSettled
<1> QED  BY <1>4, <1>5, <1>6 DEF AttentionLoaded

LEMMA MlpSettled ==
    ASSUME NEW hf, NEW tp_, Shape(hf, tp_), NEW q, AllSettled(hf, tp_, q),
           NEW rank \in Indices(tp_), NEW layer \in Layers(hf)
    PROVE  MlpLoaded(hf, tp_, rank, layer, q[rank])
<1>1. PICK c \in Nat : c = Columns(hf, tp_)
  BY Parts
<1>2. \A module \in {"gate_proj", "up_proj", "down_proj"} : Settled(hf, tp_, q, <<layer, module>>)
  BY TensorsOfLayer DEF AllSettled
<1>3. \A module \in {"gate_proj", "up_proj"} :
        Placed(hf, tp_, rank, layer, module, q[rank][<<layer, "gate_up_proj">>])
  <2> SUFFICES ASSUME NEW module \in {"gate_proj", "up_proj"}
               PROVE  Placed(hf, tp_, rank, layer, module, q[rank][<<layer, "gate_up_proj">>])
    OBVIOUS
  <2>1. module \in PartsOf("gate_up_proj")
    BY DEF PartsOf
  <2> QED  BY <1>2, <2>1, PartsSettled
<1>4. \A j \in Indices(c) :
        /\ q[rank][<<layer, "gate_up_proj">>][0 + j] = <<<<layer, "gate_proj">>, (rank * c) + j>>
        /\ q[rank][<<layer, "gate_up_proj">>][c + j] = <<<<layer, "up_proj">>, (rank * c) + j>>
  BY <1>1, <1>3 DEF Placed, PartOffset, PartSize
<1>5. \A j \in Indices(c) : q[rank][<<layer, "down_proj">>][j] = <<<<layer, "down_proj">>, (rank * c) + j>>
  <2>1. PICK name : name = <<layer, "down_proj">>
    OBVIOUS
  <2>2. /\ name = <<name[1], name[2]>> /\ name[2] \in RowNames
        /\ TensorSize(hf, name) = tp_ * c /\ ParamSize(hf, tp_, name) = c
        /\ Settled(hf, tp_, q, name)
    BY <1>1, <1>2, <2>1, ShardSizes DEF RowNames
  <2>3. \A j \in Indices(c) : q[rank][name][j] = <<name, (rank * c) + j>>
    BY <2>2, RowsSettled
  <2> QED  BY <2>1, <2>3
<1>6. \A j \in Indices(c) : 0 + j = j
  BY DEF Indices
<1> QED  BY <1>1, <1>4, <1>5, <1>6 DEF MlpLoaded

LEMMA VocabularySettled ==
    ASSUME NEW hf, NEW tp_, Shape(hf, tp_), NEW q, AllSettled(hf, tp_, q),
           NEW rank \in Indices(tp_)
    PROVE  /\ EmbeddingLoaded(hf, tp_, rank, q[rank])
           /\ \A j \in Indices(Words(hf, tp_)) :
                q[rank][Storage(hf, <<0, "lm_head">>)][j] =
                    Tensor(hf, <<0, "lm_head">>)[(rank * Words(hf, tp_)) + j]
           /\ q[rank][<<0, "norm">>][0] = <<<<0, "norm">>, 0>>
<1>1. PICK n \in Nat : n = Words(hf, tp_)
  BY Parts
<1>2. /\ Settled(hf, tp_, q, <<0, "embed_tokens">>) /\ Settled(hf, tp_, q, <<0, "norm">>)
      /\ ~hf.tied => Settled(hf, tp_, q, <<0, "lm_head">>)
  BY DEF AllSettled, ModelTensors
<1>3. \A j \in Indices(n) :
        q[rank][<<0, "embed_tokens">>][j] = <<<<0, "embed_tokens">>, (rank * n) + j>>
  <2>1. PICK name : name = <<0, "embed_tokens">>
    OBVIOUS
  <2>2. /\ name = <<name[1], name[2]>> /\ name[2] \in RowNames
        /\ TensorSize(hf, name) = tp_ * n /\ ParamSize(hf, tp_, name) = n
        /\ Settled(hf, tp_, q, name)
    BY <1>1, <1>2, <2>1, ShardSizes DEF RowNames
  <2>3. \A j \in Indices(n) : q[rank][name][j] = <<name, (rank * n) + j>>
    BY <2>2, RowsSettled
  <2> QED  BY <2>1, <2>3
<1>a. q[rank][<<0, "norm">>][0] = <<<<0, "norm">>, 0>>
  <2>1. PICK name : name = <<0, "norm">>
    OBVIOUS
  <2>2. name = <<name[1], name[2]>> /\ name[2] \in WholeNames /\ Settled(hf, tp_, q, name)
    BY <1>2, <2>1 DEF WholeNames
  <2>3. q[rank][name][0] = <<name, 0>>
    BY <2>2, WholeSettled
  <2> QED  BY <2>1, <2>3
<1>b. EmbeddingLoaded(hf, tp_, rank, q[rank])
  BY <1>1, <1>3 DEF EmbeddingLoaded
<1>4. CASE hf.tied
  <2>1. Storage(hf, <<0, "lm_head">>) = <<0, "embed_tokens">>
    BY <1>4 DEF Storage
  <2>2. ASSUME NEW j \in Indices(n)
        PROVE  Tensor(hf, <<0, "lm_head">>)[(rank * n) + j] = <<<<0, "embed_tokens">>, (rank * n) + j>>
    <3>1. tp_ \in Nat \ {0} /\ TensorSize(hf, <<0, "lm_head">>) = tp_ * n
      BY <1>1, Parts DEF Shape, TensorSize
    <3>2. (rank * n) + j \in Indices(tp_ * n)
      BY <3>1, BlockIndex DEF Indices
    <3>3. PICK i : i = (rank * n) + j
      OBVIOUS
    <3>4. Tensor(hf, <<0, "lm_head">>)[i] = <<<<0, "embed_tokens">>, i>>
      BY <1>4, <3>1, <3>2, <3>3 DEF Tensor
    <3> QED  BY <3>3, <3>4
  <2>3. \A j \in Indices(n) : q[rank][Storage(hf, <<0, "lm_head">>)][j] =
                    Tensor(hf, <<0, "lm_head">>)[(rank * n) + j]
    BY <1>3, <2>1, <2>2
  <2> QED  BY <1>1, <1>a, <1>b, <2>3
<1>5. CASE ~hf.tied
  <2>1. PICK name : name = <<0, "lm_head">>
    OBVIOUS
  <2>2. /\ name = <<name[1], name[2]>> /\ name[2] \in ShardedNames
        /\ ParamSize(hf, tp_, name) = n /\ Settled(hf, tp_, q, name)
    BY <1>1, <1>2, <1>5, <2>1, ShardSizes DEF ShardedNames
  <2>3. \A j \in Indices(n) : q[rank][Storage(hf, name)][j] = Tensor(hf, name)[(rank * n) + j]
    BY <2>2, ShardSettled
  <2> QED  BY <1>1, <1>a, <1>b, <2>1, <2>3
<1> QED  BY <1>4, <1>5

(* Together: what the layers of the ranks compute is what one rank with the  *)
(* whole model would.                                                      *)
ParamsAddUp(hf, tp_, q) ==
    /\ EmbeddingAddsUp(hf, tp_, q) /\ LogitsInOrder(hf, tp_, q)
    /\ \A layer \in Layers(hf) :
            /\ AttentionAddsUp(hf, tp_, q, layer)
            /\ MlpAddsUp(hf, tp_, q, layer, ActiveRows(hf, tp_, q, layer))
            /\ MlpAddsUp(hf, tp_, q, layer, KernelRows(hf, tp_, q, layer))
            /\ \A module \in {"input_layernorm", "post_attention_layernorm"} :
                    q[0][<<layer, module>>][0] = <<<<layer, module>>, 0>>
    /\ q[0][<<0, "norm">>][0] = <<<<0, "norm">>, 0>>

LEMMA LayersAddUp ==
    ASSUME NEW hf, NEW tp_, Shape(hf, tp_), QSize(hf, tp_) % KvSize(hf, tp_) = 0,
           NEW q, AllSettled(hf, tp_, q)
    PROVE  ParamsAddUp(hf, tp_, q)
<1>1. 0 \in Indices(tp_)
  BY DEF Indices, Shape
<1>2. EmbeddingAddsUp(hf, tp_, q)
  BY VocabularySettled, EmbeddingShardsAddUp
<1>3. LogitsInOrder(hf, tp_, q)
  BY VocabularySettled, LogitsGatheredInOrder
<1>4. q[0][<<0, "norm">>][0] = <<<<0, "norm">>, 0>>
  BY <1>1, VocabularySettled
<1>5. ASSUME NEW layer \in Layers(hf)
      PROVE  /\ AttentionAddsUp(hf, tp_, q, layer)
             /\ MlpAddsUp(hf, tp_, q, layer, ActiveRows(hf, tp_, q, layer))
             /\ MlpAddsUp(hf, tp_, q, layer, KernelRows(hf, tp_, q, layer))
             /\ \A module \in {"input_layernorm", "post_attention_layernorm"} :
                    q[0][<<layer, module>>][0] = <<<<layer, module>>, 0>>
  <2>1. AttentionAddsUp(hf, tp_, q, layer)
    BY AttentionSettled, AttentionShardsAddUp
  <2>2. \A rank \in Indices(tp_) : MlpLoaded(hf, tp_, rank, layer, q[rank])
    BY MlpSettled
  <2>3. \A module \in {"input_layernorm", "post_attention_layernorm"} :
            Settled(hf, tp_, q, <<layer, module>>)
    BY TensorsOfLayer DEF AllSettled
  <2>4. MlpAddsUp(hf, tp_, q, layer, ActiveRows(hf, tp_, q, layer))
    BY <2>2, MlpShardsAddUp
  <2>5. MlpAddsUp(hf, tp_, q, layer, KernelRows(hf, tp_, q, layer))
    BY <2>2, MlpShardsAddUpByKernel
  <2>6. ASSUME NEW module \in {"input_layernorm", "post_attention_layernorm"}
        PROVE  q[0][<<layer, module>>][0] = <<<<layer, module>>, 0>>
    <3>1. PICK name : name = <<layer, module>>
      OBVIOUS
    <3>2. name = <<name[1], name[2]>> /\ name[2] \in WholeNames /\ Settled(hf, tp_, q, name)
      BY <2>3, <3>1 DEF WholeNames
    <3>3. q[0][name][0] = <<name, 0>>
      BY <1>1, <3>2, WholeSettled
    <3> QED  BY <3>1, <3>3
  <2> QED  BY <2>1, <2>4, <2>5, <2>6
<1> QED  BY <1>2, <1>3, <1>4, <1>5 DEF ParamsAddUp

-----------------------------------------------------------------------------
(***************************************************************************)
(* Loading                                                                 *)
(***************************************************************************)

(* A file whose tensors are all known and in their places.                  *)
Filed(hf, tp_, q, file) ==
    \A k \in DOMAIN file : Known(hf, file[k]) /\ Settled(hf, tp_, q, file[k])

(* The parameters have their sizes, and every file that was read has left    *)
(* its tensors in their places, whatever was read after it.                 *)
LoadInv ==
    phase \in {"loading", "forward"} =>
        /\ unread \subseteq config.hf.files
        /\ Shaped(config.hf, tp, params)
        /\ \A file \in config.hf.files \ unread : Filed(config.hf, tp, params, file)
        /\ phase = "forward" => unread = {}

(* Fresh parameters: nothing is in its place, but everything has a place.    *)
LEMMA FreshShaped ==
    ASSUME NEW hf, NEW tp_
    PROVE  Shaped(hf, tp_, NewParams(hf, tp_))
  BY DEF Shaped, NewParams

(* One file more.                                                          *)
LEMMA FileLoaded ==
    ASSUME ConfigInv, BuiltInv, LoadInv, NEW file \in unread, LoadFile(file)
    PROVE  LoadInv'
<1>1. phase = "loading" /\ phase' = phase /\ config' = config /\ AllKnown(file)
      /\ params' = AfterFile(file) /\ unread' = unread \ {file}
  BY DEF LoadFile
<1> DEFINE hf == config.hf
<1>2. Shape(hf, tp) /\ Shaped(hf, tp, params) /\ file \in hf.files /\ file \in Seq(CheckpointNames)
  BY <1>1, BuiltShape, ConfigFacts DEF Built, LoadInv
<1>3. /\ Shaped(hf, tp, params')
      /\ \A k \in DOMAIN file : Settled(hf, tp, params', file[k])
      /\ \A name : Known(hf, name) /\ Settled(hf, tp, params, name) => Settled(hf, tp, params', name)
  BY <1>1, <1>2, FileSettles, Zenon
<1>4. \A k \in DOMAIN file : Known(hf, file[k])
  BY <1>1, <1>2 DEF AllKnown, Known
<1>5. ASSUME NEW other \in hf.files \ unread' PROVE Filed(hf, tp, params', other)
  <2>1. CASE other = file
    BY <1>3, <1>4, <2>1 DEF Filed
  <2>2. CASE other # file
    <3>1. Filed(hf, tp, params, other)
      BY <1>1, <2>2 DEF LoadInv
    <3> QED  BY <1>3, <3>1 DEF Filed
  <2> QED  BY <2>1, <2>2
<1>6. config'.hf = hf /\ tp' = tp
  BY <1>1 DEF tp
<1>7. unread' \subseteq hf.files /\ phase' # "forward"
  BY <1>1 DEF LoadInv
<1> QED  BY <1>3, <1>5, <1>6, <1>7 DEF LoadInv

(* When the forward pass starts every tensor of the model is in its place:   *)
(* the layers of the ranks add up.                                         *)
LEMMA ForwardFacts ==
    ASSUME ConfigInv, BuiltInv, LoadInv, phase = "forward"
    PROVE  /\ EmbeddingAddsUp(config.hf, tp, params) /\ LogitsInOrder(config.hf, tp, params)
           /\ \A layer \in Layers(config.hf) :
                /\ AttentionAddsUp(config.hf, tp, params, layer)
                /\ MlpAddsUp(config.hf, tp, params, layer, ActiveRows(config.hf, tp, params, layer))
                /\ MlpAddsUp(config.hf, tp, params, layer, KernelRows(config.hf, tp, params, layer))
                /\ \A module \in {"input_layernorm", "post_attention_layernorm"} :
                        Weight(<<layer, module>>) = <<<<layer, module>>, 0>>
           /\ Weight(<<0, "norm">>) = <<<<0, "norm">>, 0>>
           /\ RopeUsable /\ FloatCopies
<1> DEFINE hf == config.hf
<1>1. Built /\ Backed /\ phase # "idle"
  BY DEF Built, Backed
<1>2. Shape(hf, tp) /\ QSize(hf, tp) % KvSize(hf, tp) = 0
  BY <1>1, BuiltShape
<1>3. AllSettled(hf, tp, params)
  <2> SUFFICES ASSUME NEW name \in ModelTensors(hf) PROVE Settled(hf, tp, params, name)
    BY DEF AllSettled
  <2>1. PICK file \in hf.files : \E k \in DOMAIN file : file[k] = name
    BY <1>1, ConfigFacts
  <2>2. Filed(hf, tp, params, file)
    BY <2>1 DEF LoadInv
  <2> QED  BY <2>1, <2>2 DEF Filed
<1>4. FloatCopies
  BY <1>1 DEF BuiltInv, FloatCopies
<1>5. RopeUsable
  <2>1. /\ rope.key = RopeKey /\ rope.max_position = rope.key.max_position
        /\ rope.config = rope.key.config
        /\ rope.provider = "flashinfer" => FlashInferAvailable(env)
    BY <1>1 DEF BuiltInv, RopeSound
  <2>2. rope.max_position = hf.max_position /\ rope.config = OpConfig
    BY <2>1 DEF RopeKey
  <2>3. config.max_model_len <= hf.max_position
    BY <1>1, ConfigFacts
  <2> QED  BY <2>1, <2>2, <2>3 DEF RopeUsable
<1> HIDE DEF hf
<1>6. /\ EmbeddingAddsUp(hf, tp, params) /\ LogitsInOrder(hf, tp, params)
      /\ \A layer \in Layers(hf) :
            /\ AttentionAddsUp(hf, tp, params, layer)
            /\ MlpAddsUp(hf, tp, params, layer, ActiveRows(hf, tp, params, layer))
            /\ MlpAddsUp(hf, tp, params, layer, KernelRows(hf, tp, params, layer))
            /\ \A module \in {"input_layernorm", "post_attention_layernorm"} :
                    params[0][<<layer, module>>][0] = <<<<layer, module>>, 0>>
      /\ params[0][<<0, "norm">>][0] = <<<<0, "norm">>, 0>>
  <2>1. ParamsAddUp(hf, tp, params)
    BY <1>2, <1>3, LayersAddUp, Zenon
  <2> QED  BY <2>1 DEF ParamsAddUp
<1> QED  BY <1>4, <1>5, <1>6 DEF hf, Weight

-----------------------------------------------------------------------------
(***************************************************************************)
(* The forward pass                                                        *)
(***************************************************************************)

LayerStep(f, l) ==
    IF l = 0 THEN <<<<"embed", 0, "input_ids">>, None>> ELSE ReferenceLayer(l, f[l - 1])

(* The recursive function of ReferenceLayers exists.                        *)
LEMMA LayerStepsExist ==
    ASSUME NEW L \in Nat
    PROVE  \E f : f = [l \in 0 .. L |-> LayerStep(f, l)]
<1> DEFINE Upto(m) == \E f : f = [l \in 0 .. m |-> LayerStep(f, l)]
           G == {m \in Nat : Upto(m)}
<1>1. Upto(0)
  <2> DEFINE g == [l \in 0 .. 0 |-> <<<<"embed", 0, "input_ids">>, None>>]
  <2>1. g = [l \in 0 .. 0 |-> LayerStep(g, l)]
    BY DEF LayerStep
  <2> QED  BY <2>1
<1>2. ASSUME NEW m \in 1 .. L, Upto(m - 1) PROVE Upto(m)
  <2>1. PICK f : f = [l \in 0 .. m - 1 |-> LayerStep(f, l)]
    BY <1>2
  <2> DEFINE g == [l \in 0 .. m |-> LayerStep(f, l)]
  <2>2. ASSUME NEW l \in 0 .. m - 1 PROVE g[l] = f[l]
    <3>1. f[l] = LayerStep(f, l)
      BY <2>1
    <3> QED  BY <3>1
  <2>3. ASSUME NEW l \in 0 .. m PROVE g[l] = LayerStep(g, l)
    <3>1. g[l] = LayerStep(f, l)
      OBVIOUS
    <3>2. l # 0 => l - 1 \in 0 .. m - 1
      OBVIOUS
    <3>3. l # 0 => g[l - 1] = f[l - 1]
      BY <2>2, <3>2
    <3> HIDE DEF g
    <3> QED  BY <3>1, <3>3 DEF LayerStep
  <2>4. g = [l \in 0 .. m |-> LayerStep(g, l)]
    BY <2>3
  <2> QED  BY <2>4
<1>3. 0 \in G /\ \A m \in 1 .. L : m - 1 \in G => m \in G
  BY <1>1, <1>2
<1> HIDE DEF G
<1>4. L \in G
  BY <1>3, Ascent
<1> QED  BY <1>4 DEF G

LEMMA ReferenceUnfolds ==
    ASSUME NEW hf, hf.layers \in Nat
    PROVE  /\ ReferenceLayers(hf)[0] = <<<<"embed", 0, "input_ids">>, None>>
           /\ \A l \in 1 .. hf.layers :
                ReferenceLayers(hf)[l] = ReferenceLayer(l, ReferenceLayers(hf)[l - 1])
<1> DEFINE f == CHOOSE f : f = [l \in 0 .. hf.layers |->
                    IF l = 0 THEN <<<<"embed", 0, "input_ids">>, None>>
                    ELSE ReferenceLayer(l, f[l - 1])]
<1>1. f = [l \in 0 .. hf.layers |-> LayerStep(f, l)]
  <2>1. \E g : g = [l \in 0 .. hf.layers |-> LayerStep(g, l)]
    BY LayerStepsExist
  <2>2. \E g : g = [l \in 0 .. hf.layers |->
                    IF l = 0 THEN <<<<"embed", 0, "input_ids">>, None>>
                    ELSE ReferenceLayer(l, g[l - 1])]
    BY <2>1 DEF LayerStep
  <2> QED  BY <2>2 DEF LayerStep
<1>2. ReferenceLayers(hf) = f
  BY DEF ReferenceLayers
<1> HIDE DEF f
<1>3. \A l \in 0 .. hf.layers : f[l] = LayerStep(f, l)
  BY <1>1
<1> QED  BY <1>2, <1>3 DEF LayerStep

(* What the reference has at the places of layer l.                         *)
Before(hf, l) == ReferenceLayers(hf)[l - 1]
Entering(hf, l) == ReferenceInput(l, Before(hf, l))
Attending(hf, l) == ReferenceNorm(l, "input_layernorm", Entering(hf, l))
Attended(hf, l) == <<"attention", l, Attending(hf, l)>>
Added(hf, l) == Sum(Attended(hf, l), Entering(hf, l))
Normed(hf, l) == ReferenceNorm(l, "post_attention_layernorm", Added(hf, l))
Final(hf) == ReferenceNorm(0, "norm",
                Sum(ReferenceLayers(hf)[hf.layers][1], ReferenceLayers(hf)[hf.layers][2]))

LEMMA ReferenceFacts ==
    ASSUME NEW hf, hf.layers \in Nat \ {0}
    PROVE  /\ Entering(hf, 1) = <<"embed", 0, "input_ids">>
           /\ \A l \in Layers(hf) :
                /\ l # 1 => Entering(hf, l) = Sum(Before(hf, l)[1], Before(hf, l)[2])
                /\ ReferenceLayers(hf)[l][1] = <<"mlp", l, Normed(hf, l)>>
                /\ ReferenceLayers(hf)[l][2] = Added(hf, l)
           /\ ReferenceLogits(hf) = <<"lm_head", 0, Final(hf)>>
<1>1. /\ ReferenceLayers(hf)[0] = <<<<"embed", 0, "input_ids">>, None>>
      /\ \A l \in 1 .. hf.layers :
            ReferenceLayers(hf)[l] = ReferenceLayer(l, ReferenceLayers(hf)[l - 1])
  BY ReferenceUnfolds
<1>2. Entering(hf, 1) = <<"embed", 0, "input_ids">>
  BY <1>1 DEF Entering, ReferenceInput, Before
<1>3. ASSUME NEW l \in Layers(hf)
      PROVE  /\ l # 1 => Entering(hf, l) = Sum(Before(hf, l)[1], Before(hf, l)[2])
             /\ ReferenceLayers(hf)[l][1] = <<"mlp", l, Normed(hf, l)>>
             /\ ReferenceLayers(hf)[l][2] = Added(hf, l)
  <2>1. l # 1 => Entering(hf, l) = Sum(Before(hf, l)[1], Before(hf, l)[2])
    BY DEF Entering, ReferenceInput
  <2>2. ReferenceLayers(hf)[l] = ReferenceLayer(l, Before(hf, l))
    BY <1>1 DEF Layers, Before
  <2>3. ReferenceSum(l, Before(hf, l)) = Added(hf, l)
    BY DEF ReferenceSum, Added, Attended, Attending, Entering
  <2>4. ReferenceLayer(l, Before(hf, l)) = <<<<"mlp", l, Normed(hf, l)>>, Added(hf, l)>>
    BY <2>3 DEF ReferenceLayer, Normed
  <2> QED  BY <2>1, <2>2, <2>4
<1>4. ReferenceLogits(hf) = <<"lm_head", 0, Final(hf)>>
  BY DEF ReferenceLogits, Final
<1> QED  BY <1>2, <1>3, <1>4

-----------------------------------------------------------------------------
(* Buffers                                                                 *)

Holds(h, b, term) == b \in DOMAIN h /\ h[b] = term
Both(h, f, x, y) ==
    f.hidden # f.residual /\ Holds(h, f.hidden, x) /\ Holds(h, f.residual, y)

(* A buffer no variable names.                                             *)
LEMMA NewBufferIsFree == NewBuffer \in 1 .. 4 /\ NewBuffer \notin Live
<1>1. IsFiniteSet(1 .. 4)
  <2>1. 1 \in Int /\ 4 \in Int
    OBVIOUS
  <2> QED  BY <2>1, FS_Interval
<1>2. \E b \in 1 .. 4 : b \notin Live
  <2>1. PICK x, y : x = fwd.hidden /\ y = fwd.residual
    OBVIOUS
  <2>2. \E b \in 1 .. 4 : b # x /\ b # y
    <3>1. 1 \in 1 .. 4 /\ 2 \in 1 .. 4 /\ 3 \in 1 .. 4
      OBVIOUS
    <3>2. (1 # x /\ 1 # y) \/ (2 # x /\ 2 # y) \/ (3 # x /\ 3 # y)
      OBVIOUS
    <3> QED  BY <3>1, <3>2
  <2> QED  BY <2>1, <2>2 DEF Live
<1>3. \E s \in SUBSET (1 .. 4) : Cardinality(s) = 1 /\ s \cap Live = {}
  <2>1. PICK b \in 1 .. 4 : b \notin Live
    BY <1>2
  <2>2. {b} \in SUBSET (1 .. 4) /\ Cardinality({b}) = 1 /\ {b} \cap Live = {}
    BY <2>1, FS_Singleton
  <2> QED  BY <2>2
<1>4. PICK s \in SUBSET (1 .. 4) : s = NewBuffers(1) /\ Cardinality(s) = 1 /\ s \cap Live = {}
  BY <1>3 DEF NewBuffers
<1>5. PICK x : s = {x}
  <2>1. IsFiniteSet(s)
    BY <1>1, FS_Subset
  <2> QED  BY <1>4, <2>1, FS_Singleton
<1>6. x \in 1 .. 4 /\ x \notin Live
  BY <1>4, <1>5
<1>7. Min({x}) = x
  BY <1>6 DEF Min
<1> QED  BY <1>4, <1>5, <1>6, <1>7 DEF NewBuffer

(* Two of them.                                                            *)
LEMMA TwoFree ==
    \E p \in (1 .. 4) \X (1 .. 4) : p[1] # p[2] /\ {p[1], p[2]} \cap Live = {}
<1>1. PICK x, y : x = fwd.hidden /\ y = fwd.residual
  OBVIOUS
<1>2. \E b, c \in 1 .. 4 : b # c /\ {b, c} \cap {x, y} = {}
  <2> DEFINE Free(b) == b # x /\ b # y
  <2>1. \/ (Free(1) /\ Free(2)) \/ (Free(1) /\ Free(3)) \/ (Free(1) /\ Free(4))
        \/ (Free(2) /\ Free(3)) \/ (Free(2) /\ Free(4)) \/ (Free(3) /\ Free(4))
    OBVIOUS
  <2>2. \A b, c \in 1 .. 4 : b # c /\ Free(b) /\ Free(c) => {b, c} \cap {x, y} = {}
    OBVIOUS
  <2>3. 1 \in 1 .. 4 /\ 2 \in 1 .. 4 /\ 3 \in 1 .. 4 /\ 4 \in 1 .. 4
    OBVIOUS
  <2> HIDE DEF Free
  <2> QED  BY <2>1, <2>2, <2>3
<1>3. PICK b \in 1 .. 4, c \in 1 .. 4 : b # c /\ {b, c} \cap Live = {}
  BY <1>1, <1>2 DEF Live
<1>4. <<b, c>> \in (1 .. 4) \X (1 .. 4) /\ <<b, c>>[1] = b /\ <<b, c>>[2] = c
  OBVIOUS
<1> QED  BY <1>3, <1>4

LEMMA StoreFacts ==
    ASSUME NEW b \in 1 .. 4, NEW term, DOMAIN heap \subseteq 1 .. 4
    PROVE  /\ DOMAIN Store(b, term) \subseteq 1 .. 4
           /\ Holds(Store(b, term), b, term)
           /\ \A c, x : c # b /\ Holds(heap, c, x) => Holds(Store(b, term), c, x)
  BY DEF Store, Holds

LEMMA StoresFacts ==
    ASSUME NEW b \in 1 .. 4, NEW c \in 1 .. 4, b # c, NEW s, NEW t, DOMAIN heap \subseteq 1 .. 4
    PROVE  /\ DOMAIN Stores(b, s, c, t) \subseteq 1 .. 4
           /\ Holds(Stores(b, s, c, t), b, s) /\ Holds(Stores(b, s, c, t), c, t)
  BY DEF Stores, Holds

-----------------------------------------------------------------------------
(* The state of a forward pass, between two of its steps.  Where two tensors *)
(* are still needed they are in different buffers; that is why no in-place   *)
(* norm of a later step can harm one of them.                               *)
Places == {"embed", "input_norm", "attention", "post_norm", "mlp", "final_norm", "lm_head", "done"}

Stage(hf, f, h) ==
    LET l == f.layer
        last == ReferenceLayers(hf)[hf.layers]
    IN  /\ DOMAIN f = {"at", "layer", "hidden", "residual"} /\ f.at \in Places
        /\ DOMAIN h \subseteq 1 .. 4
        /\ f.hidden \in 0 .. 4 /\ f.residual \in 0 .. 4
        /\ f.at \in {"input_norm", "attention", "post_norm", "mlp"} => l \in Layers(hf)
        /\ f.at = "embed" => f.residual = 0
        /\ f.at = "input_norm" /\ l = 1 =>
            f.residual = 0 /\ Holds(h, f.hidden, Entering(hf, 1))
        /\ f.at = "input_norm" /\ l # 1 => Both(h, f, Before(hf, l)[1], Before(hf, l)[2])
        /\ f.at = "attention" => Both(h, f, Attending(hf, l), Entering(hf, l))
        /\ f.at = "post_norm" => Both(h, f, Attended(hf, l), Entering(hf, l))
        /\ f.at = "mlp" => Both(h, f, Normed(hf, l), Added(hf, l))
        /\ f.at = "final_norm" => Both(h, f, last[1], last[2])
        /\ f.at = "lm_head" => Holds(h, f.hidden, Final(hf))
        /\ f.at = "done" => Holds(h, f.hidden, ReferenceLogits(hf))

ForwardInv == phase = "forward" => Stage(config.hf, fwd, heap)

(* The fused norm, in place or not: the sum of the two tensors, and its norm, *)
(* in two buffers.                                                         *)
LEMMA AddNormFacts ==
    ASSUME FloatCopies, DOMAIN heap \subseteq 1 .. 4, NEW name, NEW next, NEW layer,
           NEW x, NEW y, Both(heap, fwd, x, y), AddNorm(name, next, layer)
    PROVE  /\ DOMAIN fwd' = {"at", "layer", "hidden", "residual"}
           /\ fwd'.at = next /\ fwd'.layer = layer
           /\ fwd'.hidden \in 1 .. 4 /\ fwd'.residual \in 1 .. 4
           /\ DOMAIN heap' \subseteq 1 .. 4
           /\ Both(heap', fwd', Rms(name, Sum(x, y)), Sum(x, y))
<1> DEFINE fresh == CHOOSE p \in (1 .. 4) \X (1 .. 4) :
                        p[1] # p[2] /\ {p[1], p[2]} \cap Live = {}
           target == IF provider["fused_add_rms_norm"] = "flashinfer"
                     THEN <<fwd.hidden, fwd.residual>> ELSE fresh
<1>1. fresh \in (1 .. 4) \X (1 .. 4) /\ fresh[1] # fresh[2]
  BY TwoFree
<1>2. /\ fwd.hidden \in 1 .. 4 /\ fwd.residual \in 1 .. 4 /\ fwd.hidden # fwd.residual
      /\ heap[fwd.hidden] = x /\ heap[fwd.residual] = y
  BY DEF Both, Holds
<1>3. /\ heap' = Stores(target[1], Rms(name, Sum(x, y)), target[2], Sum(x, y))
      /\ fwd' = [at |-> next, layer |-> layer, hidden |-> target[1], residual |-> target[2]]
  BY <1>2 DEF AddNorm
<1> HIDE DEF fresh
<1>4. target[1] \in 1 .. 4 /\ target[2] \in 1 .. 4 /\ target[1] # target[2]
  BY <1>1, <1>2
<1> HIDE DEF target
<1>5. PICK b, c, s, t : /\ b = target[1] /\ c = target[2]
                        /\ s = Rms(name, Sum(x, y)) /\ t = Sum(x, y)
  OBVIOUS
<1>6. DOMAIN heap' \subseteq 1 .. 4 /\ Holds(heap', b, s) /\ Holds(heap', c, t)
  BY <1>3, <1>4, <1>5, StoresFacts
<1>7. fwd'.hidden = b /\ fwd'.residual = c /\ fwd'.at = next /\ fwd'.layer = layer
      /\ DOMAIN fwd' = {"at", "layer", "hidden", "residual"}
  BY <1>3, <1>5
<1> QED  BY <1>4, <1>5, <1>6, <1>7 DEF Both

(* A layer leaves its term in a new buffer.                                 *)
LEMMA LayerFacts ==
    ASSUME DOMAIN heap \subseteq 1 .. 4, NEW term, heap' = Store(NewBuffer, term),
           fwd'.hidden = NewBuffer
    PROVE  /\ fwd'.hidden \in 1 .. 4 /\ DOMAIN heap' \subseteq 1 .. 4
           /\ Holds(heap', fwd'.hidden, term)
           /\ \A y : Holds(heap, fwd.residual, y) =>
                fwd'.hidden # fwd.residual /\ Holds(heap', fwd.residual, y)
<1>1. NewBuffer \in 1 .. 4 /\ NewBuffer # fwd.residual
  BY NewBufferIsFree DEF Live
<1> QED  BY <1>1, StoreFacts

(* What a step of the forward pass may assume.                              *)
Forwards == phase = "forward" /\ ConfigInv /\ BuiltInv /\ LoadInv /\ ForwardInv

LEMMA StageFacts ==
    ASSUME Forwards
    PROVE  /\ Stage(config.hf, fwd, heap) /\ DOMAIN heap \subseteq 1 .. 4
           /\ DOMAIN fwd = {"at", "layer", "hidden", "residual"}
           /\ config.hf.layers \in Nat \ {0}
           /\ FloatCopies
  BY ConfigFacts, ForwardFacts DEF Forwards, ForwardInv, Stage

LEMMA EmbedStep ==
    ASSUME Forwards, Embed
    PROVE  Stage(config.hf, fwd', heap')
<1> DEFINE hf == config.hf
           term == <<"embed", 0, "input_ids">>
<1>1. /\ fwd.at = "embed" /\ fwd.residual = 0 /\ DOMAIN heap \subseteq 1 .. 4
      /\ DOMAIN fwd = {"at", "layer", "hidden", "residual"} /\ hf.layers \in Nat \ {0}
  BY StageFacts DEF Embed, Forwarding, Stage
<1>2. /\ heap' = Store(NewBuffer, Computed(EmbeddingAddsUp(hf, tp, params), "embed", 0, "input_ids"))
      /\ fwd' = [fwd EXCEPT !.at = "input_norm", !.layer = 1, !.hidden = NewBuffer]
  BY DEF Embed
<1>3. EmbeddingAddsUp(hf, tp, params)
  BY ForwardFacts DEF Forwards
<1>4. heap' = Store(NewBuffer, term)
  BY <1>2, <1>3 DEF Computed
<1>5. /\ fwd'.at = "input_norm" /\ fwd'.layer = 1 /\ fwd'.hidden = NewBuffer /\ fwd'.residual = 0
      /\ DOMAIN fwd' = {"at", "layer", "hidden", "residual"}
  BY <1>1, <1>2
<1>6. fwd'.hidden \in 1 .. 4 /\ DOMAIN heap' \subseteq 1 .. 4 /\ Holds(heap', fwd'.hidden, term)
  BY <1>1, <1>4, <1>5, LayerFacts
<1>7. Entering(hf, 1) = term /\ 1 \in Layers(hf)
  BY <1>1, ReferenceFacts DEF Layers
<1> HIDE DEF hf, term
<1>8. Stage(hf, fwd', heap')
  BY <1>5, <1>6, <1>7 DEF Stage, Places
<1> QED  BY <1>8 DEF hf

LEMMA InputNormStep ==
    ASSUME Forwards, InputNorm
    PROVE  Stage(config.hf, fwd', heap')
<1> DEFINE hf == config.hf
           l == fwd.layer
           name == <<l, "input_layernorm">>
<1>1. /\ fwd.at = "input_norm" /\ l \in Layers(hf) /\ DOMAIN heap \subseteq 1 .. 4
      /\ DOMAIN fwd = {"at", "layer", "hidden", "residual"} /\ hf.layers \in Nat \ {0}
      /\ l = 1 => fwd.residual = 0 /\ Holds(heap, fwd.hidden, Entering(hf, 1))
      /\ l # 1 => Both(heap, fwd, Before(hf, l)[1], Before(hf, l)[2])
      /\ FloatCopies
  BY StageFacts DEF InputNorm, Forwarding, Stage
<1>2. Weight(name) = <<name, 0>>
  BY <1>1, ForwardFacts DEF Forwards
<1>3. \A x : Rms(name, x) = ReferenceNorm(l, "input_layernorm", x)
  BY <1>2 DEF Rms, ReferenceNorm
<1>4. CASE l = 1
  <2>1. /\ heap' = Store(NewBuffer, Rms(name, heap[fwd.hidden]))
        /\ fwd' = [fwd EXCEPT !.at = "attention", !.hidden = NewBuffer, !.residual = fwd.hidden]
    BY <1>1, <1>4 DEF InputNorm, Norm
  <2>2. /\ fwd'.at = "attention" /\ fwd'.layer = l /\ fwd'.hidden = NewBuffer
        /\ fwd'.residual = fwd.hidden /\ DOMAIN fwd' = {"at", "layer", "hidden", "residual"}
    BY <1>1, <2>1
  <2>3. heap[fwd.hidden] = Entering(hf, l) /\ Holds(heap, fwd.hidden, Entering(hf, l))
    BY <1>1, <1>4 DEF Holds
  <2>4. heap' = Store(NewBuffer, Attending(hf, l))
    BY <1>3, <2>1, <2>3 DEF Attending
  <2>5. NewBuffer \in 1 .. 4 /\ NewBuffer # fwd.hidden
    BY NewBufferIsFree DEF Live
  <2>6. /\ DOMAIN heap' \subseteq 1 .. 4 /\ Holds(heap', NewBuffer, Attending(hf, l))
        /\ Holds(heap', fwd.hidden, Entering(hf, l))
    BY <1>1, <2>3, <2>4, <2>5, StoreFacts
  <2>7. fwd.hidden \in 1 .. 4
    BY <1>1, <2>3 DEF Holds
  <2> HIDE DEF hf, l
  <2> QED
    BY <1>1, <2>2, <2>5, <2>6, <2>7 DEF Stage, Places, Both, hf
<1>5. CASE l # 1
  <2>1. fwd.residual # 0 /\ Both(heap, fwd, Before(hf, l)[1], Before(hf, l)[2])
    BY <1>1, <1>5 DEF Both, Holds
  <2>2. AddNorm(name, "attention", l)
    BY <2>1 DEF InputNorm
  <2>3. Sum(Before(hf, l)[1], Before(hf, l)[2]) = Entering(hf, l)
    BY <1>1, <1>5, ReferenceFacts
  <2> HIDE DEF hf, l, name
  <2>4. PICK x, y : x = Before(hf, l)[1] /\ y = Before(hf, l)[2]
    OBVIOUS
  <2>5. /\ DOMAIN fwd' = {"at", "layer", "hidden", "residual"}
        /\ fwd'.at = "attention" /\ fwd'.layer = l
        /\ fwd'.hidden \in 1 .. 4 /\ fwd'.residual \in 1 .. 4
        /\ DOMAIN heap' \subseteq 1 .. 4
        /\ Both(heap', fwd', Rms(name, Sum(x, y)), Sum(x, y))
    BY <1>1, <2>1, <2>2, <2>4, AddNormFacts
  <2>6. Rms(name, Sum(x, y)) = Attending(hf, l) /\ Sum(x, y) = Entering(hf, l)
    BY <1>3, <2>3, <2>4 DEF Attending
  <2> QED
    BY <1>1, <2>5, <2>6 DEF Stage, Places, hf
<1> QED  BY <1>4, <1>5

LEMMA SelfAttentionStep ==
    ASSUME Forwards, SelfAttention
    PROVE  Stage(config.hf, fwd', heap')
<1> DEFINE hf == config.hf
           l == fwd.layer
<1>1. /\ fwd.at = "attention" /\ l \in Layers(hf) /\ DOMAIN heap \subseteq 1 .. 4
      /\ DOMAIN fwd = {"at", "layer", "hidden", "residual"}
      /\ Both(heap, fwd, Attending(hf, l), Entering(hf, l))
  BY StageFacts DEF SelfAttention, Forwarding, Stage
<1>2. /\ heap' = Store(NewBuffer, Computed(AttentionAddsUp(hf, tp, params, l) /\ RopeUsable,
                                           "attention", l, heap[fwd.hidden]))
      /\ fwd' = [fwd EXCEPT !.at = "post_norm", !.hidden = NewBuffer]
  BY DEF SelfAttention
<1>3. AttentionAddsUp(hf, tp, params, l) /\ RopeUsable
  BY <1>1, ForwardFacts DEF Forwards
<1>4. heap' = Store(NewBuffer, Attended(hf, l))
  BY <1>1, <1>2, <1>3 DEF Computed, Attended, Both, Holds
<1>5. /\ fwd'.at = "post_norm" /\ fwd'.layer = l /\ fwd'.hidden = NewBuffer
      /\ fwd'.residual = fwd.residual /\ DOMAIN fwd' = {"at", "layer", "hidden", "residual"}
  BY <1>1, <1>2
<1> HIDE DEF hf, l
<1>6. /\ fwd'.hidden \in 1 .. 4 /\ DOMAIN heap' \subseteq 1 .. 4
      /\ Holds(heap', fwd'.hidden, Attended(hf, l))
      /\ fwd'.hidden # fwd.residual /\ Holds(heap', fwd.residual, Entering(hf, l))
  BY <1>1, <1>4, <1>5, LayerFacts DEF Both
<1>7. fwd.residual \in 0 .. 4
  BY StageFacts DEF Stage
<1> QED  BY <1>1, <1>5, <1>6, <1>7 DEF Stage, Places, Both, hf

LEMMA PostNormStep ==
    ASSUME Forwards, PostNorm
    PROVE  Stage(config.hf, fwd', heap')
<1> DEFINE hf == config.hf
           l == fwd.layer
           name == <<l, "post_attention_layernorm">>
<1>1. /\ fwd.at = "post_norm" /\ l \in Layers(hf) /\ DOMAIN heap \subseteq 1 .. 4
      /\ FloatCopies /\ Both(heap, fwd, Attended(hf, l), Entering(hf, l))
  BY StageFacts DEF PostNorm, Forwarding, Stage
<1>2. Weight(name) = <<name, 0>>
  BY <1>1, ForwardFacts DEF Forwards
<1>3. \A x : Rms(name, x) = ReferenceNorm(l, "post_attention_layernorm", x)
  BY <1>2 DEF Rms, ReferenceNorm
<1>4. AddNorm(name, "mlp", l)
  BY DEF PostNorm
<1> HIDE DEF hf, l, name
<1>5. PICK x, y : x = Attended(hf, l) /\ y = Entering(hf, l)
  OBVIOUS
<1>6. /\ DOMAIN fwd' = {"at", "layer", "hidden", "residual"}
      /\ fwd'.at = "mlp" /\ fwd'.layer = l
      /\ fwd'.hidden \in 1 .. 4 /\ fwd'.residual \in 1 .. 4
      /\ DOMAIN heap' \subseteq 1 .. 4
      /\ Both(heap', fwd', Rms(name, Sum(x, y)), Sum(x, y))
  BY <1>1, <1>4, <1>5, AddNormFacts
<1>7. Rms(name, Sum(x, y)) = Normed(hf, l) /\ Sum(x, y) = Added(hf, l)
  BY <1>3, <1>5 DEF Normed, Added
<1> QED  BY <1>1, <1>6, <1>7 DEF Stage, Places, hf

(* Whatever kernel runs on the ranks, the rows it makes are those of the     *)
(* activation.                                                             *)
LEMMA ActivationFacts ==
    ASSUME Forwards, NEW l \in Layers(config.hf)
    PROVE  MlpAddsUp(config.hf, tp, params, l, [rank \in Indices(tp) |->
                Activation(params[rank][<<l, "gate_up_proj">>], config.hf.inter \div tp)])
<1> DEFINE hf == config.hf
           c == hf.inter \div tp
           rows == [rank \in Indices(tp) |-> Activation(params[rank][<<l, "gate_up_proj">>], c)]
<1>1. /\ MlpAddsUp(hf, tp, params, l, ActiveRows(hf, tp, params, l))
      /\ MlpAddsUp(hf, tp, params, l, KernelRows(hf, tp, params, l))
  BY ForwardFacts DEF Forwards
<1>2. CASE SiluOfRank(c) = "custom_cuda"
  <2>1. rows = KernelRows(hf, tp, params, l)
    BY <1>2 DEF KernelRows, ActivatedByKernel, GateUp, Columns, Activation
  <2> QED  BY <1>1, <2>1
<1>3. CASE SiluOfRank(c) # "custom_cuda"
  <2>1. rows = ActiveRows(hf, tp, params, l)
    BY <1>3 DEF ActiveRows, Activated, GateUp, Columns, Activation
  <2> QED  BY <1>1, <2>1
<1> QED  BY <1>2, <1>3

LEMMA MlpStep ==
    ASSUME Forwards, Mlp
    PROVE  Stage(config.hf, fwd', heap')
<1> DEFINE hf == config.hf
           l == fwd.layer
           term == <<"mlp", l, Normed(hf, l)>>
           ends == l = hf.layers
<1>1. /\ fwd.at = "mlp" /\ l \in Layers(hf) /\ DOMAIN heap \subseteq 1 .. 4
      /\ DOMAIN fwd = {"at", "layer", "hidden", "residual"} /\ hf.layers \in Nat \ {0}
      /\ Both(heap, fwd, Normed(hf, l), Added(hf, l)) /\ fwd.residual \in 0 .. 4
  BY StageFacts DEF Mlp, Forwarding, Stage
<1>2. /\ heap' = Store(NewBuffer, Computed(MlpAddsUp(hf, tp, params, l, [rank \in Indices(tp) |->
                    Activation(params[rank][<<l, "gate_up_proj">>], hf.inter \div tp)]),
                    "mlp", l, heap[fwd.hidden]))
      /\ fwd' = [fwd EXCEPT !.at = IF ends THEN "final_norm" ELSE "input_norm",
                            !.layer = IF ends THEN 0 ELSE @ + 1, !.hidden = NewBuffer]
  BY DEF Mlp
<1>3. MlpAddsUp(hf, tp, params, l, [rank \in Indices(tp) |->
            Activation(params[rank][<<l, "gate_up_proj">>], hf.inter \div tp)])
  BY <1>1, ActivationFacts
<1>4. heap' = Store(NewBuffer, term)
  BY <1>1, <1>2, <1>3 DEF Computed, Both, Holds
<1>5. /\ fwd'.at = IF ends THEN "final_norm" ELSE "input_norm"
      /\ fwd'.layer = IF ends THEN 0 ELSE l + 1
      /\ fwd'.hidden = NewBuffer /\ fwd'.residual = fwd.residual
      /\ DOMAIN fwd' = {"at", "layer", "hidden", "residual"}
  BY <1>1, <1>2
<1>6. term = ReferenceLayers(hf)[l][1] /\ Added(hf, l) = ReferenceLayers(hf)[l][2]
  BY <1>1, ReferenceFacts
<1>7. l \in 1 .. hf.layers /\ (~ends => l + 1 \in Layers(hf) /\ l + 1 # 1 /\ (l + 1) - 1 = l)
  BY <1>1 DEF Layers
<1> HIDE DEF hf, l, term
<1>8. /\ fwd'.hidden \in 1 .. 4 /\ DOMAIN heap' \subseteq 1 .. 4
      /\ Holds(heap', fwd'.hidden, term)
      /\ fwd'.hidden # fwd.residual /\ Holds(heap', fwd.residual, Added(hf, l))
  BY <1>1, <1>4, <1>5, LayerFacts DEF Both
<1>9. Both(heap', fwd', ReferenceLayers(hf)[l][1], ReferenceLayers(hf)[l][2])
  BY <1>5, <1>6, <1>8 DEF Both
<1>10. CASE ends
  BY <1>1, <1>5, <1>8, <1>9, <1>10 DEF Stage, Places, hf
<1>11. CASE ~ends
  <2>1. fwd'.layer = l + 1 /\ fwd'.at = "input_norm" /\ ReferenceLayers(hf)[l] = Before(hf, l + 1)
    BY <1>5, <1>7, <1>11 DEF Before
  <2> QED  BY <1>1, <1>5, <1>7, <1>8, <1>9, <1>11, <2>1 DEF Stage, Places, hf
<1> QED  BY <1>10, <1>11

LEMMA FinalNormStep ==
    ASSUME Forwards, FinalNorm
    PROVE  Stage(config.hf, fwd', heap')
<1> DEFINE hf == config.hf
           last == ReferenceLayers(hf)[hf.layers]
           name == <<0, "norm">>
<1>1. /\ fwd.at = "final_norm" /\ DOMAIN heap \subseteq 1 .. 4
      /\ FloatCopies /\ Both(heap, fwd, last[1], last[2])
  BY StageFacts DEF FinalNorm, Forwarding, Stage
<1>2. Weight(name) = <<name, 0>>
  BY ForwardFacts DEF Forwards
<1>3. Rms(name, Sum(last[1], last[2])) = Final(hf)
  BY <1>2 DEF Rms, ReferenceNorm, Final
<1>4. AddNorm(name, "lm_head", 0)
  BY DEF FinalNorm
<1> HIDE DEF hf, last, name
<1>5. PICK x, y : x = last[1] /\ y = last[2]
  OBVIOUS
<1>6. /\ DOMAIN fwd' = {"at", "layer", "hidden", "residual"}
      /\ fwd'.at = "lm_head" /\ fwd'.layer = 0
      /\ fwd'.hidden \in 1 .. 4 /\ fwd'.residual \in 1 .. 4
      /\ DOMAIN heap' \subseteq 1 .. 4
      /\ Both(heap', fwd', Rms(name, Sum(x, y)), Sum(x, y))
  BY <1>1, <1>4, <1>5, AddNormFacts
<1>7. Holds(heap', fwd'.hidden, Final(hf))
  BY <1>3, <1>5, <1>6 DEF Both
<1> QED  BY <1>6, <1>7 DEF Stage, Places, hf

LEMMA LmHeadStep ==
    ASSUME Forwards, LmHead
    PROVE  Stage(config.hf, fwd', heap')
<1> DEFINE hf == config.hf
<1>1. /\ fwd.at = "lm_head" /\ DOMAIN heap \subseteq 1 .. 4 /\ fwd.residual \in 0 .. 4
      /\ DOMAIN fwd = {"at", "layer", "hidden", "residual"} /\ hf.layers \in Nat \ {0}
      /\ Holds(heap, fwd.hidden, Final(hf))
  BY StageFacts DEF LmHead, Forwarding, Stage
<1>2. /\ heap' = Store(NewBuffer, Computed(LogitsInOrder(hf, tp, params), "lm_head", 0, heap[fwd.hidden]))
      /\ fwd' = [fwd EXCEPT !.at = "done", !.hidden = NewBuffer]
  BY DEF LmHead
<1>3. LogitsInOrder(hf, tp, params)
  BY ForwardFacts DEF Forwards
<1>4. heap' = Store(NewBuffer, ReferenceLogits(hf))
  BY <1>1, <1>2, <1>3, ReferenceFacts DEF Computed, Holds
<1>5. /\ fwd'.at = "done" /\ fwd'.hidden = NewBuffer /\ fwd'.residual = fwd.residual
      /\ DOMAIN fwd' = {"at", "layer", "hidden", "residual"}
  BY <1>1, <1>2
<1> HIDE DEF hf
<1>6. /\ fwd'.hidden \in 1 .. 4 /\ DOMAIN heap' \subseteq 1 .. 4
      /\ Holds(heap', fwd'.hidden, ReferenceLogits(hf))
  BY <1>1, <1>4, <1>5, LayerFacts
<1> QED  BY <1>1, <1>5, <1>6 DEF Stage, Places, hf

-----------------------------------------------------------------------------
(***************************************************************************)
(* The invariant of an engine                                              *)
(***************************************************************************)

DeviceInv == torch.device \in {"cpu", "cuda"}

EngineInv ==
    ConfigInv /\ CacheOfRopeInv /\ BuiltInv /\ LoadInv /\ ForwardInv /\ DeviceInv

LEMMA EngineInvInit == Init => EngineInv
<1> SUFFICES ASSUME Init PROVE EngineInv
  OBVIOUS
<1> USE DEF Init
<1>1. ConfigInv /\ CacheOfRopeInv /\ DeviceInv
  BY DEF ConfigInv, Phases, CacheOfRopeInv, DeviceInv
<1>2. BuiltInv
  BY EngineProcessAssumption DEF BuiltInv, Backed, Built, None
<1>3. LoadInv /\ ForwardInv
  BY DEF LoadInv, ForwardInv
<1> QED  BY <1>1, <1>2, <1>3 DEF EngineInv

(* An engine that is forgotten leaves its rotary embedding behind, if         *)
(* anything.                                                               *)
LEMMA ForgottenKeeps ==
    ASSUME EngineInv, phase' = "idle", Forgotten, env' = env, attempts' = attempts,
           rope_cache' = rope_cache \/ RopeSound(rope_cache'), torch'.device \in {"cpu", "cuda"}
    PROVE  EngineInv'
<1>1. ConfigInv' /\ DeviceInv'
  BY DEF Forgotten, ConfigInv, Phases, DeviceInv
<1>2. CacheOfRopeInv'
  BY DEF EngineInv, CacheOfRopeInv, RopeSound
<1>3. BuiltInv'
  BY DEF EngineInv, BuiltInv, Forgotten, Backed, Built, None
<1>4. LoadInv' /\ ForwardInv'
  BY DEF LoadInv, ForwardInv
<1> QED  BY <1>1, <1>2, <1>3, <1>4 DEF EngineInv

LEMMA FailKeeps ==
    ASSUME EngineInv, Fail
    PROVE  EngineInv'
  BY ForgottenKeeps DEF Fail, AfterFailure, EngineInv, DeviceInv

(* From the moment the model is built nothing changes what it was built from. *)
LEMMA ModelKept ==
    ASSUME EngineInv, Built, phase' \in {"loading", "forward", "ready"},
           UNCHANGED <<env, rope_cache, attempts, config, backend, provider, rope>>
    PROVE  ConfigInv' /\ CacheOfRopeInv' /\ BuiltInv'
<1>1. ConfigInv'
  BY DEF EngineInv, ConfigInv, Built, Phases
<1>2. CacheOfRopeInv'
  BY DEF EngineInv, CacheOfRopeInv, RopeSound
<1>3. tp' = tp /\ HeadsAccepted' = HeadsAccepted /\ RopeKey' = RopeKey
  BY DEF tp, HeadsAccepted, RopeKey, OpConfig
<1>4. Backed /\ Built' /\ Backed'
  BY DEF Backed, Built
<1>5. BuiltInv'
  BY <1>3, <1>4 DEF EngineInv, BuiltInv, RopeSound
<1> QED  BY <1>1, <1>2, <1>5

LEMMA ConfigureKeeps ==
    ASSUME EngineInv, NEW options \in Options, Configure(options)
    PROVE  EngineInv'
<1>1. /\ phase = "idle" /\ attempts < MaxEngines /\ Valid(options)
      /\ config' = Normalized(options) /\ phase' = "configured" /\ attempts' = attempts + 1
      /\ UNCHANGED <<env, torch, rope_cache, backend, provider, rope>>
  BY DEF Configure, modelVars
<1>2. ConfigInv'
  BY <1>1 DEF ConfigInv, Phases
<1>3. CacheOfRopeInv' /\ DeviceInv'
  BY <1>1 DEF EngineInv, CacheOfRopeInv, RopeSound, DeviceInv
<1>4. BuiltInv'
  BY <1>1, EngineProcessAssumption DEF EngineInv, BuiltInv, Backed, Built
<1>5. LoadInv' /\ ForwardInv'
  BY <1>1 DEF LoadInv, ForwardInv
<1> QED  BY <1>2, <1>3, <1>4, <1>5 DEF EngineInv

LEMMA EnterProcessKeeps ==
    ASSUME EngineInv, EnterProcess
    PROVE  EngineInv'
<1>1. /\ phase = "configured" /\ phase' = "entered" /\ torch'.device = "cuda"
      /\ UNCHANGED <<env, rope_cache, attempts, config, backend, provider, rope>>
  BY DEF EnterProcess, modelVars
<1>2. ConfigInv'
  BY <1>1 DEF EngineInv, ConfigInv, Phases
<1>3. CacheOfRopeInv' /\ DeviceInv'
  BY <1>1 DEF EngineInv, CacheOfRopeInv, RopeSound, DeviceInv
<1>4. BuiltInv'
  BY <1>1 DEF EngineInv, BuiltInv, Backed, Built
<1>5. LoadInv' /\ ForwardInv'
  BY <1>1 DEF LoadInv, ForwardInv
<1> QED  BY <1>2, <1>3, <1>4, <1>5 DEF EngineInv

LEMMA CreateBackendKeeps ==
    ASSUME EngineInv, CreateBackend
    PROVE  EngineInv'
<1>1. /\ phase = "entered" /\ phase' = "backend" /\ CreatedBackend # Raises
      /\ backend' = CreatedBackend
      /\ UNCHANGED <<env, torch, rope_cache, attempts, config, provider, rope>>
  BY DEF CreateBackend, processVars
<1>2. ConfigInv'
  BY <1>1 DEF EngineInv, ConfigInv, Phases
<1>3. CacheOfRopeInv' /\ DeviceInv'
  BY <1>1 DEF EngineInv, CacheOfRopeInv, RopeSound, DeviceInv
<1>4. /\ CreatedBackend \in {"flashattention", "flashinfer"}
      /\ config.hf.dtype \in HalfPrecision /\ HeadsAccepted
  BY <1>1, BackendFacts
<1>5. HeadsAccepted'
  BY <1>1, <1>4 DEF HeadsAccepted, tp
<1>6. BuiltInv'
  BY <1>1, <1>4, <1>5 DEF EngineInv, BuiltInv, Backed, Built
<1>7. LoadInv' /\ ForwardInv'
  BY <1>1 DEF LoadInv, ForwardInv
<1> QED  BY <1>2, <1>3, <1>6, <1>7 DEF EngineInv

LEMMA BuildModelKeeps ==
    ASSUME EngineInv, BuildModel
    PROVE  EngineInv'
<1> DEFINE hit == rope_cache # NoRope /\ rope_cache.key = RopeKey
           built == IF hit THEN rope_cache ELSE NewRope
<1>1. /\ phase = "backend" /\ phase' = "loading" /\ ~ModelRefused
      /\ rope' = built /\ rope_cache' = built
      /\ provider' = [ModelProviders EXCEPT !["rotary_embedding"] = built.provider]
      /\ params' = NewParams(config.hf, tp) /\ unread' = config.hf.files
      /\ UNCHANGED <<env, torch, attempts, config, backend>>
  BY DEF BuildModel
<1>2. ConfigInv'
  BY <1>1 DEF EngineInv, ConfigInv, Phases
<1>3. RopeSound(built) /\ built.key = RopeKey
  <2>1. RopeSound(NewRope) /\ NewRope.key = RopeKey
    BY <1>1, ModelFacts, NewRopeSound
  <2>2. hit => RopeSound(rope_cache)
    BY DEF EngineInv, CacheOfRopeInv
  <2> QED  BY <2>1, <2>2
<1> HIDE DEF built
<1>4. RopeKey' = RopeKey /\ tp' = tp /\ (HeadsAccepted => HeadsAccepted')
  <2>1. RopeKey' = RopeKey /\ tp' = tp
    BY <1>1 DEF RopeKey, OpConfig, tp
  <2>2. HeadsAccepted => HeadsAccepted'
    BY <1>1 DEF HeadsAccepted, tp
  <2> QED  BY <2>1, <2>2
<1>5. CacheOfRopeInv' /\ DeviceInv'
  BY <1>1, <1>3 DEF EngineInv, CacheOfRopeInv, RopeSound, DeviceInv
<1>6. /\ Divisible(config.hf, tp) /\ DOMAIN ModelProviders = Operators
      /\ LET p == ModelProviders["silu_and_mul"]
         IN  /\ p \in {"native_torch", "custom_cuda", "adaptive_cuda", "flashinfer"}
             /\ p \in {"custom_cuda", "adaptive_cuda"} => CustomCudaAvailable(env)
             /\ p \in {"flashinfer", "adaptive_cuda"} => FlashInferAvailable(env)
  BY <1>1, ModelFacts
<1>7. DOMAIN provider' = Operators /\ provider'["silu_and_mul"] = ModelProviders["silu_and_mul"]
  <2>1. "silu_and_mul" \in Operators
    BY DEF Operators, Supported
  <2> QED  BY <1>1, <1>6, <2>1
<1>8. config.hf.dtype \in HalfPrecision /\ HeadsAccepted
  BY <1>1 DEF EngineInv, BuiltInv, Backed
<1>9. BuiltInv'
  BY <1>1, <1>3, <1>4, <1>6, <1>7, <1>8 DEF EngineInv, BuiltInv, RopeSound
<1>10. LoadInv'
  <2>1. /\ Shaped(config.hf, tp, params') /\ config.hf.files \ unread' = {}
        /\ unread' \subseteq config.hf.files /\ phase' # "forward"
    BY <1>1, FreshShaped
  <2> QED  BY <1>1, <1>4, <2>1 DEF LoadInv
<1>11. ForwardInv'
  BY <1>1 DEF ForwardInv
<1> QED  BY <1>2, <1>5, <1>9, <1>10, <1>11 DEF EngineInv

LEMMA BuildModelFailsKeeps ==
    ASSUME EngineInv, BuildModelFails
    PROVE  EngineInv'
<1>1. /\ phase' = "idle" /\ torch' = torch /\ Forgotten /\ env' = env /\ attempts' = attempts
      /\ \/ rope_cache' = rope_cache
         \/ rope_cache' = NewRope /\ ModelProviders["rotary_embedding"] # Raises
  BY DEF BuildModelFails, AfterFailure
<1>2. rope_cache' = rope_cache \/ RopeSound(rope_cache')
  BY <1>1, NewRopeSound
<1> QED  BY <1>1, <1>2, ForgottenKeeps DEF EngineInv, DeviceInv

LEMMA LoadFileKeeps ==
    ASSUME EngineInv, NEW file \in unread, LoadFile(file)
    PROVE  EngineInv'
<1>1. /\ phase = "loading" /\ phase' = phase
      /\ UNCHANGED <<env, torch, rope_cache, attempts, config, backend, provider, rope>>
  BY DEF LoadFile, processVars
<1>2. ConfigInv' /\ CacheOfRopeInv' /\ BuiltInv'
  BY <1>1, ModelKept DEF Built
<1>3. LoadInv'
  BY FileLoaded DEF EngineInv
<1>4. ForwardInv' /\ DeviceInv'
  BY <1>1 DEF ForwardInv, DeviceInv, EngineInv
<1> QED  BY <1>2, <1>3, <1>4 DEF EngineInv

LEMMA StartForwardKeeps ==
    ASSUME EngineInv, StartForward
    PROVE  EngineInv'
<1>1. /\ phase = "loading" /\ phase' = "forward" /\ unread = {} /\ fwd' = NoForward /\ heap' = <<>>
      /\ UNCHANGED <<env, torch, rope_cache, attempts, config, backend, provider, rope, params, unread>>
  BY DEF StartForward, processVars, modelVars
<1>2. ConfigInv' /\ CacheOfRopeInv' /\ BuiltInv'
  BY <1>1, ModelKept DEF Built
<1>3. LoadInv'
  BY <1>1 DEF EngineInv, LoadInv, tp
<1>4. Stage(config'.hf, fwd', heap')
  BY <1>1 DEF Stage, NoForward, Places
<1>5. ForwardInv' /\ DeviceInv'
  BY <1>1, <1>4 DEF ForwardInv, DeviceInv, EngineInv
<1> QED  BY <1>2, <1>3, <1>5 DEF EngineInv

LEMMA ForwardStepKeeps ==
    ASSUME EngineInv, ForwardStep
    PROVE  EngineInv'
<1>1. CASE MlpFails
  BY <1>1, FailKeeps DEF MlpFails
<1>2. CASE Embed \/ InputNorm \/ SelfAttention \/ PostNorm \/ Mlp \/ FinalNorm \/ LmHead
  <2>1. phase = "forward" /\ ForwardUnchanged
    BY <1>2 DEF Embed, InputNorm, SelfAttention, PostNorm, Mlp, FinalNorm, LmHead, Forwarding
  <2>2. UNCHANGED <<phase, env, torch, rope_cache, attempts, config, backend, provider, rope,
                    params, unread>>
    BY <2>1 DEF ForwardUnchanged, processVars, modelVars
  <2>3. ConfigInv' /\ CacheOfRopeInv' /\ BuiltInv'
    BY <2>1, <2>2, ModelKept DEF Built
  <2>4. LoadInv' /\ DeviceInv'
    BY <2>2 DEF EngineInv, LoadInv, DeviceInv, tp
  <2>5. Forwards
    BY <2>1 DEF EngineInv, Forwards
  <2>6. Stage(config.hf, fwd', heap')
    BY <1>2, <2>5, EmbedStep, InputNormStep, SelfAttentionStep, PostNormStep, MlpStep,
       FinalNormStep, LmHeadStep
  <2>7. ForwardInv'
    BY <2>2, <2>6 DEF ForwardInv
  <2> QED  BY <2>3, <2>4, <2>7 DEF EngineInv
<1> QED  BY <1>1, <1>2 DEF ForwardStep

LEMMA ReadyKeeps ==
    ASSUME EngineInv, TorchInv, Ready
    PROVE  EngineInv'
<1>1. /\ phase = "forward" /\ phase' = "ready"
      /\ torch' = [torch EXCEPT !.dtype = saved_dtype, !.device = "cpu"]
      /\ UNCHANGED <<env, rope_cache, attempts, config, backend, provider, rope>>
  BY DEF Ready, modelVars
<1>2. ConfigInv' /\ CacheOfRopeInv' /\ BuiltInv'
  BY <1>1, ModelKept DEF Built
<1>3. DOMAIN torch = {"dtype", "device", "group"}
  BY DEF TorchInv
<1>4. torch'.device = "cpu"
  BY <1>1, <1>3
<1>5. LoadInv' /\ ForwardInv' /\ DeviceInv'
  BY <1>1, <1>4 DEF LoadInv, ForwardInv, DeviceInv
<1> QED  BY <1>2, <1>5 DEF EngineInv

LEMMA ExitKeeps ==
    ASSUME EngineInv, TorchInv, Exit
    PROVE  EngineInv'
<1>1. /\ phase' = "idle" /\ Forgotten /\ torch' = [torch EXCEPT !.group = FALSE]
      /\ UNCHANGED <<env, rope_cache, attempts>>
  BY DEF Exit
<1>2. torch'.device = torch.device
  BY <1>1 DEF TorchInv
<1> QED  BY <1>1, <1>2, ForgottenKeeps DEF EngineInv, DeviceInv

LEMMA EngineInvStep == EngineInv /\ TorchInv /\ [Next]_vars => EngineInv'
<1> SUFFICES ASSUME EngineInv, TorchInv, [Next]_vars PROVE EngineInv'
  OBVIOUS
<1>1. ASSUME NEW options \in Options, Configure(options) PROVE EngineInv'
  BY <1>1, ConfigureKeeps
<1>2. CASE EnterProcess
  BY <1>2, EnterProcessKeeps
<1>3. CASE EnterProcessFails \/ CreateBackendFails
  BY <1>3, FailKeeps DEF EnterProcessFails, CreateBackendFails
<1>4. CASE CreateBackend
  BY <1>4, CreateBackendKeeps
<1>5. CASE BuildModel
  BY <1>5, BuildModelKeeps
<1>6. CASE BuildModelFails
  BY <1>6, BuildModelFailsKeeps
<1>7. ASSUME NEW file \in unread, LoadFile(file) \/ LoadFileFails(file) PROVE EngineInv'
  BY <1>7, LoadFileKeeps, FailKeeps DEF LoadFileFails
<1>8. CASE StartForward
  BY <1>8, StartForwardKeeps
<1>9. CASE ForwardStep
  BY <1>9, ForwardStepKeeps
<1>10. CASE Ready
  BY <1>10, ReadyKeeps
<1>11. CASE Exit
  BY <1>11, ExitKeeps
<1>12. CASE UNCHANGED vars
  <2>1. UNCHANGED <<phase, env, torch, rope_cache, attempts, config, backend, provider, rope,
                    params, unread, heap, fwd>>
    BY <1>12 DEF vars, processVars, modelVars
  <2>2. ConfigInv' /\ DeviceInv' /\ ForwardInv' /\ CacheOfRopeInv'
    BY <2>1 DEF EngineInv, ConfigInv, DeviceInv, ForwardInv, CacheOfRopeInv, RopeSound
  <2>3. LoadInv'
    BY <2>1 DEF EngineInv, LoadInv, tp
  <2>4. tp' = tp /\ (HeadsAccepted => HeadsAccepted') /\ RopeKey' = RopeKey
    BY <2>1 DEF tp, HeadsAccepted, RopeKey, OpConfig
  <2>5. BuiltInv'
    BY <2>1, <2>4 DEF EngineInv, BuiltInv, Backed, Built, RopeSound
  <2> QED  BY <2>2, <2>3, <2>5 DEF EngineInv
<1> QED
  BY <1>1, <1>2, <1>3, <1>4, <1>5, <1>6, <1>7, <1>8, <1>9, <1>10, <1>11, <1>12
  DEF Next, Stopped

LEMMA EngineInvHolds == Spec => []EngineInv
  BY EngineInvInit, EngineInvStep, TorchInvHolds, PTL DEF Spec

(* Every variable of the process ranges over its domain.                    *)
THEOREM ProcessTypeCorrect == Spec => []ProcTypeOK
<1>1. EngineInv /\ TorchInv => ProcTypeOK
  <2> SUFFICES ASSUME EngineInv, TorchInv PROVE ProcTypeOK
    OBVIOUS
  <2>1. phase \in Phases /\ (phase = "idle" <=> config = NoConfig)
    BY ConfigFacts DEF EngineInv, ConfigInv
  <2>2. phase # "idle" =>
            /\ config.cudagraph_mode \in Policies
            /\ config.enforce_eager <=> config.cudagraph_mode = "none"
            /\ config.max_model_len \in 0 .. config.hf.max_position
    BY ConfigFacts DEF EngineInv
  <2>3. torch.group \in BOOLEAN /\ torch.device \in {"cpu", "cuda"}
    BY DEF EngineInv, TorchInv, DeviceInv
  <2>4. phase = "forward" => DOMAIN heap \subseteq 1 .. 4 /\ Live \subseteq 0 .. 4
    BY DEF EngineInv, ForwardInv, Stage, Live
  <2> QED  BY <2>1, <2>2, <2>3, <2>4 DEF ProcTypeOK, EngineInv, BuiltInv
<1> QED  BY <1>1, EngineInvHolds, TorchInvHolds, PTL

(* A forward pass that ends returns what one rank with the whole model would  *)
(* compute, whatever the sharding, the order of the files of the checkpoint, *)
(* the implementations that were bound and the engines the process built    *)
(* before: no weight is misplaced, no rotary embedding is a stale one, no   *)
(* in-place norm overwrites a tensor that is still needed.                  *)
THEOREM ForwardMatchesReference == Spec => []ForwardIsReference
<1>1. EngineInv => ForwardIsReference
  BY DEF EngineInv, ForwardInv, Stage, Holds, ForwardIsReference, Forwarding
<1> QED  BY <1>1, EngineInvHolds, PTL

(* The row of a rank has an even width, so that the in-tree kernel takes it:  *)
(* where that kernel is bound, or stands in for FlashInfer, no layout is     *)
(* refused.                                                                *)
THEOREM ActivationNeverStuck == Spec => []ActivationRuns
<1>1. EngineInv => ActivationRuns
  <2> SUFFICES ASSUME EngineInv, phase = "forward", SiluRefuses
               PROVE  provider["silu_and_mul"] = "flashinfer"
    BY DEF ActivationRuns, Forwarding
  <2>1. Built /\ Backed
    BY DEF Built, Backed
  <2>2. PICK c \in Nat \ {0} : c = Columns(config.hf, tp)
    BY <2>1, BuiltShape DEF EngineInv
  <2>3. PICK p : p = provider["silu_and_mul"]
    OBVIOUS
  <2>4. /\ p \in {"native_torch", "custom_cuda", "adaptive_cuda", "flashinfer"}
        /\ p \in {"custom_cuda", "adaptive_cuda"} => CustomCudaAvailable(env)
        /\ p \in {"flashinfer", "adaptive_cuda"} => FlashInferAvailable(env)
        /\ config.hf.dtype \in HalfPrecision
    BY <2>1, <2>3 DEF EngineInv, BuiltInv
  <2>5. 2 * c > 0 /\ (2 * c) % 2 = 0
    BY <2>2
  <2>6. PICK kernel : kernel = SiluOfRank(c)
    OBVIOUS
  <2>7. ~SiluAccepts(kernel, env, config.hf.dtype, 2 * c)
    BY <2>2, <2>6 DEF SiluRefuses, Columns
  <2>8. /\ p = "adaptive_cuda" =>
            \/ kernel = "custom_cuda"
            \/ kernel = "flashinfer" /\ FlashInferCompatible(2 * c, config.hf.dtype)
        /\ p # "adaptive_cuda" => kernel = p
    BY <2>3, <2>6 DEF SiluOfRank, SiluKernel, AdaptiveKernel
  <2>9. kernel # "custom_cuda" \/ ~CustomCudaAvailable(env)
    BY <2>4, <2>5, <2>7 DEF SiluAccepts
  <2>10. kernel = "flashinfer" => ~FlashInferAvailable(env) \/ ~FlashInferCompatible(2 * c, config.hf.dtype)
    BY <2>4, <2>7 DEF SiluAccepts
  <2>11. kernel # "native_torch"
    BY <2>7 DEF SiluAccepts
  <2> QED  BY <2>3, <2>4, <2>8, <2>9, <2>10, <2>11
<1> QED  BY <1>1, EngineInvHolds, PTL
=============================================================================
