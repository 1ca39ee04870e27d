-------------------------- MODULE OperatorDispatch --------------------------
(***************************************************************************)
(* The choice of an implementation for each ordinary operator, made once   *)
(* in the constructor of the operator (nanovllm/layers: custom_op.py,      *)
(* activation.py, layernorm.py, rotary_embedding.py, attention.py), from    *)
(* the CustomOpConfig of the model and from the optional packages that      *)
(* cuda_ops.py and flashinfer_ops.py could import.                         *)
(*                                                                         *)
(* config is a CustomOpConfig [platform, dtype, overrides]: overrides is a  *)
(* function from some operators to the implementation asked for.            *)
(* env is what the process finds: [flashinfer, jit_cache, custom,           *)
(* flash_attn : BOOLEAN, device : "rtx5070" or "sm90", cuda129 : BOOLEAN].  *)
(***************************************************************************)
EXTENDS Naturals

CONSTANTS
    AdaptiveWidth,      \* the width that was measured: 6144
    AdaptiveMinTokens   \* the rows from which FlashInfer is faster: 128

ASSUME AdaptiveAssumption == AdaptiveWidth \in Nat \ {0} /\ AdaptiveMinTokens \in Nat

Raises == "raises"      \* the constructor ends with an exception

Native == {"native", "native_torch"}
FlashInferChoices == {"auto", "flashinfer"} \cup Native

(* The implementations an operator knows.                                  *)
Supported ==
    [silu_and_mul |-> FlashInferChoices \cup {"custom_cuda", "adaptive_cuda"},
     rms_norm |-> FlashInferChoices,
     fused_add_rms_norm |-> FlashInferChoices,
     rotary_embedding |-> FlashInferChoices,
     kv_cache_store |-> {"auto", "native_triton"} \cup Native]

Operators == DOMAIN Supported

ImplementationFor(config, op) ==
    IF op \in DOMAIN config.overrides THEN config.overrides[op] ELSE "auto"

(* The platform the operator is built for; "auto" looks at the default      *)
(* device of torch at that moment.                                         *)
Platform(config, default_device) ==
    IF config.platform = "auto" THEN default_device ELSE config.platform

HalfPrecision == {"float16", "bfloat16"}
DtypeSupported(config) == config.dtype \in HalfPrecision \cup {"none"}

-----------------------------------------------------------------------------
(* Optional packages                                                       *)

(* _prepare_flashinfer_environment and the imports that follow: SM 12.x     *)
(* with CUDA < 12.9 needs the jit cache.                                   *)
FlashInferAvailable(env) ==
    /\ env.device = "rtx5070" /\ ~env.cuda129 => env.jit_cache
    /\ env.flashinfer
CustomCudaAvailable(env) == env.custom

-----------------------------------------------------------------------------
(* Selection                                                               *)

(* An unknown name, or one that needs CUDA on another platform.             *)
Refused(config, op, platform) ==
    LET implementation == ImplementationFor(config, op)
    IN  \/ implementation \notin Supported[op]
        \/ platform # "cuda" /\ implementation \notin {"auto"} \cup Native

(* get_custom_silu_and_mul, get_adaptive_silu_and_mul, _require_flashinfer:  *)
(* asking for an implementation that could not be imported raises.          *)
Require(available, provider) == IF available THEN provider ELSE Raises

(* SiluAndMul._select_cuda_impl                                            *)
SelectSilu(config, platform, env) ==
    LET implementation == ImplementationFor(config, "silu_and_mul")
        custom == CustomCudaAvailable(env)
        flashinfer == FlashInferAvailable(env)
    IN  IF Refused(config, "silu_and_mul", platform) THEN Raises
        ELSE IF implementation \in Native \/ platform # "cuda" THEN "native_torch"
        ELSE IF implementation # "auto" /\ ~DtypeSupported(config) THEN Raises
        ELSE IF implementation = "adaptive_cuda" THEN Require(custom /\ flashinfer, "adaptive_cuda")
        ELSE IF implementation = "custom_cuda" THEN Require(custom, "custom_cuda")
        ELSE IF implementation = "flashinfer" THEN Require(flashinfer, "flashinfer")
        ELSE IF ~DtypeSupported(config) THEN "native_torch"
        ELSE IF custom /\ flashinfer THEN "adaptive_cuda"
        ELSE IF custom THEN "custom_cuda"
        ELSE IF flashinfer THEN "flashinfer"
        ELSE "native_torch"

\* Faulty variant: an explicit choice that is unavailable falls back silently.
SelectFlashInferOrNative(config, op, platform, env) ==
    LET implementation == ImplementationFor(config, op)
    IN  IF Refused(config, op, platform) THEN Raises
        ELSE IF implementation \in Native \/ platform # "cuda" THEN "native_torch"
        ELSE IF FlashInferAvailable(env) /\ DtypeSupported(config) THEN "flashinfer"
        ELSE "native_torch"

(* RMSNorm._select_impl, RotaryEmbedding._select_cuda_impl                  *)
SelectFlashInfer(config, op, platform, env) ==
    LET implementation == ImplementationFor(config, op)
        available == FlashInferAvailable(env) /\ DtypeSupported(config)
    IN  IF Refused(config, op, platform) THEN Raises
        ELSE IF implementation \in Native \/ platform # "cuda" THEN "native_torch"
        ELSE IF implementation = "auto" /\ ~available THEN "native_torch"
        ELSE Require(available, "flashinfer")

(* KVCacheStore.__init__: any platform accepts native_triton, only CUDA     *)
(* runs it.                                                                *)
SelectKvStore(config, platform) ==
    LET implementation == ImplementationFor(config, "kv_cache_store")
    IN  IF implementation \notin Supported["kv_cache_store"] THEN Raises
        ELSE IF platform = "cuda" /\ implementation # "native_torch" THEN "native_triton"
        ELSE "native_torch"

Select(config, op, default_device, env) ==
    LET platform == Platform(config, default_device)
    IN  CASE op = "silu_and_mul" -> SelectSilu(config, platform, env)
          [] op = "kv_cache_store" -> SelectKvStore(config, platform)
          [] OTHER -> SelectFlashInfer(config, op, platform, env)

-----------------------------------------------------------------------------
(* The kernel that runs                                                    *)

ElementSize(dtype) == IF dtype \in HalfPrecision THEN 2 ELSE 4

(* FlashInfer reads rows in vectors of 16 bytes.                            *)
FlashInferCompatible(width, dtype) ==
    width > 0 /\ width % 2 = 0 /\ (width * ElementSize(dtype)) % 16 = 0

\* Faulty variant: the adaptive kernel looks at the device, not at the layout.
AdaptiveByDevice(env, dtype, width, rows) ==
    IF env.device = "rtx5070" /\ dtype = "bfloat16" /\ rows < AdaptiveMinTokens
    THEN "custom_cuda" ELSE "flashinfer"

(* The callable of get_adaptive_silu_and_mul, for one call on rows rows of  *)
(* width elements.                                                         *)
AdaptiveKernel(env, dtype, width, rows) ==
    LET measured == /\ env.device = "rtx5070"
                    /\ dtype = "bfloat16"
                    /\ width = AdaptiveWidth
                    /\ rows < AdaptiveMinTokens
    IN  IF FlashInferCompatible(width, dtype) /\ ~measured
        THEN "flashinfer" ELSE "custom_cuda"

SiluKernel(provider, env, dtype, width, rows) ==
    IF provider = "adaptive_cuda" THEN AdaptiveKernel(env, dtype, width, rows)
    ELSE provider

(* What each kernel accepts (silu_and_mul.cpp; FlashInfer as the adaptive   *)
(* kernel takes it to be).                                                 *)
SiluAccepts(kernel, env, dtype, width) ==
    CASE kernel = "custom_cuda" ->
            CustomCudaAvailable(env) /\ dtype \in HalfPrecision /\ width > 0 /\ width % 2 = 0
      [] kernel = "flashinfer" ->
            FlashInferAvailable(env) /\ dtype \in HalfPrecision /\ FlashInferCompatible(width, dtype)
      [] OTHER -> TRUE
=============================================================================
