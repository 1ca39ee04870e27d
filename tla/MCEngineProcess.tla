-------------------------- MODULE MCEngineProcess ---------------------------
(***************************************************************************)
(* Small instances of EngineProcess for TLC.                               *)
(***************************************************************************)
EXTENDS EngineProcess

MCLowerCase ==
    [s \in {"Auto", "FlashInfer", "Unified", "NONE", "Native"} |->
        CASE s = "Auto" -> "auto" [] s = "FlashInfer" -> "flashinfer"
          [] s = "Unified" -> "unified" [] s = "NONE" -> "none" [] s = "Native" -> "native"]

MCEnvironments ==
    {e \in [flashinfer : BOOLEAN, jit_cache : BOOLEAN, custom : BOOLEAN,
            flash_attn : BOOLEAN, device : {"rtx5070", "sm90"}, cuda129 : BOOLEAN] :
        /\ e.device = "sm90" => ~e.jit_cache /\ e.cuda129
        /\ ~e.flashinfer => ~e.jit_cache /\ e.cuda129}

-----------------------------------------------------------------------------
(* Models                                                                  *)

Attn(l) == <<<<l, "q_proj">>, <<l, "k_proj">>, <<l, "v_proj">>, <<l, "o_proj">>>>
MlpOf(l) == <<<<l, "up_proj">>, <<l, "gate_proj">>, <<l, "down_proj">>>>
Norms(l) == <<<<l, "input_layernorm">>, <<l, "post_attention_layernorm">>>>
HeadNorms(l) == <<<<l, "k_norm">>, <<l, "q_norm">>>>
LmHeadFile == <<<<0, "lm_head">>>>
Body == <<<<0, "embed_tokens">>, <<0, "norm">>>>

\* Grouped-query attention on two layers, in three files.
Grouped ==
    [heads |-> 4, kv_heads |-> 2, inter |-> 8, vocab |-> 4, layers |-> 2, max_position |-> 8,
     tied |-> FALSE, bias |-> FALSE, rope |-> "default", dtype |-> "bfloat16",
     files |-> {Body \o Attn(1) \o HeadNorms(1), MlpOf(2) \o Attn(2) \o HeadNorms(2),
                Norms(2) \o MlpOf(1) \o Norms(1) \o LmHeadFile}]

\* One layer, tied embeddings (repeated in the checkpoint), a shorter context.
Tied ==
    [Grouped EXCEPT !.layers = 1, !.tied = TRUE, !.bias = TRUE, !.dtype = "float16",
        !.max_position = 4,
        !.files = {Body \o Attn(1), MlpOf(1) \o Norms(1) \o LmHeadFile}]

\* Columns that FlashInfer cannot read when sharded.
Narrowed == [Tied EXCEPT !.inter = 4, !.max_position = 8]
\* Half the embedding is missing from the words of a rank.
Odd == [Tied EXCEPT !.inter = 3]
FewHeads == [Tied EXCEPT !.kv_heads = 1, !.heads = 2]
\* Every rank of four has a key-value head of its own.
Wide == [Grouped EXCEPT !.heads = 8, !.kv_heads = 4, !.layers = 1, !.bias = TRUE,
    !.files = {Body \o Attn(1), MlpOf(1) \o Norms(1) \o LmHeadFile}]
Single == [Grouped EXCEPT !.dtype = "float32"]
Scaled == [Tied EXCEPT !.rope = "yarn"]
\* A checkpoint with a tensor the model does not have.
Foreign == [Tied EXCEPT !.files = @ \cup {<<<<1, "q_norm">>>>}]

-----------------------------------------------------------------------------
(* Options                                                                 *)

Default ==
    [hf |-> Grouped, tensor_parallel_size |-> 1, attention_backend |-> "Auto",
     attention_mode |-> "Unified", kvcache_block_size |-> 16, enforce_eager |-> FALSE,
     cudagraph_mode |-> "full_decode_only", cudagraph_batch_sizes |-> {1, 2},
     max_model_len |-> 16, operator_overrides |-> <<>>]

Models ==
    {[Default EXCEPT !.hf = hf, !.tensor_parallel_size = n] :
        hf \in {Grouped, Tied, Narrowed, Odd, FewHeads, Single, Scaled, Foreign, Wide}, n \in {1, 2, 4}}
Backends ==
    {[Default EXCEPT !.hf = Tied, !.attention_backend = b, !.attention_mode = m,
                     !.kvcache_block_size = size] :
        b \in {"Auto", "FlashInfer", "legacy"}, m \in {"unified", "split"}, size \in {16, 256}}
Overrides ==
    {[Default EXCEPT !.hf = hf, !.tensor_parallel_size = 2,
                     !.operator_overrides = [o \in {op} |-> choice]] :
        hf \in {Tied, Narrowed}, op \in {"silu_and_mul", "rotary_embedding", "fused_add_rms_norm"},
        choice \in {"Native", "flashinfer", "custom_cuda"}}
MCOptions ==
    Models \cup Backends \cup Overrides
        \cup {[Default EXCEPT !.enforce_eager = TRUE], [Default EXCEPT !.cudagraph_mode = "NONE"],
              [Default EXCEPT !.attention_backend = "unknown"]}
=============================================================================
