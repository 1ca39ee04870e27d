--------------------------- MODULE ParallelLayers ---------------------------
(***************************************************************************)
(* The parameters of Qwen3ForCausalLM on one rank of tp, how the loader     *)
(* fills them from the tensors of a checkpoint (nanovllm/layers/linear.py,  *)
(* embed_head.py, nanovllm/utils/loader.py), and what the sharded layers    *)
(* compute together.                                                       *)
(*                                                                         *)
(* hf is the model configuration: [heads, kv_heads, inter, vocab, layers,   *)
(* max_position : Nat, tied, bias : BOOLEAN, rope, dtype].  A weight is     *)
(* seen along the dimension that is sharded, as a zero-based sequence of    *)
(* units: a head of q, k, v or o, a column of the MLP, a word.  The content *)
(* of unit i of tensor n of the checkpoint is the token <<n, i>>; a name is *)
(* <<layer, module>>, with layer 0 for what is outside the layers.          *)
(***************************************************************************)
EXTENDS Integers, FiniteSets

Uninitialized == <<>>       \* what torch.empty leaves in a unit

Indices(n) == 0 .. n - 1
Divides(tp, n) == n % tp = 0

-----------------------------------------------------------------------------
(* Shards                                                                  *)

(* tensor.narrow(dim, start, size)                                         *)
Narrow(tensor, start, size) == [i \in Indices(size) |-> tensor[start + i]]

(* The narrow of Column/RowParallelLinear and of the embeddings.            *)
RankShard(tensor, size, rank) == Narrow(tensor, rank * size, size)

(* tensor.chunk(tp, dim)[rank]: pieces of ceil(n / tp), the last one smaller. *)
Chunk(tensor, tp, rank) ==
    LET n == Cardinality(DOMAIN tensor)
        size == (n + tp - 1) \div tp
        left == n - rank * size
    IN  Narrow(tensor, rank * size, IF left < size THEN left ELSE size)

(* param.narrow(dim, offset, size).copy_(tensor)                            *)
CopyInto(param, offset, tensor) ==
    [i \in DOMAIN param |->
        IF i - offset \in DOMAIN tensor THEN tensor[i - offset] ELSE param[i]]

-----------------------------------------------------------------------------
(* Parameters and checkpoint                                               *)

Layers(hf) == 1 .. hf.layers

(* packed_modules_mapping: the merged module and the shard of a tensor.     *)
Packed ==
    [q_proj |-> <<"qkv_proj", "q">>, k_proj |-> <<"qkv_proj", "k">>,
     v_proj |-> <<"qkv_proj", "v">>,
     gate_proj |-> <<"gate_up_proj", "0">>, up_proj |-> <<"gate_up_proj", "1">>]
Target(name) ==
    IF name[2] \in DOMAIN Packed THEN <<name[1], Packed[name[2]][1]>> ELSE name

(* Units of the full tensors of the checkpoint.                             *)
TensorSize(hf, name) ==
    CASE name[2] \in {"q_proj", "o_proj"} -> hf.heads
      [] name[2] \in {"k_proj", "v_proj"} -> hf.kv_heads
      [] name[2] \in {"gate_proj", "up_proj", "down_proj"} -> hf.inter
      [] name[2] \in {"embed_tokens", "lm_head"} -> hf.vocab
      [] OTHER -> 1

(* A tied checkpoint may repeat the embedding as lm_head.                   *)
Tensor(hf, name) ==
    [i \in Indices(TensorSize(hf, name)) |->
        IF hf.tied /\ name[2] = "lm_head" THEN <<<<0, "embed_tokens">>, i>>
        ELSE <<name, i>>]

(* Units of the parameters of one rank.                                     *)
ParamSize(hf, tp, name) ==
    CASE name[2] = "qkv_proj" -> (hf.heads + 2 * hf.kv_heads) \div tp
      [] name[2] = "gate_up_proj" -> (2 * hf.inter) \div tp
      [] name[2] \in {"o_proj", "down_proj", "embed_tokens", "lm_head"} ->
            TensorSize(hf, name) \div tp
      [] OTHER -> 1

(* q_norm and k_norm only without bias.                                     *)
LayerModules(hf) ==
    {"qkv_proj", "o_proj", "gate_up_proj", "down_proj", "input_layernorm",
     "post_attention_layernorm"} \cup (IF hf.bias THEN {} ELSE {"q_norm", "k_norm"})
ParamNames(hf) ==
    (Layers(hf) \X LayerModules(hf))
        \cup {<<0, "embed_tokens">>, <<0, "norm">>, <<0, "lm_head">>}

(* lm_head.weight.data = embed_tokens.weight.data when tied: one storage.   *)
Storage(hf, name) ==
    IF hf.tied /\ name[2] = "lm_head" THEN <<0, "embed_tokens">> ELSE name

(* The asserts of the constructors.                                         *)
Divisible(hf, tp) ==
    /\ Divides(tp, hf.heads) /\ Divides(tp, hf.kv_heads)
    /\ Divides(tp, hf.inter) /\ Divides(tp, 2 * hf.inter)
    /\ Divides(tp, hf.vocab)

NewParams(hf, tp) ==
    [rank \in Indices(tp) |-> [name \in ParamNames(hf) |->
        [i \in Indices(ParamSize(hf, tp, name)) |-> Uninitialized]]]

-----------------------------------------------------------------------------
(* weight_loader                                                           *)

(* QKVParallelLinear: the q heads, the k heads, the v heads of the rank.    *)

QkvOffset(hf, tp, shard) ==
    CASE shard = "q" -> 0
      [] shard = "k" -> hf.heads \div tp
      [] shard = "v" -> hf.heads \div tp + hf.kv_heads \div tp

(* MergedColumnParallelLinear: gate, then up, of the rank.                  *)
MergedOffset(hf, tp, shard) == IF shard = "0" THEN 0 ELSE hf.inter \div tp

(* The parameter after the tensor has been loaded into it on a rank.        *)
Loaded(hf, tp, rank, param, name) ==
    LET tensor == Tensor(hf, name)
    IN  CASE Target(name)[2] = "qkv_proj" ->
                CopyInto(param, QkvOffset(hf, tp, Packed[name[2]][2]), Chunk(tensor, tp, rank))
          [] Target(name)[2] = "gate_up_proj" ->
                CopyInto(param, MergedOffset(hf, tp, Packed[name[2]][2]), Chunk(tensor, tp, rank))
          [] name[2] \in {"o_proj", "down_proj", "embed_tokens", "lm_head"} ->
                RankShard(tensor, Cardinality(DOMAIN param), rank)
          [] OTHER -> tensor

(* load_model on one tensor, on every rank.                                 *)
LoadTensor(hf, tp, params, name) ==
    LET target == Storage(hf, Target(name))
    IN  [rank \in Indices(tp) |->
            [params[rank] EXCEPT ![target] = Loaded(hf, tp, rank, @, name)]]

-----------------------------------------------------------------------------
(* The sharded layers                                                      *)

(* dist.all_reduce of the terms each rank adds: how often each one counts.  *)
AllReduce(terms) ==
    [t \in UNION {terms[rank] : rank \in DOMAIN terms} |->
        Cardinality({rank \in DOMAIN terms : t \in terms[rank]})]
Once(terms) == [t \in terms |-> 1]

(* Qwen3Attention: the split of qkv_proj on a rank, the norms of q and k,   *)
(* grouped-query attention of its heads, and the partial sum of o_proj.     *)
QkNorms(hf, layer) == IF hf.bias THEN {} ELSE {<<layer, "q_norm">>, <<layer, "k_norm">>}
AttentionTerms(hf, tp, param, layer) ==
    LET q_size == hf.heads \div tp
        kv_size == hf.kv_heads \div tp
        group == q_size \div kv_size
        qkv == param[<<layer, "qkv_proj">>]
        norms == {param[name][0] : name \in QkNorms(hf, layer)}
        Head(j) == <<qkv[j], qkv[q_size + j \div group],
                     qkv[q_size + kv_size + j \div group], norms>>
    IN  {<<param[<<layer, "o_proj">>][j], Head(j)>> : j \in Indices(q_size)}

(* The same attention on one rank that holds every head.                    *)
WholeAttention(hf, layer) ==
    LET group == hf.heads \div hf.kv_heads
        Head(j) == <<<<<<layer, "q_proj">>, j>>, <<<<layer, "k_proj">>, j \div group>>,
                     <<<<layer, "v_proj">>, j \div group>>,
                     {<<name, 0>> : name \in QkNorms(hf, layer)}>>
    IN  {<<<<<<layer, "o_proj">>, j>>, Head(j)>> : j \in Indices(hf.heads)}

AttentionAddsUp(hf, tp, params, layer) ==
    AllReduce([rank \in Indices(tp) |-> AttentionTerms(hf, tp, params[rank], layer)])
        = Once(WholeAttention(hf, layer))

(* Qwen3MLP: the partial sum of down_proj over the columns of a rank.        *)
(* active is what the kernel of the rank makes of the row of gate_up_proj,   *)
(* silu(gate) * up as a pair; actives has that of every rank.               *)
MlpTerms(hf, tp, param, layer, active) ==
    {<<param[<<layer, "down_proj">>][j], active[j]>> : j \in Indices(hf.inter \div tp)}
WholeMlp(hf, layer) ==
    {<<<<<<layer, "down_proj">>, j>>, <<<<<<layer, "gate_proj">>, j>>, <<<<layer, "up_proj">>, j>>>>>>
        : j \in Indices(hf.inter)}
MlpAddsUp(hf, tp, params, layer, actives) ==
    AllReduce([rank \in Indices(tp) |-> MlpTerms(hf, tp, params[rank], layer, actives[rank])])
        = Once(WholeMlp(hf, layer))

(* VocabParallelEmbedding: the row each rank adds for a word; a rank that   *)
(* does not own the word multiplies row 0 by the mask, and adds nothing.    *)

EmbeddingTerms(hf, tp, param, rank, word) ==
    LET size == hf.vocab \div tp
        owned == word >= rank * size /\ word < (rank + 1) * size
    IN  IF owned THEN {param[<<0, "embed_tokens">>][word - rank * size]} ELSE {}
EmbeddingAddsUp(hf, tp, params) ==
    \A word \in Indices(hf.vocab) :
        AllReduce([rank \in Indices(tp) |-> EmbeddingTerms(hf, tp, params[rank], rank, word)])
            = Once({<<<<0, "embed_tokens">>, word>>})

(* ParallelLMHead: the logits of the ranks, gathered on rank 0 and          *)
(* concatenated in the order of the ranks.                                  *)
GatheredLogits(hf, tp, params) ==
    LET size == hf.vocab \div tp
    IN  [word \in Indices(tp * size) |->
            params[word \div size][Storage(hf, <<0, "lm_head">>)][word % size]]
LogitsInOrder(hf, tp, params) ==
    GatheredLogits(hf, tp, params) = Tensor(hf, <<0, "lm_head">>)
=============================================================================
