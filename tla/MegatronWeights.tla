--------------------------- MODULE MegatronWeights ---------------------------
(***************************************************************************)
(* The weights of a Megatron model on their way through a training job:    *)
(* loaded from a HuggingFace checkpoint into the shards of the ranks,      *)
(* trained, collected again tensor by tensor for the inference engine, and *)
(* saved both as shards and as one HuggingFace checkpoint, from which a    *)
(* job that crashes starts again.                                          *)
(*                                                                         *)
(* The ranks of a group run the same program and meet in collectives; a    *)
(* collective is one step of its group.  A rank is <<tp, dp, pp>>.         *)
(***************************************************************************)
EXTENDS WeightLayout
LOCAL INSTANCE SequencesExt

CONSTANTS
    Models,      \* the models and layouts a job may be started with
    MaxCrashes   \* the crashes a behaviour may have

ASSUME ModelsDivide ==
    \A m \in Models : /\ m.heads % m.kv_heads = 0 /\ m.kv_heads % m.tp = 0 /\ m.inter % m.tp = 0
                      /\ m.vocab % m.tp = 0 /\ m.dp % m.ep = 0 /\ m.experts % m.ep = 0
                      /\ m.first_layers + m.last_layers = 0 => m.layers % (m.pp * Vpp(m)) = 0

VARIABLES
    model,    \* the model and its layout
    phase,    \* what the driver has the ranks do
    pc,       \* the next item of the loader's or the saver's list
    mem,      \* rank -> its parameters
    version,  \* rank -> the training steps its parameters have seen
    done,     \* the ranks that have finished what the phase asks of them alone
    export,   \* rank -> where its generator is and what it gave the engine
    hf,       \* the checkpoint the saver has collected on rank 0
    files,    \* what the checkpoint directories hold, by step and file name
    tracker,  \* the version the trainer's tracker file names, -1 for none
    crashes

vars == <<model, phase, pc, mem, version, done, export, hf, files, tracker, crashes>>

---------------------------------------------------------------------------
(* The parameters of a rank, <<chunk, kind, layer in the chunk, expert>>.  *)

LayerKinds(m, layer) ==
    CASE m.family \in {"gpt", "llama", "qwen2"} ->
           <<"input_layernorm", "linear_qkv">> \o (IF m.bias THEN <<"linear_qkv_bias">> ELSE <<>>)
           \o (IF m.qk_norm THEN <<"q_layernorm", "k_layernorm">> ELSE <<>>)
           \o <<"linear_proj", "post_attention_layernorm", "linear_fc1", "linear_fc2">>
      [] m.family = "qwen2_moe" -> <<"input_layernorm", "linear_qkv", "linear_qkv_bias", "linear_proj", "pre_mlp_layernorm", "router",
                                     "experts_fc1", "experts_fc2", "shared_gate", "shared_fc1", "shared_fc2">>
      [] m.family = "qwen3_moe" -> <<"input_layernorm", "linear_qkv", "q_layernorm", "k_layernorm", "linear_proj", "pre_mlp_layernorm",
                                     "router", "experts_fc1", "experts_fc2">>
      [] m.family = "mixtral" -> <<"input_layernorm", "linear_qkv", "linear_proj", "pre_mlp_layernorm", "router", "experts_fc1", "experts_fc2">>
      [] m.family = "deepseek_v3" ->
           <<"input_layernorm", "linear_q_down", "linear_q_up_norm", "linear_q_up", "linear_kv_down", "linear_kv_up_norm", "linear_kv_up", "linear_proj">>
           \o (IF layer = 0 THEN <<"post_attention_layernorm", "linear_fc1", "linear_fc2">>
               ELSE <<"pre_mlp_layernorm", "router", "experts_fc1", "experts_fc2", "shared_fc1", "shared_fc2">>)

ExpertKinds == {"experts_fc1", "experts_fc2"}
HasHead(m) == ~(m.tie /\ m.pp = 1)

(* named_parameters of chunk v of stage p, in an order all ranks share.    *)
ChunkNames(m, p, v) ==
    LET OfKind(l, kind) == IF kind \in ExpertKinds
                           THEN [e \in 1 .. (m.experts \div m.ep) |-> <<v, kind, l, e - 1>>] ELSE <<<<v, kind, l, 0>>>>
        OfLayer(l) == FlattenSeq([i \in DOMAIN LayerKinds(m, FirstLayer(m, p, v) + l) |->
                                    OfKind(l, LayerKinds(m, FirstLayer(m, p, v) + l)[i])])
    IN  (IF p = 0 /\ v = 0 THEN <<<<v, "word_embeddings", 0, 0>>>> ELSE <<>>)
        \o Cat([j \in Upto(ChunkLayers(m, p, v)) |-> OfLayer(j)])
        \o (IF p = m.pp - 1 /\ v = Vpp(m) - 1
            THEN <<<<v, "final_layernorm", 0, 0>>>> \o (IF HasHead(m) THEN <<<<v, "output_layer", 0, 0>>>> ELSE <<>>) ELSE <<>>)

StageNames(m, p) == Cat([v \in Upto(Vpp(m)) |-> ChunkNames(m, p, v)])

(* The tensors of the checkpoint a parameter is made of.                   *)

(* Mutant: the expert's two matrices change places. *)
W3W1(m, kind) ==
    CASE kind = "experts_fc1" -> <<"up_proj", "gate_proj">> [] kind = "experts_fc2" -> <<"down_proj">>
      [] kind = "pre_mlp_layernorm" -> <<"post_attention_layernorm">> [] kind = "router" -> <<"gate">>
      [] OTHER -> <<"?">>
convert_mixtral(m, kind) ==
    CASE kind = "pre_mlp_layernorm" -> <<"post_attention_layernorm">>
      [] kind = "router" -> <<"gate">>
      [] kind = "experts_fc1" -> <<"gate_proj", "up_proj">>
      [] kind = "experts_fc2" -> <<"down_proj">>
      [] OTHER -> <<"?">>
convert_qwen3_moe(m, kind) ==
    CASE kind = "pre_mlp_layernorm" -> <<"post_attention_layernorm">>
      [] kind = "router" -> <<"gate">>
      [] kind = "experts_fc1" -> <<"gate_proj", "up_proj">>
      [] kind = "experts_fc2" -> <<"down_proj">>
      [] OTHER -> <<"?">>
convert_qwen2_moe(m, kind) ==
    CASE kind = "shared_gate" -> <<"shared_expert_gate">>
      [] kind = "shared_fc1" -> <<"shared_gate_proj", "shared_up_proj">>
      [] kind = "shared_fc2" -> <<"shared_down_proj">>
      [] OTHER -> convert_qwen3_moe(m, kind)
convert_dense_mlp(m, kind) ==
    CASE kind = "linear_fc1" -> <<"gate_proj", "up_proj">>
      [] kind = "post_attention_layernorm" -> <<"post_attention_layernorm">>
      [] kind = "linear_fc2" -> <<"down_proj">>
      [] OTHER -> <<"?">>
convert_attention(m, kind) ==
    CASE kind = "linear_qkv" -> <<"q_proj", "k_proj", "v_proj">>
      [] kind = "linear_qkv_bias" -> <<"q_bias", "k_bias", "v_bias">>
      [] kind = "linear_proj" -> <<"o_proj">>
      [] kind = "input_layernorm" -> <<"input_layernorm">>
      [] kind = "q_layernorm" -> <<"q_norm">>
      [] kind = "k_layernorm" -> <<"k_norm">>
convert_mla(m, kind) ==
    CASE kind = "input_layernorm" -> <<"input_layernorm">>
      [] kind = "linear_proj" -> <<"o_proj">>
      [] kind = "linear_q_down" -> <<"q_a_proj">>
      [] kind = "linear_q_up_norm" -> <<"q_a_layernorm">>
      [] kind = "linear_q_up" -> <<"q_b_proj">>
      [] kind = "linear_kv_down" -> <<"kv_a_proj_with_mqa">>
      [] kind = "linear_kv_up_norm" -> <<"kv_a_layernorm">>
      [] kind = "linear_kv_up" -> <<"kv_b_proj">>
convert_deepseek_mlp(m, kind) ==
    CASE kind \in {"linear_fc1", "experts_fc1"} -> <<"gate_proj", "up_proj">>
      [] kind \in {"linear_fc2", "experts_fc2"} -> <<"down_proj">>
      [] kind \in {"pre_mlp_layernorm", "post_attention_layernorm"} -> <<"post_attention_layernorm">>
      [] kind = "router" -> <<"gate">>
      [] kind = "shared_fc1" -> <<"shared_gate_proj", "shared_up_proj">>
      [] kind = "shared_fc2" -> <<"shared_down_proj">>

MlpKinds == ExpertKinds \cup {"linear_fc1", "linear_fc2", "post_attention_layernorm", "pre_mlp_layernorm", "router",
                              "shared_gate", "shared_fc1", "shared_fc2"}
convert_param(m, kind) ==
    CASE kind = "word_embeddings" -> <<"embed_tokens">>
      [] kind = "final_layernorm" -> <<"norm">>
      [] kind = "output_layer" -> <<"lm_head">>
      [] kind \in MlpKinds /\ ~IsMoe(m) -> convert_dense_mlp(m, kind)
      [] kind \in MlpKinds /\ m.family = "qwen2_moe" -> convert_qwen2_moe(m, kind)
      [] kind \in MlpKinds /\ m.family = "qwen3_moe" -> convert_qwen3_moe(m, kind)
      [] kind \in MlpKinds /\ m.family = "mixtral" -> convert_mixtral(m, kind)
      [] kind \in MlpKinds /\ m.family = "deepseek_v3" -> convert_deepseek_mlp(m, kind)
      [] m.family = "deepseek_v3" /\ kind \notin MlpKinds -> convert_mla(m, kind)
      [] OTHER -> convert_attention(m, kind)


---------------------------------------------------------------------------
(* What a parameter must hold for Megatron's layers to compute the model.  *)

Holds(m, kind) ==
    CASE kind = "word_embeddings" -> <<"embed_tokens">> [] kind = "output_layer" -> <<"lm_head">>
      [] kind = "final_layernorm" -> <<"norm">> [] kind = "linear_qkv" -> <<"q_proj", "k_proj", "v_proj">>
      [] kind = "linear_qkv_bias" -> <<"q_bias", "k_bias", "v_bias">> [] kind = "q_layernorm" -> <<"q_norm">>
      [] kind = "k_layernorm" -> <<"k_norm">> [] kind = "linear_proj" -> <<"o_proj">>
      [] kind \in {"linear_fc1", "experts_fc1"} -> <<"gate_proj", "up_proj">> [] kind \in {"linear_fc2", "experts_fc2"} -> <<"down_proj">>
      [] kind = "shared_fc1" -> <<"shared_gate_proj", "shared_up_proj">> [] kind = "shared_fc2" -> <<"shared_down_proj">>
      [] kind = "shared_gate" -> <<"shared_expert_gate">> [] kind = "router" -> <<"gate">>
      [] kind = "pre_mlp_layernorm" -> <<"post_attention_layernorm">> [] kind = "linear_q_down" -> <<"q_a_proj">>
      [] kind = "linear_q_up_norm" -> <<"q_a_layernorm">> [] kind = "linear_q_up" -> <<"q_b_proj">>
      [] kind = "linear_kv_down" -> <<"kv_a_proj_with_mqa">> [] kind = "linear_kv_up_norm" -> <<"kv_a_layernorm">>
      [] kind = "linear_kv_up" -> <<"kv_b_proj">> [] OTHER -> <<kind>>

GlobalName(m, r, n, kind) ==
    <<kind, IF n[2] \in {"word_embeddings", "final_layernorm", "output_layer"} THEN 0 ELSE FirstLayer(m, r[3], n[1]) + n[3],
      IF n[2] \in ExpertKinds THEN ExpertRank(m, r) * (m.experts \div m.ep) + n[4] ELSE 0>>

IsSharded(m, kind) ==
    \/ kind \in {"word_embeddings", "linear_qkv", "linear_qkv_bias", "linear_proj", "linear_fc1", "linear_fc2", "linear_q_up", "linear_kv_up",
                 "shared_fc1", "shared_fc2"} \cup ExpertKinds
    \/ kind = "output_layer" /\ ~m.value

(* A head of one row that the checkpoint does not have stays as it was     *)
(* made.                                                                   *)
RandomHead == <<<<"random", 0, 0>>, 0>>
HeadIsRandom(m) == m.value /\ m.hf_head = "lm"
FullTensor(m, name) ==
    IF name[1] = "lm_head" /\ m.value
    THEN (IF HeadIsRandom(m) THEN <<RandomHead>> ELSE Rows(IF m.hf_head = "value" THEN name ELSE <<"reward_head", 0, 0>>, 1))
    ELSE HfTensor(m, name)

RightShard(m, r, n) ==
    LET of == [i \in DOMAIN Holds(m, n[2]) |-> FullTensor(m, GlobalName(m, r, n, Holds(m, n[2])[i]))]
    IN  CASE ~IsSharded(m, n[2]) -> of[1]
          [] n[2] \in {"linear_qkv", "linear_qkv_bias"} -> AttentionWants(m, of[1], of[2], of[3], r[1])
          [] IsSharded(m, n[2]) /\ Len(of) = 2 -> Chunk(of[1], m.tp, r[1]) \o Chunk(of[2], m.tp, r[1])
          [] IsSharded(m, n[2]) /\ Len(of) = 1 -> Chunk(of[1], m.tp, r[1])

ParamsOf(m, r) == ToSet(StageNames(m, r[3]))
PartsOf == [m \in Models |-> [r \in Ranks(m) |-> [n \in ParamsOf(m, r) |-> RightShard(m, r, n)]]]
Unloaded(m, r) == [n \in ParamsOf(m, r) |-> IF n[2] = "output_layer" /\ m.value THEN <<RandomHead>> ELSE <<>>]

---------------------------------------------------------------------------
(* The loader's list: which tensors of the checkpoint go where, and how.   *)

Item(op, p, v, kind, l, src) == [op |-> op, p |-> p, to |-> <<v, kind, l, 0>>, src |-> src]

LoadOfLayer(m, layer, bias, qkNorm) ==
    LET at == calc_layer_map(m)[layer]
        To(op, kind, src) == <<Item(op, at[1], at[2], kind, at[3], [i \in DOMAIN src |-> <<src[i], layer, 0>>])>>
    IN  To("copy", "input_layernorm", <<"input_layernorm">>)
        \o (IF qkNorm THEN To("copy", "q_layernorm", <<"q_norm">>) \o To("copy", "k_layernorm", <<"k_norm">>) ELSE <<>>)
        \o To("qkv", "linear_qkv", <<"q_proj", "k_proj", "v_proj">>)
        \o (IF bias THEN To("qkv", "linear_qkv_bias", <<"q_bias", "k_bias", "v_bias">>) ELSE <<>>)
        \o To("shard", "linear_proj", <<"o_proj">>)
        \o To("copy", "post_attention_layernorm", <<"post_attention_layernorm">>)
        \o To("gate_up", "linear_fc1", <<"gate_proj", "up_proj">>)
        \o To("shard", "linear_fc2", <<"down_proj">>)

LoadOfHead(m) ==
    LET last == m.pp - 1
        To(op, kind) == <<Item(op, last, Vpp(m) - 1, "output_layer", 0, <<<<kind, 0, 0>>>>)>>
    IN  CASE m.value /\ m.hf_head = "value" -> To("copy", "lm_head")
          [] m.value /\ m.hf_head = "reward" -> To("copy", "reward_head")
          [] m.value /\ m.hf_head = "lm" -> To("skip", "lm_head")
          [] ~m.value -> To("shard", "lm_head")

LoadList(m, bias, qkNorm, head) ==
    <<Item("shard", 0, 0, "word_embeddings", 0, <<<<"embed_tokens", 0, 0>>>>)>>
    \o Cat([l \in Upto(m.layers) |-> LoadOfLayer(m, l, bias, qkNorm)])
    \o <<Item("copy", m.pp - 1, Vpp(m) - 1, "final_layernorm", 0, <<<<"norm", 0, 0>>>>)>>
    \o (IF head THEN LoadOfHead(m) ELSE <<>>)

load_state_dict_to_megatron_gptmodel(m) == LoadList(m, m.bias, m.qk_norm, TRUE)
load_state_dict_to_megatron_llama(m) == LoadList(m, FALSE, FALSE, TRUE)
load_state_dict_to_megatron_qwen2(m) == LoadList(m, TRUE, FALSE, ~m.tie)
ToLoad(m) ==
    CASE m.family = "llama" -> load_state_dict_to_megatron_llama(m)
      [] m.family = "qwen2" -> load_state_dict_to_megatron_qwen2(m)
      [] OTHER -> load_state_dict_to_megatron_gptmodel(m)

(* What an item gives a rank: its tensor is None elsewhere.                *)
Cut(m, item, t) ==
    LET of == [i \in DOMAIN item.src |-> HfTensor(m, item.src[i])]
    IN  CASE item.op = "copy" -> of[1]
          [] item.op = "shard" -> Chunk(of[1], m.tp, t)
          [] item.op = "gate_up" -> gate_up_shard(m, of[1], of[2], t)
          [] item.op = "qkv" -> QkvShard(m, of[1], of[2], of[3], t)

Takes(m, r, item) == item.op # "skip" /\ r[3] = item.p /\ item.to \in DOMAIN PartsOf[m][r]
Given(m, item, r, params) == IF Takes(m, r, item) THEN [params EXCEPT ![item.to] = Cut(m, item, r[1])] ELSE params

---------------------------------------------------------------------------
(* The saver's list is the loader's but for the head; what it makes of an  *)
(* item is a set of named tensors.                                         *)

SaveList(m, bias, qkNorm, head) ==
    LoadList(m, bias, qkNorm, FALSE)
    \o (IF head THEN <<Item(IF m.value THEN "copy" ELSE "shard", m.pp - 1, Vpp(m) - 1, "output_layer", 0, <<<<"lm_head", 0, 0>>>>)>> ELSE <<>>)

merge_megatron_ckpt_gptmodel(m) == SaveList(m, m.bias, m.qk_norm, ~m.tie)
merge_megatron_ckpt_llama(m) == SaveList(m, FALSE, FALSE, TRUE)
merge_megatron_ckpt_qwen2(m) == SaveList(m, TRUE, FALSE, ~m.tie)
ToSave(m) ==
    CASE m.family = "llama" -> merge_megatron_ckpt_llama(m)
      [] m.family = "qwen2" -> merge_megatron_ckpt_qwen2(m)
      [] OTHER -> merge_megatron_ckpt_gptmodel(m)

Collected(m, item, params) ==
    LET parts == [t \in Upto(m.tp) |-> params[RankOf(m, t, 0, item.p)][item.to]]
        full  == CASE item.op = "copy" -> <<parts[0]>>
                   [] item.op = "shard" -> <<Cat(parts)>>
                   [] item.op = "gate_up" -> merge_gate_up(m, parts)
                   [] item.op = "qkv" -> MergeQkv(m, parts)
    IN  {<<item.src[i], full[i]>> : i \in DOMAIN item.src}

(* The file of a rank's shard; ranks that differ in dp alone share it.     *)

(* Mutant: the pipeline rank is left out of the name. *)
TensorRankOnly(m, r) == <<"model", r[1], 0, IF m.ep > 1 THEN ExpertRank(m, r) ELSE 0>>
get_checkpoint_name(m, r) ==
    <<"model", r[1], IF m.pp > 1 THEN r[3] ELSE 0, IF m.ep > 1 THEN ExpertRank(m, r) ELSE 0>>
get_rng_states_checkpoint_path(m, r) == <<"rng", r[1], r[2], r[3]>>

---------------------------------------------------------------------------
(* The generator that gives the engine the whole model.                    *)

(* The parameters of all stages, in the order the generator visits them.   *)
layer_list_meta(m) == Cat([p \in Upto(m.pp) |-> [i \in DOMAIN StageNames(m, p) |-> <<p, StageNames(m, p)[i]>>]])

(* Mutant: the offset is added to the layers of the first chunk alone. *)
FirstChunkOffset(m, p, n) ==
    <<n[2], IF n[2] \in {"word_embeddings", "final_layernorm", "output_layer"} THEN 0 ELSE n[3] + get_transformer_layer_offset(m, p, 0), n[4]>>
normalize_model_name(m, p, n) ==
    <<n[2], IF n[2] \in {"word_embeddings", "final_layernorm", "output_layer"} THEN 0 ELSE n[3] + get_transformer_layer_offset(m, p, n[1]), n[4]>>

Converted(m, name, tensors) ==
    LET to == convert_param(m, name[1]) IN {<<<<to[i], name[2], name[3]>>, tensors[i]>> : i \in DOMAIN to}

(* What depends on the model and its layout alone.                        *)
LoadOf  == [m \in Models |-> ToLoad(m)]
SaveOf  == [m \in Models |-> ToSave(m)]
MetaOf  == [m \in Models |-> layer_list_meta(m)]
NamesOf == [m \in Models |-> [i \in DOMAIN MetaOf[m] |-> normalize_model_name(m, MetaOf[m][i][1], MetaOf[m][i][2])]]

Idle == [at |-> 1, held |-> <<>>, out |-> {}]
Exporting(r) == phase = "serve" /\ export[r].at <= Len(MetaOf[model])
Entry(r) == MetaOf[model][export[r].at]
NameOf(r) == NamesOf[model][export[r].at]
Yields(e, pairs) == [at |-> e.at + 1, held |-> <<>>, out |-> e.out \cup pairs]

---------------------------------------------------------------------------
Init ==
    /\ model \in Models
    /\ phase = "load" /\ pc = 1
    /\ mem = [r \in Ranks(model) |-> Unloaded(model, r)]
    /\ version = [r \in Ranks(model) |-> <<0, 0>>]
    /\ done = {} /\ hf = {} /\ files = <<>> /\ tracker = -1 /\ crashes = 0
    /\ export = [r \in Ranks(model) |-> Idle]

Everyone == Ranks(model)
(* The driver has every rank do the next thing and waits for all of them.  *)
Enter(next) == phase' = next /\ pc' = 1 /\ done' = {}
Finish(r, next) == IF done \cup {r} = Everyone THEN Enter(next) ELSE done' = done \cup {r} /\ UNCHANGED <<phase, pc>>
Loaded == IF tracker >= 0 THEN "resume" ELSE "train"

(* One item of the loader: rank 0 of the job cuts it and broadcasts it to  *)
(* the ranks of its model-parallel group, the ones of dp 0.                *)
LoadItem ==
    /\ phase = "load" /\ model.loader = "broadcast"
    /\ RankOf(model, 0, 0, 0)[2] = 0
    /\ mem' = [r \in Everyone |-> IF r[2] = 0 THEN Given(model, LoadOf[model][pc], r, mem[r]) ELSE mem[r]]
    /\ IF pc = Len(LoadOf[model]) THEN Enter("sync") ELSE pc' = pc + 1 /\ UNCHANGED <<phase, done>>
    /\ UNCHANGED <<model, version, export, hf, files, tracker, crashes>>

(* The loader of checkpoint_utils: every rank fetches its own tensors.     *)
FetchAll(r) ==
    LET list == LoadOf[model]
        After[i \in 0 .. Len(list)] == IF i = 0 THEN mem[r] ELSE Given(model, list[i], r, After[i - 1])
    IN  /\ phase = "load" /\ model.loader = "fetch" /\ r \notin done
        /\ mem' = [mem EXCEPT ![r] = After[Len(list)]]
        /\ Finish(r, Loaded)
        /\ UNCHANGED <<model, version, export, hf, files, tracker, crashes>>

(* Mixtures of experts are read from a checkpoint of Megatron's own.       *)
load_mcore_dist_weights(r) ==
    /\ phase = "load" /\ model.loader = "dist" /\ r \notin done
    /\ mem' = [mem EXCEPT ![r] = PartsOf[model][r]]
    /\ Finish(r, Loaded)
    /\ UNCHANGED <<model, version, export, hf, files, tracker, crashes>>

(* Mutant: the last data-parallel rank is the source. *)
FromTheLast(t, p) ==
    /\ phase = "sync" /\ <<t, 0, p>> \notin done
    /\ mem' = [r \in Everyone |-> IF r[1] = t /\ r[3] = p THEN mem[<<t, model.dp - 1, p>>] ELSE mem[r]]
    /\ LET group == {<<t, d, p>> : d \in Upto(model.dp)}
       IN  IF done \cup group = Everyone THEN Enter(Loaded) ELSE done' = done \cup group /\ UNCHANGED <<phase, pc>>
    /\ UNCHANGED <<model, version, export, hf, files, tracker, crashes>>
(* A data-parallel group takes the parameters of its first rank.           *)
broadcast_params(t, p) ==
    /\ phase = "sync" /\ <<t, 0, p>> \notin done
    /\ mem' = [r \in Everyone |-> IF r[1] = t /\ r[3] = p THEN mem[<<t, 0, p>>] ELSE mem[r]]
    /\ LET group == {<<t, d, p>> : d \in Upto(model.dp)}
       IN  IF done \cup group = Everyone THEN Enter(Loaded) ELSE done' = done \cup group /\ UNCHANGED <<phase, pc>>
    /\ UNCHANGED <<model, version, export, hf, files, tracker, crashes>>

(* Mutant: the random state is not read. *)
WithoutRng(r) ==
    LET model_file == <<tracker, get_checkpoint_name(model, r)>>
    IN  /\ phase = "resume" /\ r \notin done
        /\ IF model_file \in DOMAIN files
           THEN /\ mem' = [mem EXCEPT ![r] = files[model_file].params]
                /\ version' = [version EXCEPT ![r] = <<files[model_file].version, 0>>]
                /\ Finish(r, "train")
           ELSE Enter("failed") /\ UNCHANGED <<mem, version>>
        /\ UNCHANGED <<model, export, hf, files, tracker, crashes>>
(* A rank reads its shard and its random state from the files of its name; *)
(* where there are none the job fails.                                     *)
load_checkpoint(r) ==
    LET model_file == <<tracker, get_checkpoint_name(model, r)>>
        rng_file   == <<tracker, get_rng_states_checkpoint_path(model, r)>>
    IN  /\ phase = "resume" /\ r \notin done
        /\ IF {model_file, rng_file} \subseteq DOMAIN files
           THEN /\ mem' = [mem EXCEPT ![r] = files[model_file].params]
                /\ version' = [version EXCEPT ![r] = <<files[model_file].version, files[rng_file].version>>]
                /\ Finish(r, "train")
           ELSE Enter("failed") /\ UNCHANGED <<mem, version>>
        /\ UNCHANGED <<model, export, hf, files, tracker, crashes>>

(* A training step: all ranks change their parameters together.            *)
Train ==
    /\ phase = "train"
    /\ version' = [r \in Everyone |-> <<version[r][1] + 1, version[r][2] + 1>>]
    /\ Enter(IF model.value THEN "shards" ELSE "serve")
    /\ export' = [r \in Everyone |-> Idle] /\ hf' = {}
    /\ UNCHANGED <<model, mem, files, tracker, crashes>>

EngineFed == \A r \in Everyone : export'[r].at > Len(MetaOf[model])
NextPhase == IF EngineFed THEN Enter("shards") ELSE UNCHANGED <<phase, pc, done>>

(* The stages of one tp and dp rank learn the next parameter's name and    *)
(* tensor from the stage that has it.  What no other group cuts is given   *)
(* to the engine at once.                                                  *)
PipelineBroadcast(t, d) ==
    LET stages == {<<t, d, p>> : p \in Upto(model.pp)}
        any    == <<t, d, 0>>
        name   == NameOf(any)
        tensor == mem[<<t, d, Entry(any)[1]>>][Entry(any)[2]]
    IN  /\ \A r \in stages : Exporting(r) /\ export[r].held = <<>> /\ export[r].at = export[any].at
        /\ export' = [r \in Everyone |->
             CASE r \notin stages -> export[r]
               [] r \in stages /\ ~IsSharded(model, name[1]) -> Yields(export[r], Converted(model, name, <<tensor>>))
               [] r \in stages /\ IsSharded(model, name[1]) -> [export[r] EXCEPT !.held = <<tensor>>]]
        /\ NextPhase
        /\ UNCHANGED <<model, mem, version, hf, files, tracker, crashes>>

(* The tensor-parallel ranks of a stage gather the shards.                 *)
TensorGather(d, p) ==
    LET group == {<<t, d, p>> : t \in Upto(model.tp)}
        any   == <<0, d, p>>
        name  == NameOf(any)
        parts == [t \in Upto(model.tp) |-> export[<<t, d, p>>].held[1]]
    IN  /\ \A r \in group : Exporting(r) /\ export[r].held # <<>> /\ export[r].at = export[any].at
        /\ ~(name[1] \in ExpertKinds /\ model.ep > 1)
        /\ export' = [r \in Everyone |->
             IF r \in group THEN Yields(export[r], Converted(model, name, default_tp_concat_fn(model, name[1], parts))) ELSE export[r]]
        /\ NextPhase
        /\ UNCHANGED <<model, mem, version, hf, files, tracker, crashes>>

(* Mutant: the experts keep the numbers they have on their rank. *)
LocalExpertIds(g, p) ==
    LET group == {<<t, d, p>> : t \in Upto(model.tp), d \in g * model.ep .. (g + 1) * model.ep - 1}
        any   == <<0, g * model.ep, p>>
        name  == NameOf(any)
        Parts(e) == [t \in Upto(model.tp) |-> export[<<t, g * model.ep + e, p>>].held[1]]
    IN  /\ \A r \in group : Exporting(r) /\ export[r].held # <<>> /\ export[r].at = export[any].at
        /\ name[1] \in ExpertKinds /\ model.ep > 1
        /\ export' = [r \in Everyone |->
             IF r \in group
             THEN Yields(export[r], UNION {Converted(model, name, default_tp_concat_fn(model, name[1], Parts(e))) : e \in Upto(model.ep)})
             ELSE export[r]]
        /\ NextPhase
        /\ UNCHANGED <<model, mem, version, hf, files, tracker, crashes>>
(* The expert-parallel ranks gather the experts that have one local        *)
(* number, each of them then its shards, and number them in the model.     *)
ExpertGather(g, p) ==
    LET group == {<<t, d, p>> : t \in Upto(model.tp), d \in g * model.ep .. (g + 1) * model.ep - 1}
        any   == <<0, g * model.ep, p>>
        name  == NameOf(any)
        perRank  == model.experts \div model.ep
        Name(e)  == <<name[1], name[2], perRank * e + name[3]>>
        Parts(e) == [t \in Upto(model.tp) |-> export[<<t, g * model.ep + e, p>>].held[1]]
    IN  /\ \A r \in group : Exporting(r) /\ export[r].held # <<>> /\ export[r].at = export[any].at
        /\ name[1] \in ExpertKinds /\ model.ep > 1
        /\ export' = [r \in Everyone |->
             IF r \in group
             THEN Yields(export[r], UNION {Converted(model, Name(e), default_tp_concat_fn(model, name[1], Parts(e))) : e \in Upto(model.ep)})
             ELSE export[r]]
        /\ NextPhase
        /\ UNCHANGED <<model, mem, version, hf, files, tracker, crashes>>

(* The whole model is collected with hf_model among the contents, which    *)
(* has no implementation for mixtures of experts.                          *)
AfterShards == IF IsMoe(model) THEN "rest" ELSE "merge"

(* save_checkpoint: the ranks of dp 0 write their shards, ...              *)
SaveShard(r) ==
    LET file == <<version[r][1], get_checkpoint_name(model, r)>>
    IN  /\ phase = "shards" /\ r \notin done
        /\ files' = IF r[2] # 0 THEN files
                    ELSE [f \in DOMAIN files \cup {file} |-> IF f = file THEN [params |-> mem[r], version |-> version[r][1]] ELSE files[f]]
        /\ Finish(r, AfterShards)
        /\ UNCHANGED <<model, mem, version, export, hf, tracker, crashes>>

(* ... collect the whole model on rank 0, item by item, which writes it,   *)
MergeItem ==
    /\ phase = "merge"
    /\ hf' = hf \cup Collected(model, SaveOf[model][pc], mem)
    /\ IF pc = Len(SaveOf[model]) THEN Enter("rest") ELSE pc' = pc + 1 /\ UNCHANGED <<phase, done>>
    /\ UNCHANGED <<model, mem, version, export, files, tracker, crashes>>

(* ... and every rank, past the barriers, its random state; when all have  *)
(* returned the trainer names the checkpoint in its tracker file.          *)
SaveRngState(r) ==
    LET file == <<version[r][1], get_rng_states_checkpoint_path(model, r)>>
    IN  /\ phase = "rest" /\ r \notin done
        /\ files' = [f \in DOMAIN files \cup {file} |-> IF f = file THEN [params |-> <<>>, version |-> version[r][2]] ELSE files[f]]
        /\ tracker' = IF done \cup {r} = Everyone THEN version[r][1] ELSE tracker
        /\ Finish(r, "end")
        /\ UNCHANGED <<model, mem, version, export, hf, crashes>>

(* The job dies and is started again with the same layout.                 *)
Crash ==
    /\ crashes < MaxCrashes /\ phase \notin {"load", "sync", "resume"} /\ crashes' = crashes + 1
    /\ Enter("load")
    /\ mem' = [r \in Everyone |-> Unloaded(model, r)]
    /\ version' = [r \in Everyone |-> <<0, 0>>]
    /\ export' = [r \in Everyone |-> Idle] /\ hf' = {}
    /\ UNCHANGED <<model, files, tracker>>

(* The job has saved, or cannot go on from what was saved.                 *)
Finished == phase \in {"end", "failed"} /\ UNCHANGED vars

Next ==
    \/ LoadItem
    \/ \E r \in Everyone : FetchAll(r)
    \/ \E r \in Everyone : load_mcore_dist_weights(r)
    \/ \E t \in Upto(model.tp), p \in Upto(model.pp) : broadcast_params(t, p)
    \/ \E r \in Everyone : load_checkpoint(r)
    \/ Train
    \/ \E t \in Upto(model.tp), d \in Upto(model.dp) : PipelineBroadcast(t, d)
    \/ \E d \in Upto(model.dp), p \in Upto(model.pp) : TensorGather(d, p)
    \/ \E g \in Upto(model.dp \div model.ep), p \in Upto(model.pp) : ExpertGather(g, p)
    \/ \E r \in Everyone : SaveShard(r)
    \/ MergeItem
    \/ \E r \in Everyone : SaveRngState(r)
    \/ Crash
    \/ Finished

Spec == Init /\ [][Next]_vars
---------------------------------------------------------------------------
TypeOK ==
    /\ model \in Models /\ pc \in Nat /\ tracker \in Int /\ crashes \in 0 .. MaxCrashes
    /\ phase \in {"load", "sync", "resume", "train", "serve", "shards", "merge", "rest", "end", "failed"}
    /\ DOMAIN mem = Everyone /\ done \subseteq Everyone

(* Whatever the layout, once a model is loaded every rank holds exactly    *)
(* the rows its layers compute with: of its stage and chunk, of its cut,   *)
(* with keys and values beside the queries they serve; and so it does when *)
(* it has read a checkpoint.  The loaders                                  *)
(* (load_state_dict_to_megatron_gptmodel, load_checkpoint).                *)
EveryRankHasItsPart ==
    /\ TypeOK
    /\ phase \notin {"load", "sync"} => mem = PartsOf[model]

HfNames(m) ==
    {<<Holds(m, "word_embeddings")[1], 0, 0>>, <<"norm", 0, 0>>, <<"lm_head", 0, 0>>}
    \cup UNION {UNION {{<<Holds(m, LayerKinds(m, l)[i])[j], l, e>> :
                          j \in DOMAIN Holds(m, LayerKinds(m, l)[i]),
                          e \in IF LayerKinds(m, l)[i] \in ExpertKinds THEN Upto(m.experts) ELSE {0}} :
                       i \in DOMAIN LayerKinds(m, l)} : l \in Upto(m.layers)}
Whole == [m \in Models |-> {<<name, FullTensor(m, name)>> : name \in HfNames(m)}]
WholeModel(m, pairs) ==
    /\ pairs \subseteq Whole[m]
    /\ \A pair \in Whole[m] \ pairs : m.tie /\ pair[1][1] = "lm_head"

(* The generator gives the engine of every rank the whole model, every     *)
(* tensor once put together under its own name, whichever stage, cut or    *)
(* expert rank it comes from (per_tensor_generator).                       *)
EngineGetsTheModel ==
    \A r \in Everyone : export[r].at > Len(MetaOf[model]) => WholeModel(model, export[r].out)

(* A checkpoint that the tracker names is whole, and a job started from it *)
(* goes on with the weights and the random state of the step it names, on  *)
(* every rank; the HuggingFace checkpoint is the model                     *)
(* (save_checkpoint, load_checkpoint, merge_megatron_ckpt_gptmodel).  Not  *)
(* so for experts that are parallel over the data-parallel ranks: those of *)
(* the first rank alone are saved, under a name the others do not read, so *)
(* a job started again fails; but it never goes on with other weights.     *)
SavedModelIsTheModel ==
    /\ phase = "rest" /\ ~IsMoe(model) => WholeModel(model, hf)
    /\ phase = "train" => \A r \in Everyone : version[r] = IF tracker >= 0 THEN <<tracker, tracker>> ELSE <<0, 0>>
    /\ phase = "failed" => tracker >= 0 /\ model.ep > 1

=============================================================================
