---------------------------- MODULE WeightLayout ----------------------------
(***************************************************************************)
(* How a model's weights lie in a HuggingFace checkpoint, how they are     *)
(* dealt to the ranks of a Megatron job (tensor, pipeline, virtual         *)
(* pipeline and expert parallel), and how they are put together again: the *)
(* loaders, savers and converters of src/verl/models and megatron_utils.   *)
(*                                                                         *)
(* A tensor is the sequence of its rows, or of its columns where it is cut *)
(* along dim 1; a row is the name of the tensor it belongs to and its      *)
(* number.  A name is <<kind, layer, expert>>, 0 where it has none.        *)
(***************************************************************************)
EXTENDS Integers, Sequences, FiniteSets
LOCAL INSTANCE SequencesExt
LOCAL INSTANCE FiniteSetsExt

Upto(n) == 0 .. (n - 1)
Slice(s, a, b) == SubSeq(s, a + 1, b)
Chunk(s, n, i) == Slice(s, i * (Len(s) \div n), (i + 1) * (Len(s) \div n))
Cat(parts) == FlattenSeq([i \in 1 .. Cardinality(DOMAIN parts) |-> parts[i - 1]])
Rows(name, n) == [i \in 1 .. n |-> <<name, i - 1>>]
Vpp(m) == IF m.vpp = 0 THEN 1 ELSE m.vpp
IsMoe(m) == m.family \notin {"gpt", "llama", "qwen2"}

(* The rows a tensor of the checkpoint has. *)
HfSize(m, kind) ==
    CASE kind \in {"q_proj", "q_bias"} -> m.heads * m.head_dim
      [] kind \in {"k_proj", "v_proj", "k_bias", "v_bias"} -> m.kv_heads * m.head_dim
      [] kind = "o_proj" -> m.heads * m.head_dim
      [] kind \in {"gate_proj", "up_proj", "down_proj", "q_b_proj", "kv_b_proj"} -> m.inter
      [] kind \in {"shared_gate_proj", "shared_up_proj", "shared_down_proj"} -> m.inter
      [] kind = "embed_tokens" -> m.vocab
      [] kind = "lm_head" -> IF m.hf_head = "value" THEN 1 ELSE m.vocab
      [] OTHER -> 1

HfTensor(m, name) ==
    IF name[1] = "lm_head" /\ m.tie THEN Rows(<<"embed_tokens", 0, 0>>, m.vocab) ELSE Rows(name, HfSize(m, name[1]))

---------------------------------------------------------------------------
(* Ranks and layers. *)

Ranks(m) == Upto(m.tp) \X Upto(m.dp) \X Upto(m.pp)
ExpertRank(m, r) == r[2] % m.ep

(* The number Megatron gives a rank: its order is tp, then dp, then pp.    *)
RankNumber(m, r) == r[1] + m.tp * r[2] + m.tp * m.dp * r[3]

calc_global_rank(m, tp, dp, pp) == (pp * m.dp + dp) * m.tp + tp

RankOf(m, tp, dp, pp) == CHOOSE r \in Ranks(m) : RankNumber(m, r) = calc_global_rank(m, tp, dp, pp)

(* The layers a chunk of a pipeline stage is built with, by Megatron.      *)
MiddleStages(m) == m.pp - Cardinality({s \in {m.first_layers, m.last_layers} : s # 0})
ChunkLayers(m, p, v) ==
    LET middle == m.layers - m.first_layers - m.last_layers
    IN  (CASE p = 0 /\ m.first_layers # 0 -> m.first_layers
           [] p = m.pp - 1 /\ m.last_layers # 0 -> m.last_layers
           [] OTHER -> middle \div MiddleStages(m)) \div Vpp(m)

(* The number of a chunk's first layer in the whole model: the chunks that *)
(* run before it are those of earlier virtual stages and, within one, of   *)
(* earlier stages.                                                         *)
ChunksBefore(m, p, v) == {c \in Upto(m.pp) \X Upto(Vpp(m)) : c[2] < v \/ (c[2] = v /\ c[1] < p)}
FirstLayer(m, p, v) == MapThenSumSet(LAMBDA c : ChunkLayers(m, c[1], c[2]), ChunksBefore(m, p, v))

(* Where the loader and the saver look for a layer. *)
calc_layer_map(m) ==
    LET n == (m.layers \div m.pp) \div Vpp(m)
    IN  [layer \in Upto(m.layers) |->
           CHOOSE c \in Upto(m.pp) \X Upto(Vpp(m)) \X Upto(n) :
             layer = c[2] * (m.layers \div Vpp(m)) + c[1] * n + c[3]]

(* Mutant: the virtual stages follow each other within a pipeline stage. *)
StageMajor(m, p, v) == (p * Vpp(m) + v) * ((m.layers \div m.pp) \div Vpp(m))
(* The offset the export adds to a chunk's layer numbers. *)
get_transformer_layer_offset(m, p, v) ==
    LET stages  == MiddleStages(m)
        middle  == m.layers - m.first_layers - m.last_layers
        virtual == (m.first_layers \div Vpp(m)) + (middle \div Vpp(m)) + (m.last_layers \div Vpp(m))
        perRank == IF stages > 0 THEN middle \div stages ELSE 0
    IN  CASE m.pp = 1 -> 0
          [] m.pp > 1 /\ m.first_layers = 0 /\ m.last_layers = 0 /\ m.vpp # 0 ->
               v * (m.layers \div m.vpp) + p * ((m.layers \div m.pp) \div m.vpp)
          [] m.pp > 1 /\ m.first_layers = 0 /\ m.last_layers = 0 /\ m.vpp = 0 -> p * (m.layers \div m.pp)
          [] m.pp > 1 /\ m.first_layers + m.last_layers # 0 /\ m.vpp # 0 ->
               IF p = 0 THEN v * virtual
               ELSE v * virtual + (m.first_layers \div m.vpp) + (p - 1) * ((middle \div m.vpp) \div stages)
          [] m.pp > 1 /\ m.first_layers + m.last_layers # 0 /\ m.vpp = 0 ->
               IF p = 0 THEN 0
               ELSE (IF m.first_layers = 0 THEN p ELSE p - 1) * perRank + m.first_layers

---------------------------------------------------------------------------
(* Cutting the full tensors for the tensor-parallel ranks. *)

(* Mutant: the key and value of a group follow the queries of all groups. *)
QkvUngrouped(m, q, k, v, t) == Chunk(q, m.tp, t) \o Chunk(k, m.tp, t) \o Chunk(v, m.tp, t)
(* Megatron's layer wants, for every group of query heads, its queries,    *)
(* then its key, then its value.                                           *)
qkv_of_gpt(m, q, k, v, t) ==
    LET groups == m.kv_heads \div m.tp
        Group(j) == Chunk(Chunk(q, m.tp, t), groups, j) \o Chunk(Chunk(k, m.tp, t), groups, j)
                    \o Chunk(Chunk(v, m.tp, t), groups, j)
    IN  Cat([j \in Upto(groups) |-> Group(j)])

(* The layers of models/llama and models/qwen2 want all queries, all keys, *)
(* all values of the rank.                                                 *)
qkv_of_llama(m, q, k, v, t) == Chunk(q, m.tp, t) \o Chunk(k, m.tp, t) \o Chunk(v, m.tp, t)
qkv_of_qwen2(m, q, k, v, t) == Chunk(q, m.tp, t) \o Chunk(k, m.tp, t) \o Chunk(v, m.tp, t)

QkvShard(m, q, k, v, t) ==
    CASE m.family = "llama" -> qkv_of_llama(m, q, k, v, t)
      [] m.family = "qwen2" -> qkv_of_qwen2(m, q, k, v, t)
      [] OTHER -> qkv_of_gpt(m, q, k, v, t)

(* What the attention layers compute with: Megatron's goes through the     *)
(* groups of its rank, the others through its heads.                       *)
AttentionWants(m, q, k, v, t) ==
    LET d  == m.head_dim
        qg == (m.heads \div m.kv_heads) * d
        OfGroup(j) == LET g == t * (m.kv_heads \div m.tp) + j
                      IN  Slice(q, g * qg, (g + 1) * qg) \o Slice(k, g * d, (g + 1) * d) \o Slice(v, g * d, (g + 1) * d)
        OfHeads(x, n) == Slice(x, t * n * d, (t + 1) * n * d)
    IN  IF m.family \in {"llama", "qwen2"}
        THEN OfHeads(q, m.heads \div m.tp) \o OfHeads(k, m.kv_heads \div m.tp) \o OfHeads(v, m.kv_heads \div m.tp)
        ELSE Cat([j \in Upto(m.kv_heads \div m.tp) |-> OfGroup(j)])

(* Mutant: gate and up are stacked before they are cut. *)
GateAboveUp(m, gate, up, t) == Chunk(gate \o up, m.tp, t)
gate_up_shard(m, gate, up, t) ==
    LET n == m.inter \div m.tp
    IN  Slice(gate, t * n, (t + 1) * n) \o Slice(up, t * n, (t + 1) * n)

---------------------------------------------------------------------------
(* Putting the shards together again; parts is the function of the tensor- *)
(* parallel ranks to their shards.                                         *)

(* Mutant: the saver takes the shard of a rank as one group. *)
OneGroup(m, parts) ==
    LET qn == (m.heads * m.head_dim) \div m.tp
        kn == (m.kv_heads * m.head_dim) \div m.tp
    IN  <<Cat([t \in Upto(m.tp) |-> Slice(parts[t], 0, qn)]), Cat([t \in Upto(m.tp) |-> Slice(parts[t], qn, qn + kn)]),
          Cat([t \in Upto(m.tp) |-> Slice(parts[t], qn + kn, qn + 2 * kn)])>>
(* The saver of the Megatron models cuts every shard into its groups.      *)
merge_qkv_of_gpt(m, parts) ==
    LET groups == m.kv_heads \div m.tp
        qn == ((m.heads * m.head_dim) \div m.tp) \div groups
        kn == ((m.kv_heads * m.head_dim) \div m.tp) \div groups
        Cut(a, b) == Cat([t \in Upto(m.tp) |-> Cat([j \in Upto(groups) |-> Slice(Chunk(parts[t], groups, j), a, b)])])
    IN  <<Cut(0, qn), Cut(qn, qn + kn), Cut(qn + kn, qn + 2 * kn)>>

merge_qkv_of_llama(m, parts) ==
    LET qn == (m.heads * m.head_dim) \div m.tp
        kn == (m.kv_heads * m.head_dim) \div m.tp
        Cut(a, b) == Cat([t \in Upto(m.tp) |-> Slice(parts[t], a, b)])
    IN  <<Cut(0, qn), Cut(qn, qn + kn), Cut(qn + kn, qn + 2 * kn)>>
merge_qkv_of_qwen2(m, parts) == merge_qkv_of_llama(m, parts)

MergeQkv(m, parts) ==
    CASE m.family = "llama" -> merge_qkv_of_llama(m, parts)
      [] m.family = "qwen2" -> merge_qkv_of_qwen2(m, parts)
      [] OTHER -> merge_qkv_of_gpt(m, parts)

merge_gate_up(m, parts) ==
    LET n == m.inter \div m.tp
    IN  <<Cat([t \in Upto(m.tp) |-> Slice(parts[t], 0, n)]), Cat([t \in Upto(m.tp) |-> Slice(parts[t], n, 2 * n)])>>

(* What the export makes of the gathered shards of a parameter: the list   *)
(* of tensors the converter names.                                         *)
default_tp_concat_fn(m, kind, parts) ==
    LET n      == Cardinality(DOMAIN parts)
        perKv  == m.heads \div m.kv_heads
        kvSize == Len(parts[0]) \div (perKv + 2)
        groups == m.kv_heads \div m.tp
        split  == <<0, (kvSize * perKv) \div groups, (kvSize * perKv + kvSize) \div groups, (kvSize * perKv + 2 * kvSize) \div groups>>
        Qkv(i) == Cat([t \in Upto(n) |-> Cat([j \in Upto(groups) |-> Slice(Chunk(parts[t], groups, j), split[i], split[i + 1])])])
    IN  CASE kind \in {"linear_qkv", "linear_qkv_bias"} -> <<Qkv(1), Qkv(2), Qkv(3)>>
          [] kind \in {"linear_fc1", "shared_fc1", "experts_fc1"} ->
               <<Cat([t \in Upto(n) |-> Chunk(parts[t], 2, 0)]), Cat([t \in Upto(n) |-> Chunk(parts[t], 2, 1)])>>
          [] OTHER -> <<Cat(parts)>>

=============================================================================
