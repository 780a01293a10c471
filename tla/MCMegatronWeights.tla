-------------------------- MODULE MCMegatronWeights --------------------------
(* Small models and layouts for TLC.                                       *)
EXTENDS MegatronWeights

Dense == [family |-> "gpt", loader |-> "broadcast", tp |-> 2, dp |-> 1, pp |-> 2, vpp |-> 0, ep |-> 1, layers |-> 2,
          first_layers |-> 0, last_layers |-> 0, heads |-> 4, kv_heads |-> 2, head_dim |-> 2, inter |-> 4, vocab |-> 4, experts |-> 0,
          value |-> FALSE, hf_head |-> "lm", tie |-> FALSE, bias |-> FALSE, qk_norm |-> FALSE]

MCModels == {
    \* the Megatron models: groups of two queries, virtual stages, biases, norms, tied embeddings
    [Dense EXCEPT !.vpp = 2, !.layers = 4, !.bias = TRUE],
    [Dense EXCEPT !.kv_heads = 4, !.qk_norm = TRUE],
    [Dense EXCEPT !.pp = 1, !.tie = TRUE, !.head_dim = 1, !.heads = 8, !.kv_heads = 4],
    [Dense EXCEPT !.tie = TRUE, !.tp = 1],
    \* critics: a head the checkpoint lacks, and one it has
    [Dense EXCEPT !.value = TRUE],
    [Dense EXCEPT !.value = TRUE, !.hf_head = "value", !.dp = 2],
    [Dense EXCEPT !.value = TRUE, !.hf_head = "reward"],
    \* the layers of models/llama and models/qwen2, with both of their loaders
    [Dense EXCEPT !.family = "llama"],
    [Dense EXCEPT !.family = "llama", !.loader = "fetch", !.vpp = 2, !.layers = 4, !.value = TRUE, !.hf_head = "reward"],
    [Dense EXCEPT !.family = "qwen2", !.bias = TRUE, !.value = TRUE],
    [Dense EXCEPT !.family = "qwen2", !.loader = "fetch", !.bias = TRUE, !.tie = TRUE, !.pp = 1, !.value = TRUE, !.hf_head = "value"],
    \* mixtures of experts, from a Megatron checkpoint; stages of unequal length
    [Dense EXCEPT !.family = "qwen2_moe", !.loader = "dist", !.bias = TRUE, !.pp = 1, !.dp = 2, !.ep = 2, !.experts = 4],
    [Dense EXCEPT !.family = "qwen3_moe", !.loader = "dist", !.experts = 2, !.pp = 3, !.layers = 5, !.first_layers = 1, !.tp = 1],
    [Dense EXCEPT !.family = "mixtral", !.loader = "dist", !.experts = 2, !.pp = 3, !.vpp = 2, !.layers = 8, !.first_layers = 4, !.tp = 1],
    [Dense EXCEPT !.family = "deepseek_v3", !.loader = "dist", !.experts = 2, !.pp = 2, !.layers = 4, !.first_layers = 2, !.dp = 2, !.ep = 2, !.tp = 1]}
=============================================================================
