---------------------------- MODULE MCTrainStep ----------------------------
(***************************************************************************)
(* Instances of TrainStep: two ranks, the backends' and the batch sizes'   *)
(* ways of cutting, and batches of one to six rows.                        *)
(***************************************************************************)
EXTENDS TrainStep

Micro(rollout, ref, actor, critic) ==
  [old_log_probs |-> rollout, ref_log_prob |-> ref, update_actor |-> actor, values |-> critic, update_critic |-> critic]

Text == [backend |-> "fsdp", multi_modal |-> FALSE, dynamic |-> FALSE, balance |-> TRUE, estimator |-> "grpo",
         pf_ppo |-> FALSE, ref |-> FALSE, kl |-> FALSE, sp |-> 1, vpp |-> 1, train |-> 2, n |-> 2, mini |-> 2,
         given |-> "per_gpu", loss_agg_mode |-> "token-mean", micro |-> Micro(1, 1, 2, 1)]

Configs == {
  Text,
  [Text EXCEPT !.dynamic = TRUE, !.ref = TRUE, !.micro = Micro(1, 1, 1, 1)],
  [Text EXCEPT !.estimator = "gae", !.balance = FALSE, !.micro = Micro(2, 1, 1, 2)],
  [Text EXCEPT !.dynamic = TRUE, !.sp = 2, !.balance = FALSE, !.micro = Micro(1, 1, 1, 1)],
  [Text EXCEPT !.multi_modal = TRUE, !.micro = Micro(1, 1, 1, 1)],
  [Text EXCEPT !.multi_modal = TRUE, !.dynamic = TRUE],
  [Text EXCEPT !.backend = "megatron", !.dynamic = TRUE, !.vpp = 2, !.micro = Micro(1, 1, 1, 1)],
  [Text EXCEPT !.backend = "megatron", !.estimator = "gae", !.micro = Micro(1, 1, 1, 1)]}

(* The other ways of making one loss of the tokens', with fixed and dynamic *)
(* batch sizes.                                                             *)
Aggregated ==
  {[c EXCEPT !.loss_agg_mode = a] :
     c \in {Text, [Text EXCEPT !.dynamic = TRUE, !.balance = FALSE, !.micro = Micro(1, 1, 1, 1)]},
     a \in {"seq-mean-token-sum", "seq-mean-token-mean", "seq-mean-token-sum-norm"}}
  \union {[Text EXCEPT !.dynamic = TRUE, !.sp = 2, !.balance = FALSE, !.loss_agg_mode = "seq-mean-token-mean",
                       !.micro = Micro(1, 1, 1, 1)],
          [Text EXCEPT !.multi_modal = TRUE, !.loss_agg_mode = "seq-mean-token-mean", !.micro = Micro(1, 1, 1, 1)]}

Estimators == {[Text EXCEPT !.estimator = e, !.ref = TRUE, !.kl = TRUE] :
                 e \in {"grpo_prm", "grpo_passk", "remax", "rloo", "reinforce_plus_plus", "reinforce_plus_plus_baseline"}}

Redrawn == [Text EXCEPT !.estimator = "gae", !.pf_ppo = TRUE, !.kl = TRUE, !.ref = TRUE, !.dynamic = TRUE, !.micro = Micro(1, 1, 1, 1)]

Row(uid, tokens, score, valid) ==
  [uid |-> uid, tokens |-> tokens, score |-> score, valid |-> valid, progress |-> tokens - 1]

Kinds == {Row(1, 1, 0, TRUE), Row(1, 3, 2, TRUE), Row(2, 2, 1, FALSE)}

Six == <<Row(1, 3, 0, TRUE), Row(1, 2, 2, TRUE), Row(1, 2, 2, FALSE), Row(2, 1, 0, TRUE), Row(2, 2, 2, TRUE), Row(2, 3, 0, TRUE)>>

Small(n) == [1 .. n -> Kinds]

Batches == Small(1) \union Small(2) \union Small(3) \union {SubSeq(Six, 1, n) : n \in 4 .. 6}

(* Sizes that are refused, or given for all GPUs together. *)
Sized == {[Text EXCEPT !.given = g, !.dynamic = d] : g \in {"total", "both", "none"}, d \in BOOLEAN}
           \union {[Text EXCEPT !.estimator = "gae", !.mini = 4],
                   [Text EXCEPT !.estimator = "gae", !.multi_modal = TRUE, !.micro = Micro(1, 1, 1, 1)], [Text EXCEPT !.train = 1, !.n = 1]}

(* Twenty rows per rank and mini-batches of eight make two chunks of ten, and *)
(* micro-batches of four make two of five of each.                           *)
Uneven == [Text EXCEPT !.multi_modal = TRUE, !.balance = FALSE, !.estimator = "reinforce_plus_plus",
                         !.loss_agg_mode = "seq-mean-token-mean", !.mini = 8, !.micro = Micro(4, 4, 4, 4)]

SomeCases ==
  {[conf |-> Uneven, rows |-> [i \in 1 .. 40 |-> Row(i, 1, 1, TRUE)]]} \union
  [conf : Sized, rows : Small(1)] \union
  [conf : Configs, rows : Batches]
    \union [conf : Aggregated, rows : Small(2) \union {SubSeq(Six, 1, n) : n \in 3 .. 6}]
    \union [conf : Estimators, rows : Small(2) \union Small(3) \union {Six}]
    \union [conf : {Redrawn}, rows : Small(2)]
=============================================================================
