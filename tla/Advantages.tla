----------------------------- MODULE Advantages ------------------------------
(***************************************************************************)
(* verl/trainer/ppo/core_algos.py: the advantage estimators.  A row is one *)
(* response, a record with uid (of its prompt), tokens (of the response),  *)
(* score, valid and progress (twice half the reward of its stage).  `r`    *)
(* gives the rewards of the tokens of every row, a response being padded   *)
(* to ResponseLength.  gamma and lambda are one, as configured by default; *)
(* the divisions by a deviation, of a group or of the batch, which scale,  *)
(* are left out, and a mean is multiplied out.                             *)
(***************************************************************************)
EXTENDS Integers, SequencesExt, FiniteSetsExt

CONSTANT ResponseLength

ASSUME ResponseLengthAssumption == ResponseLength \in Nat \ {0}

Positions == 1 .. ResponseLength

(* attention_mask over the response *)
Masked(row, t) == t <= row.tokens

(* The episode's reward at the last token, and the penalty of an invalid   *)
(* action, with a coefficient of one.                                       *)
TokenScores(row) ==
  [t \in Positions |-> IF t = row.tokens THEN (IF row.valid THEN row.score ELSE row.score - 1) ELSE 0]

(* apply_kl_penalty with a coefficient of one, for a row whose tokens all   *)
(* have the divergence kld                                                  *)
WithKl(row, kld) == [t \in Positions |-> TokenScores(row)[t] - (IF Masked(row, t) THEN kld ELSE 0)]

(* compute_values: the value at t is of the state before t, and is kept     *)
(* where that state's last token is one of the row.                         *)
MaskedValues(row, value) == [t \in Positions |-> IF Masked(row, t - 1) THEN value ELSE 0]

(* masked_whiten: of the value at every token the mean over all tokens of   *)
(* the batch is taken, times their number.                                  *)
Answered(rows) == {c \in (DOMAIN rows) \X Positions : Masked(rows[c[1]], c[2])}

masked_whiten(rows, values, i) ==
  LET tokens == Answered(rows)
      sum == MapThenSumSet(LAMBDA c : values[c[1]][c[2]], tokens)
  IN  [t \in Positions |-> (Cardinality(tokens) * values[i][t]) - sum]

(* The deviation of a single token raises. *)
CanWhiten(rows) == Cardinality(Answered(rows)) > 1

KeepMasked(row, values) == [t \in Positions |-> IF Masked(row, t) THEN values[t] ELSE 0]

compute_gae_advantage_return(rows, r, values, i) ==
  LET next(j, t) == IF t < ResponseLength THEN values[j][t + 1] ELSE 0
      gae[j \in DOMAIN rows, t \in 1 .. ResponseLength + 1] ==
        IF t > ResponseLength THEN 0 ELSE (r[j][t] + next(j, t) - values[j][t]) + gae[j, t + 1]
  IN  [adv |-> masked_whiten(rows, [j \in DOMAIN rows |-> [t \in Positions |-> gae[j, t]]], i),
       ret |-> [t \in Positions |-> gae[i, t] + values[i][t]]]

(* The running return is reset after every token outside the mask. *)
compute_reinforce_plus_plus_outcome_advantage(rows, r, i) ==
  LET running[j \in DOMAIN rows, t \in 1 .. ResponseLength + 1] ==
        IF t > ResponseLength THEN 0
        ELSE r[j][t] + (IF t < ResponseLength /\ Masked(rows[j], t + 1) THEN running[j, t + 1] ELSE 0)
      returns == [j \in DOMAIN rows |-> [t \in Positions |-> running[j, t]]]
  IN  [adv |-> KeepMasked(rows[i], masked_whiten(rows, returns, i)), ret |-> returns[i]]

----------------------------------------------------------------------------
(* The estimators that compare the rows of one prompt.  Every row counts,  *)
(* also the several steps of one trajectory (compute_mean_std_cross_steps).*)

Group(rows, i) == {j \in DOMAIN rows : rows[j].uid = rows[i].uid}

Along(rows, i, amount) ==
  LET tokens == KeepMasked(rows[i], [t \in Positions |-> amount]) IN [adv |-> tokens, ret |-> tokens]

Score(r) == [j \in DOMAIN r |-> FoldFunctionOnSet(+, 0, r[j], Positions)]

(* Mutant: a row that was copied is counted once. *)
CenteredOfDistinct(rows, i, score) ==
  LET group == {j \in Group(rows, i) : \A k \in Group(rows, i) : rows[k].id = rows[j].id => j <= k}
  IN  IF Cardinality(group) = 1 THEN score[i]
      ELSE (Cardinality(group) * score[i]) - FoldFunctionOnSet(+, 0, score, group)

(* A score minus the mean of its group, times the size of the group; the   *)
(* mean of a group of one is zero.                                          *)
Centered(rows, i, score) ==
  LET group == Group(rows, i)
  IN  IF Cardinality(group) = 1 THEN score[i]
      ELSE (Cardinality(group) * score[i]) - FoldFunctionOnSet(+, 0, score, group)

compute_grpo_outcome_advantage(rows, r, i) == Along(rows, i, Centered(rows, i, Score(r)))

(* Twice the score with half the reward of the row's stage. *)
compute_grpo_progress_advantage(rows, r, i) ==
  Along(rows, i, Centered(rows, i, [j \in DOMAIN rows |-> (2 * Score(r)[j]) + rows[j].progress]))

(* What is centered within the groups is whitened over the batch, for which *)
(* the groups' sizes are brought to one multiple.                           *)
compute_reinforce_plus_plus_baseline_outcome_advantage(rows, r, i) ==
  LET size(j) == Cardinality(Group(rows, j))
      multiple == ProductSet({size(j) : j \in DOMAIN rows})
      scores == [j \in DOMAIN rows |-> Along(rows, j, (multiple \div size(j)) * Centered(rows, j, Score(r))).adv]
      white == KeepMasked(rows[i], masked_whiten(rows, scores, i))
  IN  [adv |-> white, ret |-> white]

(* The baseline is the mean of the others: times their number. *)
compute_rloo_outcome_advantage(rows, r, i) ==
  LET others == Group(rows, i) \ {i}
  IN  Along(rows, i, (IF others = {} THEN 1 ELSE Cardinality(others)) * Score(r)[i] - FoldFunctionOnSet(+, 0, Score(r), others))

(* Pass@k needs two rows of every prompt. *)
CanPassK(rows) == \A i \in DOMAIN rows : Cardinality(Group(rows, i)) > 1

(* The best row's lead over the second best; of equal ones topk takes one. *)
compute_grpo_passk_outcome_advantage(rows, r, i) ==
  LET score == Score(r)
      better(j, k) == score[j] > score[k] \/ (score[j] = score[k] /\ j < k)
      best == CHOOSE j \in Group(rows, i) : \A k \in Group(rows, i) \ {j} : better(j, k)
  IN  Along(rows, i, IF i # best THEN 0 ELSE score[i] - Max({score[k] : k \in Group(rows, i) \ {i}}))

----------------------------------------------------------------------------
(* compute_pf_ppo_reweight_data: any rows may be drawn, as many as there   *)
(* are, for every weight is above zero.                                     *)
compute_pf_ppo_reweight_data(rows) == [DOMAIN rows -> DOMAIN rows]
=============================================================================
