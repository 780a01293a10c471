------------------------------ MODULE TrainStep ------------------------------
(***************************************************************************)
(* One training step on the batch the rollout collected: the driver fills  *)
(* the batch up and balances it, has the workers compute the numbers of    *)
(* each row (log-probs of the actor and of the reference, values of the    *)
(* critic), computes the advantages and has the critic and the actor       *)
(* updated.  A call cuts the batch over the ranks; each rank cuts its rows *)
(* into mini-batches and micro-batches and runs the model on these one by  *)
(* one, with a collective for every forward pass, for every optimizer step *)
(* and, with a dynamic batch size, for the number of micro-batches.  A     *)
(* collective ends when every rank has joined it, so ranks that disagree   *)
(* about how many there are wait for each other for ever.                  *)
(*                                                                         *)
(* The number computed for a row is stood for by the row's id.  With       *)
(* Megatron a rank stands for its whole model-parallel group; shuffling    *)
(* of mini-batches is off, as the default configuration has it.            *)
(***************************************************************************)
EXTENDS SeqlenBalancing, Dispatch, Advantages, BatchSizes

CONSTANTS
  Cases,         \* a configuration, as below, and what the rollout may have collected with it,
                 \* a sequence of [uid, tokens, score, valid, progress]: [conf, rows]
  MaxTokenLen,   \* tokens a micro-batch should have at most, with a dynamic batch size
  Epochs,        \* ppo_epochs
  Unit           \* a number every count of rows or tokens of a micro-batch divides, to count weights in

Rank == 0 .. WorldSize - 1

(* The workers' methods, in the order fit calls them. *)
Calls == <<"old_log_probs", "ref_log_prob", "values", "update_critic", "update_actor">>
Updates == {"update_critic", "update_actor"}

(* How the losses of a micro-batch's tokens make one: loss_agg_mode, of     *)
(* which two are a mean over rows.                                          *)
RowMeans == {"seq-mean-token-sum", "seq-mean-token-mean"}
LossAggModes == RowMeans \union {"token-mean", "seq-mean-token-sum-norm"}

(* A configuration has, besides the sizes of BatchSizes and loss_agg_mode,  *)
(* multi_modal, balance, pf_ppo, kl (use_kl_in_reward, which makes fit need *)
(* a reference) and vpp (microbatch group of the virtual pipeline, 1        *)
(* without one).  Only FSDP workers have Ulysses groups, which divide the   *)
(* ranks, and only Megatron's a virtual pipeline.  A micro-batch may hold   *)
(* at least one row.                                                        *)
IsConf(c) ==
  /\ c.backend \in {"fsdp", "megatron"} /\ c.given \in {"per_gpu", "total", "both", "none"}
  /\ c.loss_agg_mode \in LossAggModes
  /\ {c.multi_modal, c.dynamic, c.balance, c.pf_ppo, c.ref, c.kl} \subseteq BOOLEAN
  /\ {c.sp, c.vpp, c.train, c.n, c.mini} \union {c.micro[Calls[i]] : i \in DOMAIN Calls} \subseteq Nat \ {0}
  /\ IF c.backend = "fsdp" THEN c.vpp = 1 /\ WorldSize % c.sp = 0 ELSE c.sp = 1
  /\ c.kl => c.ref
  /\ c.dynamic => ResponseLength <= MaxTokenLen * c.sp

(* Every row answers with at least one token. *)
IsRow(row) ==
  row.tokens \in Positions /\ row.score \in Int /\ row.valid \in BOOLEAN /\ row.progress \in Int

ASSUME StepAssumption ==
  /\ WorldSize \in Nat \ {0} /\ MaxTokenLen \in Nat \ {0} /\ Epochs \in Nat \ {0} /\ Unit \in Nat \ {0}
  /\ \A c \in Cases : /\ IsConf(c.conf) /\ Len(c.rows) \in Nat \ {0} /\ DOMAIN c.rows = 1 .. Len(c.rows)
                      /\ \A i \in DOMAIN c.rows : IsRow(c.rows[i])

VARIABLES
  conf, phase,
  batch,                             \* the driver's rows: [id, uid, tokens, score, valid, progress]
  numbers,                           \* numbers[call][i], what a call gave for row i
  adv,                               \* of row i's tokens: [adv, ret], once computed
  call,                              \* the call under way or last made, its place in Calls
  held,                              \* held[r]: the rows of a rank
  stage, todo,                       \* per rank: where it is, the mini-batches left
  plan, ran,                         \* the micro-batches of the first of these, and how many were run
  order,                             \* order[r]: the places of its rows in the order they were run
  log,                               \* log[r]: the collectives the rank has joined in this call
  trained                            \* trained[r][i]: the weight of its i-th row in the steps so far

driver == <<conf, phase, batch, numbers, adv, call>>
ranks == <<held, stage, todo, plan, ran, order, log, trained>>
vars == <<driver, ranks>>

MiniSize == MiniBatchSize(conf)
MicroSize == MicroBatchSize(conf, Calls[call])

Init ==
  /\ phase = "collected"
  /\ \E case \in {c \in Cases : Startable(c.conf)} :
       LET rows == case.rows IN
       /\ conf = case.conf
       /\ batch = [i \in DOMAIN rows |->
                  [id |-> i, uid |-> rows[i].uid, tokens |-> rows[i].tokens, score |-> rows[i].score,
                   valid |-> rows[i].valid, progress |-> rows[i].progress]]
  /\ numbers = << >> /\ adv = << >> /\ call = 0
  /\ held = [r \in Rank |-> << >>] /\ stage = [r \in Rank |-> "idle"]
  /\ todo = [r \in Rank |-> << >>] /\ plan = [r \in Rank |-> << >>] /\ ran = [r \in Rank |-> 0]
  /\ order = [r \in Rank |-> << >>]
  /\ log = [r \in Rank |-> << >>] /\ trained = [r \in Rank |-> << >>]

----------------------------------------------------------------------------
(* The driver *)

lcm(a, b) == CHOOSE n \in 1 .. a * b : n % a = 0 /\ n % b = 0 /\ \A m \in 1 .. n - 1 : m % a # 0 \/ m % b # 0

(* Mutant: the update's micro-batches are forgotten. *)
DivisorOfInference(c) == lcm(WorldSize * c.micro.ref_log_prob, WorldSize * c.micro.old_log_probs)

SizeDivisor(c) ==
  lcm(lcm(WorldSize * c.micro.ref_log_prob, WorldSize * c.micro.old_log_probs), WorldSize * c.micro.update_actor)

(* adjust_batch, as fit calls it: random rows are copied to the end until *)
(* the number of rows divides.  It knows the sizes per GPU only if they   *)
(* were configured so, and raises otherwise.                              *)
AdjustBatch ==
  /\ phase = "collected"
  /\ IF PerGpuKnown(conf)
     THEN /\ phase' = "adjusted"
          /\ \E copies \in [1 .. PadSize(Len(batch), SizeDivisor(conf)) -> DOMAIN batch] :
               batch' = batch \o [i \in DOMAIN copies |-> batch[copies[i]]]
     ELSE phase' = "failed" /\ UNCHANGED batch
  /\ UNCHANGED <<conf, numbers, adv, call, ranks>>

TokensOf(rows) == [i \in DOMAIN rows |-> rows[i].tokens]

(* The rows of one rank's part after those of another's. *)
Balanced(rows, parts) == LET idx == Concat(parts) IN [i \in DOMAIN rows |-> rows[idx[i]]]

(* _balance_batch *)
BalanceBatch ==
  /\ phase = "adjusted"
  /\ LET lens == TokensOf(batch)
         parts == get_seqlen_balanced_partitions(lens, WorldSize, TRUE)
     IN  IF ~conf.balance
         THEN phase' = "ready" /\ UNCHANGED batch
         ELSE IF CanPartition(lens, WorldSize, TRUE) /\ Partitioned(lens, WorldSize, TRUE, parts)
         THEN phase' = "ready" /\ batch' = Balanced(batch, parts)
         ELSE phase' = "failed" /\ UNCHANGED batch
  /\ UNCHANGED <<conf, numbers, adv, call, ranks>>

(* A call fit makes in this configuration. *)
Made(c) ==
  CASE Calls[c] = "ref_log_prob" -> conf.ref
    [] Calls[c] \in {"values", "update_critic"} -> UseCritic(conf)
    [] OTHER -> TRUE

NextCall == Min({c \in call + 1 .. Len(Calls) : Made(c)})

(* The ranks of r's Ulysses group, which all work on the rows of each of them. *)
SpGroup(r) == {q \in Rank : q \div conf.sp = r \div conf.sp}

(* The rows a rank works on: its chunk, gathered over its Ulysses group. *)
RowsOf(r) ==
  LET n == Len(batch) \div WorldSize
  IN  SubSeq(batch, (Min(SpGroup(r)) * n) + 1, (Max(SpGroup(r)) + 1) * n)

Places(n) == [i \in 1 .. n |-> i]

(* TensorDict.split: parts of a size, the last one what is left. *)
SplitBy(seq, size) ==
  [k \in 1 .. ceildiv(Len(seq), size) |-> SubSeq(seq, ((k - 1) * size) + 1, Min({k * size, Len(seq)}))]

(* DataProto.chunk finds equal parts; zero parts are none. *)
EvenChunk(n, parts) == parts > 0 /\ n % parts = 0

(* The mini-batches of an update of n rows, or that there are none. *)
CanMiniBatch(n) ==
  /\ MiniSize > 0
  /\ CASE conf.multi_modal -> EvenChunk(n, n \div MiniSize)
       [] ~conf.multi_modal /\ conf.backend = "megatron" -> n % MiniSize = 0
       [] OTHER -> TRUE

MiniBatches(n) ==
  IF conf.multi_modal THEN Chunk(Places(n), n \div MiniSize) ELSE SplitBy(Places(n), MiniSize)

(* What a rank has to do in a call: all its rows at once, or its            *)
(* mini-batches as often as there are epochs.                               *)
Work(name, n) ==
  IF name \in Updates THEN Concat([e \in 1 .. Epochs |-> MiniBatches(n)]) ELSE <<Places(n)>>

(* The driver calls a method of all workers. *)
Call ==
  /\ phase \in {"ready", "advised"} /\ call < Len(Calls)
  /\ Calls[NextCall] \in Updates <=> phase = "advised"
  /\ call' = NextCall /\ phase' = "calling"
  /\ held' = [r \in Rank |-> RowsOf(r)]
  /\ stage' = [r \in Rank |-> "called"]
  /\ order' = [r \in Rank |-> << >>] /\ log' = [r \in Rank |-> << >>]
  /\ trained' = [r \in Rank |-> [i \in 1 .. Len(held'[r]) |-> 0]]
  /\ UNCHANGED <<conf, batch, numbers, adv, todo, plan, ran>>

(* The rank of a Ulysses group gives its own part of the group's rows back. *)
PartOfGroup(r, result) ==
  LET n == Len(batch) \div WorldSize IN SubSeq(result, ((r % conf.sp) * n) + 1, ((r % conf.sp) + 1) * n)

(* The numbers of a rank's rows, put back into the order of the rows after  *)
(* rearranged micro-batches; otherwise they are in that order.              *)
ResultOf(r) ==
  LET out == [i \in DOMAIN order[r] |-> held[r][order[r][i]].id]
  IN  IF conf.dynamic THEN [i \in DOMAIN out |-> out[get_reverse_idx(order[r])[i]]] ELSE out

CollectedNumbers == Concat([i \in 1 .. WorldSize |-> PartOfGroup(i - 1, ResultOf(i - 1))])

(* All have returned: the driver keeps the numbers beside its rows. *)
Return ==
  /\ phase = "calling" /\ \A r \in Rank : stage[r] = "returned"
  /\ IF Calls[call] \in Updates
     THEN UNCHANGED numbers /\ phase' = IF Calls[call] = "update_actor" THEN "done" ELSE "advised"
     ELSE /\ numbers' = [c \in DOMAIN numbers \union {Calls[call]} |->
                          IF c = Calls[call] THEN CollectedNumbers ELSE numbers[c]]
          /\ phase' = "ready"
  /\ UNCHANGED <<conf, batch, adv, call, ranks>>

(* The divergence of a row's old log-probs from the reference's. *)
Kld(i) == IF conf.kl THEN numbers.old_log_probs[i] - numbers.ref_log_prob[i] ELSE 0

TokenRewards == [i \in DOMAIN batch |-> WithKl(batch[i], Kld(i))]

Estimate(i) ==
  LET r == TokenRewards
  IN  CASE conf.estimator = "gae" ->
             compute_gae_advantage_return(batch, r, [j \in DOMAIN batch |-> MaskedValues(batch[j], numbers.values[j])], i)
        [] conf.estimator = "reinforce_plus_plus" -> compute_reinforce_plus_plus_outcome_advantage(batch, r, i)
        [] conf.estimator = "grpo" -> compute_grpo_outcome_advantage(batch, r, i)
        [] conf.estimator = "grpo_prm" -> compute_grpo_progress_advantage(batch, r, i)
        [] conf.estimator = "grpo_passk" -> compute_grpo_passk_outcome_advantage(batch, r, i)
        [] conf.estimator = "rloo" -> compute_rloo_outcome_advantage(batch, r, i)
        [] OTHER -> compute_reinforce_plus_plus_baseline_outcome_advantage(batch, r, i)

(* The baselines ReMax subtracts were put beside the rows the rollout's    *)
(* output has replaced since.                                               *)
CanEstimate ==
  /\ conf.estimator # "remax"
  /\ conf.estimator = "grpo_passk" => CanPassK(batch)
  /\ conf.estimator \in {"gae", "reinforce_plus_plus", "reinforce_plus_plus_baseline"} => CanWhiten(batch)

Drawn(f, pick) == [i \in DOMAIN pick |-> f[pick[i]]]

(* compute_advantage: with pf_ppo the rows are drawn anew, each with all    *)
(* its numbers.                                                             *)
ComputeAdvantage ==
  /\ phase = "ready" /\ call > 0 /\ Calls[NextCall] \in Updates
  /\ IF ~CanEstimate THEN phase' = "failed" /\ UNCHANGED <<batch, numbers, adv>>
     ELSE /\ phase' = "advised"
          /\ \E pick \in IF UseCritic(conf) /\ conf.pf_ppo THEN compute_pf_ppo_reweight_data(batch) ELSE {Places(Len(batch))} :
               /\ adv' = Drawn([i \in DOMAIN batch |-> Estimate(i)], pick)
               /\ batch' = Drawn(batch, pick)
               /\ numbers' = [c \in DOMAIN numbers |-> Drawn(numbers[c], pick)]
  /\ UNCHANGED <<conf, call, ranks>>

----------------------------------------------------------------------------
(* A rank *)

Join(r, op) == log' = [log EXCEPT ![r] = Append(@, op)]

(* Every rank has joined what r has joined. *)
Synced(r) == \A q \in Rank : Len(log[q]) >= Len(log[r])

Raise(r) == phase' = "failed" /\ UNCHANGED <<conf, batch, numbers, adv, call, ranks>>

(* The call begins at a rank. *)
Begin(r) ==
  /\ phase = "calling" /\ stage[r] = "called"
  /\ IF Calls[call] \in Updates => CanMiniBatch(Len(held[r]))
     THEN /\ todo' = [todo EXCEPT ![r] = Work(Calls[call], Len(held[r]))]
          /\ stage' = [stage EXCEPT ![r] = "next"]
          /\ UNCHANGED <<driver, held, plan, ran, order, log, trained>>
     ELSE Raise(r)

TokensAt(r, places) == [i \in DOMAIN places |-> held[r][places[i]].tokens]

(* The micro-batches of the places. *)
Rearranged(places, parts) == [j \in DOMAIN parts |-> [i \in DOMAIN parts[j] |-> places[parts[j][i]]]]

(* rearrange_micro_batches: the ranks settle on the largest number any has. *)
Ask(r) ==
  /\ phase = "calling" /\ stage[r] = "next" /\ todo[r] # << >> /\ Synced(r)
  /\ conf.dynamic /\ ~conf.multi_modal
  /\ Join(r, [op |-> "all_reduce", own |-> OwnMicroBatches(TokensAt(r, Head(todo[r])), MaxTokenLen * conf.sp)])
  /\ stage' = [stage EXCEPT ![r] = "asking"]
  /\ UNCHANGED <<driver, held, todo, plan, ran, order, trained>>

(* Mutant: each rank takes its own number. *)
OwnNumber(r) == roundup_divisible(log[r][Len(log[r])].own, conf.vpp)

Settled(r) ==
  LET at == Len(log[r]) IN roundup_divisible(Max({log[q][at].own : q \in Rank}), conf.vpp)

Rearrange(r) ==
  /\ phase = "calling" /\ stage[r] = "asking" /\ Synced(r)
  /\ LET lens == TokensAt(r, Head(todo[r]))
         parts == get_seqlen_balanced_partitions(lens, Settled(r), FALSE)
     IN  IF CanPartition(lens, Settled(r), FALSE) /\ Partitioned(lens, Settled(r), FALSE, parts)
         THEN /\ plan' = [plan EXCEPT ![r] = Rearranged(Head(todo[r]), parts)]
              /\ stage' = [stage EXCEPT ![r] = "running"]
              /\ ran' = [ran EXCEPT ![r] = 0]
              /\ UNCHANGED <<driver, held, todo, order, log, trained>>
         ELSE Raise(r)

(* Micro-batches of a fixed size, or even chunks of multi-modal rows. *)
Cut(r) ==
  /\ phase = "calling" /\ stage[r] = "next" /\ todo[r] # << >> /\ Synced(r)
  /\ conf.multi_modal \/ ~conf.dynamic
  /\ LET places == Head(todo[r])
         parts == Len(places) \div MicroSize
     IN  IF MicroSize > 0 /\ (conf.multi_modal => EvenChunk(Len(places), parts))
         THEN /\ plan' = [plan EXCEPT ![r] = IF conf.multi_modal THEN Chunk(places, parts) ELSE SplitBy(places, MicroSize)]
              /\ stage' = [stage EXCEPT ![r] = "running"]
              /\ ran' = [ran EXCEPT ![r] = 0]
              /\ UNCHANGED <<driver, held, todo, order, log, trained>>
         ELSE Raise(r)

(* The tokens of a row the loss counts: those answered, but the mask of     *)
(* FSDP's critic is of the states before them.                              *)
LossTokens(r, i) ==
  LET row == held[r][i] IN
  IF Calls[call] = "update_critic" /\ conf.backend = "fsdp"
  THEN Cardinality({t \in Positions : Masked(row, t - 1)}) ELSE row.tokens

(* Mutant: the mean over the tokens counts the padding. *)
MeanOverWidth(r, part, i, whole) ==
  CASE conf.loss_agg_mode = "token-mean" -> (whole * LossTokens(r, i)) \div (Len(part) * ResponseLength)
    [] conf.loss_agg_mode \in RowMeans -> whole \div Len(part)
    [] OTHER -> whole

(* agg_loss: what row i has of the whole, the weight of its micro-batch's   *)
(* loss: as many tokens of all, the mean by default, or one of the rows;    *)
(* or all of it, where the rows' sums are added up.                         *)
agg_loss(r, part, i, whole) ==
  CASE conf.loss_agg_mode = "token-mean" ->
         (whole * LossTokens(r, i)) \div MapThenSumSet(LAMBDA j : LossTokens(r, j), Range(part))
    [] conf.loss_agg_mode \in RowMeans -> whole \div Len(part)
    [] OTHER -> whole

(* The weight of a micro-batch's loss in its optimizer step, in units of    *)
(* 1 / (MiniSize * Unit).  FSDP workers multiply it by the micro-batch's    *)
(* share of a full mini-batch or divide it by the number of micro-batches   *)
(* that make one,                                                           *)
FsdpWeight(part) ==
  IF conf.dynamic THEN Unit * Len(part) ELSE (Unit * MiniSize) \div (MiniSize \div MicroSize)

(* and Megatron's schedule divides it by the number of micro-batches.       *)
MegatronWeight(r) == (Unit * MiniSize) \div Len(plan[r])

(* The weight of row i of a micro-batch. *)
Weight(r, part, i) == agg_loss(r, part, i, IF conf.backend = "fsdp" THEN FsdpWeight(part) ELSE MegatronWeight(r))

(* FSDP's critic forgets the number it divides the loss of multi-modal rows *)
(* by.                                                                      *)
AccumulationKnown ==
  Calls[call] = "update_critic" /\ conf.backend = "fsdp" => conf.dynamic \/ ~conf.multi_modal

(* _forward_micro_batch, and the loss's backward pass in an update *)
Forward(r) ==
  /\ phase = "calling" /\ stage[r] = "running" /\ ran[r] < Len(plan[r]) /\ Synced(r)
  /\ IF ~AccumulationKnown THEN Raise(r)
     ELSE /\ LET part == plan[r][ran[r] + 1]
             IN  /\ order' = [order EXCEPT ![r] = @ \o part]
                 /\ trained' = IF Calls[call] \notin Updates THEN trained
                               ELSE [trained EXCEPT ![r] =
                                       [i \in DOMAIN @ |->
                                          @[i] + IF i \in {part[k] : k \in DOMAIN part} THEN Weight(r, part, i) ELSE 0]]
          /\ Join(r, [op |-> "forward"])
          /\ ran' = [ran EXCEPT ![r] = @ + 1]
          /\ UNCHANGED <<driver, held, stage, todo, plan>>

(* The micro-batches of a mini-batch are done: an update takes its step,    *)
(* whose gradient norm is taken over all ranks.                             *)
Step(r) ==
  /\ phase = "calling" /\ stage[r] = "running" /\ ran[r] = Len(plan[r]) /\ Synced(r)
  /\ IF Calls[call] \in Updates THEN Join(r, [op |-> "step"]) ELSE UNCHANGED log
  /\ todo' = [todo EXCEPT ![r] = Tail(@)]
  /\ stage' = [stage EXCEPT ![r] = "next"]
  /\ UNCHANGED <<driver, held, plan, ran, order, trained>>

(* In compute_log_prob and compute_values the places of rearranged rows     *)
(* are undefined after multi-modal ones, and a dynamic batch size looks     *)
(* for them.                                                                *)
Finish(r) ==
  /\ phase = "calling" /\ stage[r] = "next" /\ todo[r] = << >> /\ Synced(r)
  /\ IF conf.dynamic /\ conf.multi_modal /\ Calls[call] \notin Updates THEN Raise(r)
     ELSE stage' = [stage EXCEPT ![r] = "returned"] /\ UNCHANGED <<driver, held, todo, plan, ran, order, log, trained>>

RankStep(r) == Begin(r) \/ Ask(r) \/ Rearrange(r) \/ Cut(r) \/ Forward(r) \/ Step(r) \/ Finish(r)

DriverStep == AdjustBatch \/ BalanceBatch \/ Call \/ Return \/ ComputeAdvantage

(* The step is over.  Any other state without a successor is a deadlock: a *)
(* rank in a collective that another rank never joins.                     *)
Over == phase \in {"done", "failed"} /\ UNCHANGED vars

Next == DriverStep \/ (\E r \in Rank : RankStep(r)) \/ Over

Spec == Init /\ [][Next]_vars

----------------------------------------------------------------------------
(* Properties *)

(* The types of the driver's and the ranks' state. *)
TypeOK ==
  /\ conf \in {c.conf : c \in Cases}
  /\ phase \in {"collected", "adjusted", "ready", "calling", "advised", "done", "failed"}
  /\ call \in 0 .. Len(Calls) /\ DOMAIN numbers \subseteq Range(Calls)
  /\ \A r \in Rank :
       /\ stage[r] \in {"idle", "called", "next", "asking", "running", "returned"}
       /\ ran[r] \in 0 .. Len(plan[r])
       /\ DOMAIN trained[r] = DOMAIN held[r]

(* Rows that were balanced over the ranks, gathered, cut in any of the      *)
(* ways and put together again have their own numbers beside them: the      *)
(* policy loss compares a token's log-prob with its own old one.            *)
RowsKeepTheirNumbers ==
  \A c \in DOMAIN numbers : \A i \in DOMAIN batch : Len(numbers[c]) = Len(batch) /\ numbers[c][i] = batch[i].id

(* Every rank joins the same collectives in the same order, so none waits   *)
(* for one that no other will join.                                         *)
CollectivesMatch ==
  \A q, r \in Rank :
    /\ \A k \in DOMAIN log[q] \intersect DOMAIN log[r] : log[q][k].op = log[r][k].op
    /\ stage[q] = "returned" => Len(log[r]) <= Len(log[q])

(* In an update of the actor by FSDP workers whose loss is a mean over rows *)
(* every row, copies and rows of a last, smaller mini-batch too, has the    *)
(* same weight in a step, once per epoch, whichever rank has it and however *)
(* micro-batches are formed; a text row's is its share of a full mini-batch.*)
RowsWeighAlike ==
  phase = "done" /\ conf.backend = "fsdp" /\ conf.loss_agg_mode \in RowMeans =>
    /\ \A q, r \in Rank : \A i \in DOMAIN trained[q], j \in DOMAIN trained[r] : trained[q][i] = trained[r][j]
    /\ ~conf.multi_modal => \A r \in Rank : \A i \in DOMAIN trained[r] : trained[r][i] = Epochs * Unit

(* However the loss of its tokens is made, a micro-batch of text rows has   *)
(* the share of its rows of a full mini-batch, in a smaller mini-batch and  *)
(* a smaller micro-batch too.                                               *)
MicroBatchesWeigh ==
  phase = "calling" /\ Calls[call] = "update_actor" /\ conf.backend = "fsdp" /\ ~conf.multi_modal =>
    \A r \in Rank : stage[r] = "running" =>
      \A k \in 1 .. Len(plan[r]) : FsdpWeight(plan[r][k]) = Unit * Len(plan[r][k])

(* With the mean over tokens, the default, a row's weight depends on the    *)
(* tokens of those it shares its micro-batch with: it is only the rows of a *)
(* micro-batch, and so of a rank, together that weigh as many as they are.  *)
(* (Not where sums are added up: with a dynamic batch size a row then       *)
(* weighs as much as its micro-batch has rows.)                             *)
RanksWeighAlike ==
  phase = "done" /\ conf.backend = "fsdp" /\ ~conf.multi_modal /\ conf.loss_agg_mode # "seq-mean-token-sum-norm" =>
    \A r \in Rank : FoldFunction(+, 0, trained[r]) = Epochs * Unit * Len(held[r])

(* However many rows there are and however much they differ, the tokens of  *)
(* two ranks' parts of a balanced batch differ by no more than a rank's row *)
(* can differ from another's among as many rows as there are ranks, taken   *)
(* next to each other in the order of their tokens.                         *)
RanksBalanced ==
  phase = "ready" /\ conf.balance =>
    LET n == Len(batch) \div WorldSize
        sums == {Tokens(TokensOf(batch), [i \in 1 .. n |-> (r * n) + i]) : r \in Rank}
        sizes == {batch[i].tokens : i \in DOMAIN batch}
        gaps == {Min({b \in sizes : b > a}) - a : a \in sizes \ {Max(sizes)}}
    IN  Max(sums) - Min(sums) <= (WorldSize - 1) * Max(gaps \union {0})

(* A micro-batch of a dynamic batch size exceeds the tokens it should have  *)
(* by less than the longest row.                                            *)
MicroBatchesBounded ==
  \A r \in Rank :
    phase = "calling" /\ stage[r] = "running" /\ conf.dynamic /\ ~conf.multi_modal =>
      \A k \in DOMAIN plan[r] :
        Tokens(TokensAt(r, Places(Len(held[r]))), plan[r][k])
          < (MaxTokenLen * conf.sp) + Max(Range(TokensAt(r, Places(Len(held[r])))))

(* Within a group of rollouts of one prompt the advantages of its rows      *)
(* cancel out, over every step of every trajectory and the copies that fill *)
(* the batch up: no prompt pushes the policy as a whole up or down.  (Not   *)
(* with REINFORCE++'s baseline: whitening takes the mean over the batch's   *)
(* tokens off each row, and rows differ in how many they have.)             *)
GroupsCancel ==
  adv # << >> /\ conf.estimator \in {"grpo", "grpo_prm", "rloo"} =>
    \A i \in DOMAIN batch :
      Cardinality(Group(batch, i)) > 1 => MapThenSumSet(LAMBDA j : adv[j].adv[1], Group(batch, i)) = 0

(* Padding and the reset after it, the values of the states a row does not  *)
(* have and the numbers of other rows leave no trace: every token's return  *)
(* is the outcome of its own row.                                           *)
OutcomeReachesEveryToken ==
  adv # << >> /\ conf.estimator \in {"gae", "reinforce_plus_plus"} =>
    \A i \in DOMAIN batch : \A t \in 1 .. batch[i].tokens :
      adv[i].ret[t] = IF batch[i].valid THEN batch[i].score ELSE batch[i].score - 1

(* A step of text rows on FSDP workers never trips an assert, whatever      *)
(* number of rows the rollout collected; only some estimators raise, and    *)
(* sizes of micro-batches that are not given per GPU.                       *)
TextNeverFails ==
  phase = "failed" => conf.multi_modal \/ conf.backend = "megatron" \/ ~CanEstimate \/ ~PerGpuKnown(conf)

(* No rank is left waiting: every one joins the same collectives in the     *)
(* same order, and a step of text rows fails on none of them.               *)
InStep == TypeOK /\ CollectivesMatch /\ TextNeverFails

(* Balancing moves rows and nothing else: each keeps its own numbers, and   *)
(* what one rank, and one forward pass, has to do is bounded by the rows    *)
(* themselves, whatever the differencing finds.                             *)
BalancedRight == RowsKeepTheirNumbers /\ RanksBalanced /\ MicroBatchesBounded

(* In an update of the actor rows, micro-batches and ranks weigh what they  *)
(* should, each as far as the way the tokens' losses make one lets it.      *)
WeighedRight == RowsWeighAlike /\ MicroBatchesWeigh /\ RanksWeighAlike

(* The advantages of a prompt's rows cancel out where the estimator         *)
(* compares them, and each row's return is its own outcome where it does    *)
(* not.                                                                     *)
AdvantagesRight == GroupsCancel /\ OutcomeReachesEveryToken
=============================================================================
