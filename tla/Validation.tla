------------------------------ MODULE Validation ------------------------------
(***************************************************************************)
(* RayPPOTrainer.fit with its validations: the sizes that                  *)
(* _create_dataloader and make_envs fix, the pass over the validation data *)
(* that _validate makes before training and after the updates of a tested  *)
(* step, before that step's checkpoint, and the log its metrics go to.     *)
(*                                                                         *)
(* A problem of the validation data ends as one of Outcomes. A row is one  *)
(* step of its episode; the model that produced it is named by the updates *)
(* the actor has had. A mean is kept as the pair of its sum and count. One *)
(* answer is sampled for a problem (val_kwargs.n = 1), and the rewards are *)
(* the rules' (reward_model.enable is false).                              *)
(***************************************************************************)
EXTENDS Trainer, FiniteSetsExt

CONSTANTS
  TrainSize,     \* len(train_dataset)
  TrainBatchSize,  \* data.train_batch_size (gen_batch_size is not set)
  TotalTrainingSteps,  \* trainer.total_training_steps; 0 for null
  ValSize,       \* len(val_dataset)
  ValBatchSize,  \* data.val_batch_size: null is refused when the environments are made
  GroupSize,     \* env.rollout.n
  TestFreq,      \* trainer.test_freq
  ValBefore,     \* trainer.val_before_train
  ValOnly,       \* what trainer.val_only is set to at some start
  MaxSteps       \* bound: the steps of a validation episode

----------------------------------------------------------------------------
(* _create_dataloader and make_envs *)

(* The training data's last batch is dropped when it is not full. *)
TrainBatches == TrainSize \div TrainBatchSize

total_training_steps ==
  IF TotalTrainingSteps # 0 THEN TotalTrainingSteps ELSE TrainBatches * TotalEpochs

(* Mutant: the validation data is cut as the training data is. *)
FullValBatches == ValSize \div ValBatchSize

(* drop_last is False here: the last batch has what is left. *)
ValBatches == (ValSize + ValBatchSize - 1) \div ValBatchSize

Problems == 1 .. ValSize

ValBatch(b) == {p \in Problems : (p - 1) \div ValBatchSize = b - 1}

(* The two sets of environments: a group for each training problem, one     *)
(* environment for each validation problem of a batch.                      *)
Envs ==
  [train |-> [env_num |-> TrainBatchSize, group_n |-> IF GroupSize > 0 THEN GroupSize ELSE 1],
   val   |-> [env_num |-> ValBatchSize, group_n |-> 1]]

(* More environments than the data has problems are refused. *)
EnvsBuilt == Envs.train.env_num <= TrainSize /\ Envs.val.env_num <= ValSize

ASSUME SizesAssumption ==
  /\ {TrainSize, TrainBatchSize, ValSize, ValBatchSize} \subseteq Nat \ {0}
  /\ {TotalTrainingSteps, GroupSize, TestFreq} \subseteq Nat
  /\ ValBefore \in BOOLEAN /\ ValOnly \subseteq BOOLEAN
  /\ MaxSteps \in Nat \ {0}
  /\ EnvsBuilt
  /\ BatchesPerEpoch = TrainBatches /\ TotalSteps = total_training_steps

----------------------------------------------------------------------------
VARIABLES
  stage,     \* the validation that is running: "off", "before" training, or of a "step"
  val_batches,  \* batches of the validation data that are through
  rows,      \* reward_tensor_lst, tool_calling_list, traj_uid_list, row by row
  rates,     \* success_rate_dict: what each batch's rows carry
  metrics,   \* a tested step's metrics, until the step is logged
  logged     \* the last validation in the log

validating == <<stage, val_batches, rows, rates>>
reports == <<metrics, logged>>
vvars == <<vars, validating, reports>>

None == <<>>

VInit ==
  /\ Init
  /\ stage = "off" /\ val_batches = 0 /\ rows = {} /\ rates = <<>>
  /\ metrics = None /\ logged = None

(* No pass is running and nothing of one is held. *)
Idle == stage' = "off" /\ val_batches' = 0 /\ rows' = {} /\ rates' = <<>>

(* A pass over the validation data starts from empty lists. *)
Validate(at) == stage' = at /\ val_batches' = 0 /\ rows' = {} /\ rates' = <<>>

(* Mutant: only the steps the frequency names are tested. *)
TestsByFrequency == TestFreq > 0 /\ global_steps % TestFreq = 0

TestNow == TestFreq > 0 /\ (IsLastStep \/ global_steps % TestFreq = 0)

----------------------------------------------------------------------------
(* _validate *)

(* Episodes that end in an answer, right or wrong, after calls of tools.    *)
Outcomes == [steps : 1 .. MaxSteps, won : BOOLEAN]

tool_callings(o) == o.steps - 1

(* The reward manager's score of a row: what the episode earned.            *)
EpisodeReward(o) == IF o.won THEN 1 ELSE 0

(* gather_rollout_data and the episode reward manager: a row for every      *)
(* step, and on each the sums of the whole episode: the reward on the       *)
(* answer's last token, which summing over the tokens gives back.           *)
RowsOf(p, o) ==
  {[problem |-> p, step |-> s, reward |-> EpisodeReward(o), tools |-> tool_callings(o),
    model |-> weights["actor"]] : s \in 1 .. o.steps}

(* The loop's body: one batch is rolled out and scored. *)
ValidateBatch ==
  /\ stage # "off" /\ val_batches < ValBatches
  /\ \E out \in [ValBatch(val_batches + 1) -> Outcomes] :
       /\ rows' = rows \cup UNION {RowsOf(p, out[p]) : p \in DOMAIN out}
       /\ rates' = Append(rates, <<Cardinality({p \in DOMAIN out : out[p].won}), Cardinality(DOMAIN out)>>)
  /\ val_batches' = val_batches + 1
  /\ UNCHANGED <<vars, stage, reports>>

(* Mutant: every row of a trajectory counts. *)
EveryRow == rows

(* np.unique of traj_uids: the first row of each trajectory. *)
UniqueRows == {r \in rows : r.step = 1}

(* Numbers are added up as sets of so many units. *)
Units(S, field) == UNION {{r} \X (1 .. r[field]) : r \in S}

Mean(S, field) == <<Cardinality(Units(S, field)), Cardinality(S)>>

val_metrics ==
  [test_score |-> Mean(rows, "reward"),
   tool_mean |-> Mean(UniqueRows, "tools"),
   tool_max |-> Max({r.tools : r \in UniqueRows}),
   tool_min |-> Min({r.tools : r \in UniqueRows}),
   success_rate |-> rates,
   models |-> {r.model : r \in rows}]

(* Of a log entry, its step and the models it speaks of are kept.           *)
Entry(s, m) == [step |-> s, models |-> m.models]

(* Mutant: the counter has moved on when the first pass is logged. *)
AfterTheCount == global_steps

(* The first pass is made before global_steps += 1. *)
StepBefore == global_steps - 1

(* The pass made before training is logged at the step training starts     *)
(* from; with val_only the program returns.                                *)
EndInitialValidation ==
  /\ stage = "before" /\ val_batches = ValBatches
  /\ logged' = Entry(StepBefore, val_metrics)
  /\ \E val_only \in ValOnly : IF val_only THEN Crash ELSE UNCHANGED vars
  /\ Idle
  /\ UNCHANGED metrics

(* A step's metrics wait until the step is logged. *)
EndTest ==
  /\ stage = "step" /\ val_batches = ValBatches
  /\ metrics' = val_metrics
  /\ Idle
  /\ UNCHANGED <<vars, logged>>

----------------------------------------------------------------------------
(* fit with its validations *)

VStart ==
  \E mode \in ResumeModes :
    /\ \/ (StartFromScratch(mode) \/ StartFromCheckpoint(mode))
          /\ (IF ValBefore THEN Validate("before") ELSE Idle)
       \/ StartFails(mode) /\ Idle
    /\ metrics' = None
    /\ UNCHANGED logged

VTrainStep ==
  /\ stage = "off"
  /\ TrainStep
  /\ IF TestNow THEN Validate("step") ELSE Idle
  /\ UNCHANGED reports

(* The save, after the step's validation. *)
VSave ==
  /\ stage = "off"
  /\ Rotate \/ (\E k \in Ranks : WriteShard(k)) \/ Saved \/ SaveData \/ OpenTracker \/ WriteTracker
  /\ UNCHANGED <<validating, reports>>

VNextEpoch == stage = "off" /\ NextEpoch /\ UNCHANGED <<validating, reports>>

(* The step and its metrics are logged before the counter moves on. *)
VEndStep ==
  /\ stage = "off"
  /\ EndStep
  /\ logged' = IF metrics = None THEN logged ELSE Entry(global_steps, metrics)
  /\ metrics' = None
  /\ Idle

VCrash == Crash /\ Idle /\ metrics' = None /\ UNCHANGED logged

VNext ==
  \/ VStart \/ VTrainStep \/ VSave \/ VNextEpoch \/ VEndStep \/ VCrash
  \/ ValidateBatch \/ EndInitialValidation \/ EndTest

VSpec == VInit /\ [][VNext]_vvars
----------------------------------------------------------------------------
(* Properties *)

(* Everything of the validation data is in the metrics of a pass, and every *)
(* problem has the same part in what is said of tools, however many steps   *)
(* its episode took and however the data was cut into batches.              *)
EveryProblemCounts ==
  stage # "off" /\ val_batches = ValBatches =>
    LET tools(p) == (CHOOSE r \in rows : r.problem = p).tools
        won(p) == \E r \in rows : r.problem = p /\ r.reward = 1
    IN  /\ {r.problem : r \in rows} = Problems
        /\ val_metrics.tool_mean = <<Cardinality(UNION {{p} \X (1 .. tools(p)) : p \in Problems}), ValSize>>
        /\ \A p \in Problems : tools(p) \in val_metrics.tool_min .. val_metrics.tool_max
        /\ (\A b \in DOMAIN rates : rates[b][1] = rates[b][2]) <=> \A p \in Problems : won(p)

(* What the log says of a step was measured on the model with that step's   *)
(* updates, also when training was interrupted and resumed before it.       *)
LoggedOfItsStep ==
  logged # None => logged.models = {UpdatesBefore("actor", logged.step + 1)}

(* When fit returns, the checkpoint it leaves is the model its last         *)
(* validation measured.                                                     *)
LastModelValidated ==
  phase = "done" /\ TestFreq > 0 =>
    /\ logged # None /\ logged.step = tracker
    /\ \A k \in Ranks : \A f \in ShardsOf("actor", tracker, k) : {f.weights} = logged.models

(* What a validation reports is of the whole data, of the step it is logged *)
(* at, and at the end of the model that is kept.                            *)
Validated == EveryProblemCounts /\ LoggedOfItsStep /\ LastModelValidated

=============================================================================
