------------------------------ MODULE Rollout ------------------------------
(***************************************************************************)
(* TrajectoryCollector: the loops that drive a batch of environments turn  *)
(* by turn until every episode is over, and the dynamic sampling around    *)
(* them that drops the groups whose episodes all have the same reward and  *)
(* generates again.                                                        *)
(*                                                                         *)
(* Environments are stepped in lock step, those that are done included; an *)
(* environment's own behaviour is any that EnvReport permits, so a done    *)
(* one may report a live step, or a win, later.                            *)
(***************************************************************************)
EXTENDS EnvReport, Sequences, FiniteSets

CONSTANTS
  Groups,       \* train_batch_size
  N,            \* env.rollout.n: environments in a group
  MaxSteps,     \* env.max_steps
  MaxTry,       \* filter_groups.max_num_gen_batches
  WonRewards    \* what a won episode's last step can be rewarded with

ASSUME SizesAssumption ==
  /\ Groups \in Nat \ {0} /\ N \in Nat \ {0} /\ MaxTry \in Nat \ {0}
  /\ WonRewards \subseteq Int

(* train.sh and the defaults give env.max_steps 15 and 50, while make_envs  *)
(* leaves max_interactions at 10: the environments end first.               *)
ASSUME StepsAssumption == MaxSteps \in Nat /\ MaxSteps >= MaxInteractions

Env == 0 .. Groups * N - 1
Target == Groups * N
GroupOf(i) == i \div N
MembersOf(g) == g * N .. g * N + N - 1

Modes == {"vanilla", "dynamic", "generate"}

VARIABLES
  mode,       \* the loop multi_turn_loop or multi_turn_generation selects
  phase,      \* "loop", "rollout", "evaluate" or "done"
  try_count,
  turn,       \* turns taken in this rollout
  is_done, episode_rewards, episode_lengths,
  total_infos,   \* what was logged of every environment, turn by turn
  collected      \* total_batch_list, one entry per trajectory kept

arrays == <<turn, is_done, episode_rewards, episode_lengths, total_infos>>
vars == <<mode, phase, try_count, arrays, collected>>

Fresh ==
  /\ turn = 0
  /\ is_done = [i \in Env |-> FALSE]
  /\ episode_rewards = [i \in Env |-> 0]
  /\ episode_lengths = [i \in Env |-> 0]
  /\ total_infos = [i \in Env |-> <<>>]

(* filter_groups.enable and is_train select the loop, for one call. *)
Init ==
  /\ mode \in Modes
  /\ phase = "loop"
  /\ try_count = 0
  /\ Fresh
  /\ collected = <<>>

Loops == IF mode = "dynamic" THEN MaxTry ELSE 1

MoreNeeded == Len(collected) < Target /\ try_count < Loops

(* Mutant: a try that collected nothing is not counted. *)
CountFruitfulTry == try_count' = IF try_count > 0 /\ collected = <<>> THEN try_count ELSE try_count + 1

CountTry == try_count' = try_count + 1

(* The start of vanilla_multi_turn_loop: fresh workers, empty logs. *)
Reset ==
  /\ phase = "loop"
  /\ MoreNeeded
  /\ phase' = "rollout"
  /\ CountTry
  /\ turn' = 0
  /\ is_done' = [i \in Env |-> FALSE]
  /\ episode_rewards' = [i \in Env |-> 0]
  /\ episode_lengths' = [i \in Env |-> 0]
  /\ total_infos' = [i \in Env |-> <<>>]
  /\ UNCHANGED <<mode, collected>>

(* What a step of an environment can return: 0 unless the step won. *)
Outcomes ==
  [done: BOOLEAN, won: {FALSE}, reward: {0}] \cup [done: {TRUE}, won: {TRUE}, reward: WonRewards]

(* logical_or(is_done, dones) *)
DoneAfter(out) == [i \in Env |-> is_done[i] \/ out[i].done]

(* Mutant: the rewards of environments that are done are added too. *)
AddAllRewards(out) == [i \in Env |-> episode_rewards[i] + out[i].reward]

(* Rewards are masked by the environments active before the turn. *)
AddRewards(out) ==
  [i \in Env |-> episode_rewards[i] + (IF is_done[i] THEN 0 ELSE out[i].reward)]

(* The vanilla loop logs every environment with its mask. *)
LogAll(out) ==
  [i \in Env |-> Append(total_infos[i], [active |-> ~is_done[i], info |-> out[i]])]

(* The generating loop logs only the active ones. *)
LogActive(out) ==
  [i \in Env |->
     IF is_done[i] THEN total_infos[i]
     ELSE Append(total_infos[i], [active |-> TRUE, info |-> out[i]])]

LogTurn(out) == IF mode = "generate" THEN LogActive(out) ELSE LogAll(out)

(* Mutant: the batch is over as soon as one episode is. *)
AnyDone == \E i \in Env : is_done'[i]

(* is_done.all() *)
AllDone == \A i \in Env : is_done'[i]

LengthsAfter == [i \in Env |-> episode_lengths[i] + (IF is_done[i] THEN 0 ELSE 1)]

(* One turn of the loop: generate for all, step all environments, record. *)
Turn(out) ==
  /\ phase = "rollout"
  /\ \A i \in Env : Permitted(turn + 1, out[i])
  /\ turn' = turn + 1
  /\ is_done' = DoneAfter(out)
  /\ episode_rewards' = AddRewards(out)
  /\ episode_lengths' = LengthsAfter
  /\ total_infos' = LogTurn(out)
  /\ phase' = IF AllDone \/ turn' = MaxSteps THEN "evaluate" ELSE "rollout"
  /\ UNCHANGED <<mode, try_count, collected>>

----------------------------------------------------------------------------
(* success_evaluator, filter_group_data and the loop's bookkeeping *)

(* _process_batch: the last active step speaks for the trajectory. *)
LastActive(i) ==
  CHOOSE k \in DOMAIN total_infos[i] :
    /\ total_infos[i][k].active
    /\ \A j \in DOMAIN total_infos[i] : total_infos[i][j].active => j <= k

ActiveRows(i) == Cardinality({k \in DOMAIN total_infos[i] : total_infos[i][k].active})

Trajectory(i) ==
  [uid |-> <<try_count, GroupOf(i)>>, env |-> i, reward |-> episode_rewards[i],
   length |-> episode_lengths[i], rows |-> ActiveRows(i), last |-> total_infos[i][LastActive(i)].info]

(* Mutant: the last try is recognised one try too late. *)
LastTryLate == mode # "dynamic" \/ try_count > MaxTry

LastTry == mode # "dynamic" \/ try_count = MaxTry

(* Mutant: a group is compared with the first episode of the batch. *)
AllSameAsFirst(g) == \A i \in MembersOf(g) : episode_rewards[i] = episode_rewards[0]

AllSame(g) == \A i \in MembersOf(g) : episode_rewards[i] = episode_rewards[g * N]

(* Kept groups are kept whole. *)
Kept == {i \in Env : LastTry \/ ~AllSame(GroupOf(i))}

(* The k-th element of a set of indexes. *)
Nth(S, k) == CHOOSE i \in S : Cardinality({j \in S : j <= i}) = k

(* total_batch_list += batch_list *)
Extended == collected \o [k \in 1 .. Cardinality(Kept) |-> Trajectory(Nth(Kept, k))]

Evaluate ==
  /\ phase = "evaluate"
  /\ collected' = Extended
  /\ phase' = "loop"
  /\ UNCHANGED <<mode, try_count, arrays>>

(* The loop is left and gather_rollout_data makes the batch. *)
Finish ==
  /\ phase = "loop"
  /\ ~MoreNeeded
  /\ phase' = "done"
  /\ UNCHANGED <<mode, try_count, arrays, collected>>

Next ==
  \/ Reset
  \/ \E out \in [Env -> Outcomes] : Turn(out)
  \/ Evaluate
  \/ Finish

Spec == Init /\ [][Next]_vars

(* The loops are straight-line Python in the driver: they go on. *)
FairSpec == Spec /\ WF_vars(Next)
----------------------------------------------------------------------------
(* Properties *)

TypeOK ==
  /\ mode \in Modes
  /\ phase \in {"loop", "rollout", "evaluate", "done"}
  /\ try_count \in 0 .. Loops
  /\ turn \in 0 .. MaxSteps
  /\ is_done \in [Env -> BOOLEAN]
  /\ episode_rewards \in [Env -> WonRewards \cup {0}]
  /\ episode_lengths \in [Env -> 0 .. MaxSteps]
  /\ DOMAIN total_infos = Env

(* An environment that reports a live step, or a second win, after it was   *)
(* done is neither active nor rewarded again: the active rows of its log    *)
(* are its first episode_lengths rows, and its reward is that of the last   *)
(* of them alone.                                                           *)
OneEpisodePerEnvironment ==
  \A i \in Env :
    /\ \A k \in DOMAIN total_infos[i] : total_infos[i][k].active <=> k <= episode_lengths[i]
    /\ episode_lengths[i] > 0 => episode_rewards[i] = total_infos[i][episode_lengths[i]].info.reward
    /\ is_done[i] <=> episode_lengths[i] > 0 /\ total_infos[i][episode_lengths[i]].info.done

(* success_evaluator makes one list per key of the last active infos; an    *)
(* info of a done step and one of a live step have different keys, so the   *)
(* lists have one value per trajectory only if every episode ended, not if  *)
(* the turns ran out.                                                       *)
SuccessListsAligned ==
  phase = "evaluate" => \A i \in Env : total_infos[i][LastActive(i)].info.done

(* The advantage estimator normalises rewards within a uid: whatever was    *)
(* filtered, each uid that is kept has all its N trajectories.              *)
GroupsWhole ==
  \A k \in DOMAIN collected :
    Cardinality({j \in DOMAIN collected : collected[j].uid = collected[k].uid}) = N

(* A group from a try that was not the last one has two different rewards,  *)
(* hence a signal to learn from.                                            *)
EarlyGroupsInformative ==
  mode = "dynamic" =>
    \A k \in DOMAIN collected :
      collected[k].uid[1] < MaxTry =>
        \E j \in DOMAIN collected :
          collected[j].uid = collected[k].uid /\ collected[j].reward # collected[k].reward

(* Sampling stops with at least the target number of trajectories, however  *)
(* many groups the tries before the last dropped, and with less than one    *)
(* batch more than it.                                                      *)
TargetMet == phase = "done" => Len(collected) >= Target /\ Len(collected) < 2 * Target

(* gather_rollout_data keeps the rows whose mask is set: as many per        *)
(* trajectory as the length it reports, and at least one.                   *)
RowsMatchLengths ==
  \A k \in DOMAIN collected : collected[k].rows = collected[k].length /\ collected[k].rows > 0

(* Sampling comes to an end, however often whole tries are dropped. *)
Terminates == <>(phase = "done")

(* The rollout implements a batch of episodes that end once. *)
E == INSTANCE Episodes WITH Rewards <- WonRewards, ended <- is_done, reward <- episode_rewards

EndsOnce == E!EpisodesSpec

(* The estimator can use what the loops hand over: a uid has all its        *)
(* trajectories, and from a try that could be repeated two different        *)
(* rewards; a trajectory has the rows of the length it reports, and the     *)
(* success lists are in the order of the environments.                      *)
GroupsUsable == GroupsWhole /\ EarlyGroupsInformative /\ RowsMatchLengths /\ SuccessListsAligned
============================================================================
