--------------------------- MODULE Rollout_proofs ---------------------------
(***************************************************************************)
(* Generation.  First the rollout loop, for every batch size, group size,  *)
(* number of tries and turns: its types, one episode per environment, the  *)
(* refinement of Episodes, the size of what dynamic sampling collects, and *)
(* that what it hands over can be used.  Then the process whose engine it  *)
(* generates with, for every number of groups, updates, generations and    *)
(* restarts, and every configuration: the engine generates with the latest *)
(* weights, and memory, random states and sequence-parallel groups are     *)
(* handed from call to call as each needs them.                            *)
(***************************************************************************)
EXTENDS Rollout, HybridWorker, TLAPS, FiniteSetTheorems

Rows == [active: BOOLEAN, info: Outcomes]

Logs == \A i \in Env : total_infos[i] \in Seq(Rows)

LEMMA LoopsPositive == Loops \in Nat \ {0}
  BY SizesAssumption DEF Loops

(* The loop selected for a call, and with it the number of tries, stays. *)
LEMMA LoopKept == ASSUME [Next]_vars PROVE mode' = mode /\ Loops' = Loops
<1>1. mode' = mode
  BY DEF Next, vars, Reset, Turn, Evaluate, Finish
<1> QED BY <1>1 DEF Loops

LEMMA RewardsInt == ASSUME NEW r \in WonRewards \cup {0} PROVE r \in Int
  BY SizesAssumption

(* A step that is not done earns nothing. *)
LEMMA OutcomeTyped ==
  ASSUME NEW o \in Outcomes
  PROVE  o.done \in BOOLEAN /\ o.reward \in WonRewards \cup {0} /\ (~o.done => o.reward = 0)
<1>1. CASE o \in [done: BOOLEAN, won: {FALSE}, reward: {0}]
  BY <1>1
<1>2. CASE o \in [done: {TRUE}, won: {TRUE}, reward: WonRewards]
  BY <1>2
<1> QED BY <1>1, <1>2 DEF Outcomes

(* Types, with the lengths bounded by the turns taken. *)
TypeInv ==
  /\ mode \in Modes
  /\ phase \in {"loop", "rollout", "evaluate", "done"}
  /\ try_count \in 0 .. Loops
  /\ turn \in 0 .. MaxSteps
  /\ (phase = "rollout" => turn < MaxSteps)
  /\ is_done \in [Env -> BOOLEAN]
  /\ episode_rewards \in [Env -> WonRewards \cup {0}]
  /\ episode_lengths \in [Env -> Nat]
  /\ DOMAIN total_infos = Env
  /\ Logs

(* What the log of one environment says of its episode. *)
Episode(i) ==
  /\ episode_lengths[i] <= turn
  /\ episode_lengths[i] <= Len(total_infos[i])
  /\ ~is_done[i] => episode_rewards[i] = 0 /\ Len(total_infos[i]) = episode_lengths[i]
  /\ is_done[i] => episode_lengths[i] > 0
  /\ \A k \in DOMAIN total_infos[i] : total_infos[i][k].active <=> k <= episode_lengths[i]
  /\ episode_lengths[i] > 0 => episode_rewards[i] = total_infos[i][episode_lengths[i]].info.reward
  /\ episode_lengths[i] > 0 => (is_done[i] <=> total_infos[i][episode_lengths[i]].info.done)

IInv == TypeInv /\ \A i \in Env : Episode(i)

LEMMA FreshEpisodes ==
  ASSUME turn = 0, is_done = [i \in Env |-> FALSE], episode_rewards = [i \in Env |-> 0],
         episode_lengths = [i \in Env |-> 0], total_infos = [i \in Env |-> <<>>]
  PROVE  Logs /\ \A i \in Env : Episode(i)
  BY DEF Logs, Episode

(* One environment's turn. *)
LEMMA TurnEpisode ==
  ASSUME IInv, NEW out \in [Env -> Outcomes], Turn(out), NEW i \in Env
  PROVE  total_infos'[i] \in Seq(Rows) /\ Episode(i)'
<1> DEFINE row == [active |-> ~is_done[i], info |-> out[i]]
<1>1. row \in Rows
  BY DEF IInv, TypeInv, Rows
<1>2. /\ total_infos[i] \in Seq(Rows) /\ episode_lengths[i] \in Nat /\ turn \in Nat
      /\ is_done[i] \in BOOLEAN /\ Episode(i) /\ turn' = turn + 1
  BY StepsAssumption DEF IInv, TypeInv, Logs, Turn
<1>3. /\ is_done'[i] = (is_done[i] \/ out[i].done)
      /\ episode_rewards'[i] = episode_rewards[i] + (IF is_done[i] THEN 0 ELSE out[i].reward)
      /\ episode_lengths'[i] = episode_lengths[i] + (IF is_done[i] THEN 0 ELSE 1)
      /\ total_infos'[i] = IF mode = "generate" /\ is_done[i] THEN total_infos[i]
                           ELSE Append(total_infos[i], row)
  BY DEF Turn, DoneAfter, AddRewards, LengthsAfter, LogTurn, LogAll, LogActive
<1>4. out[i].reward \in Int /\ out[i].done \in BOOLEAN /\ (~out[i].done => out[i].reward = 0)
  <2>1. out[i] \in Outcomes
    OBVIOUS
  <2>2. out[i].reward \in WonRewards \cup {0} /\ out[i].done \in BOOLEAN /\ (~out[i].done => out[i].reward = 0)
    BY <2>1, OutcomeTyped
  <2> QED BY <2>2, RewardsInt
<1>5. episode_rewards[i] \in Int
  <2>1. episode_rewards[i] \in WonRewards \cup {0}
    BY DEF IInv, TypeInv
  <2> QED BY <2>1, RewardsInt
<1> DEFINE kept == /\ episode_lengths'[i] = episode_lengths[i]
                   /\ episode_rewards'[i] = episode_rewards[i]
                   /\ is_done'[i] = TRUE
<1>9. is_done[i] => kept
  <2> SUFFICES ASSUME is_done[i] PROVE kept
    OBVIOUS
  <2>1. episode_lengths'[i] = episode_lengths[i] /\ episode_rewards'[i] = episode_rewards[i]
    BY <1>2, <1>3, <1>5
  <2>2. is_done'[i]
    BY <1>3
  <2>3. is_done'[i] \in BOOLEAN
    BY <1>3
  <2> QED BY <2>1, <2>2, <2>3
<1>6. CASE is_done[i] /\ mode = "generate"
  <2>1. /\ episode_lengths'[i] = episode_lengths[i] /\ is_done'[i] = TRUE
        /\ episode_rewards'[i] = episode_rewards[i] /\ total_infos'[i] = total_infos[i]
    BY <1>3, <1>6, <1>9
  <2> QED BY <1>2, <1>6, <2>1 DEF Episode
<1>7. CASE is_done[i] /\ mode # "generate"
  <2>1. total_infos'[i] = Append(total_infos[i], row) /\ row.active = FALSE
    BY <1>3, <1>7
  <2>2. episode_lengths'[i] = episode_lengths[i] /\ is_done'[i] = TRUE /\ episode_rewards'[i] = episode_rewards[i]
    BY <1>7, <1>9
  <2>3. Len(total_infos'[i]) = Len(total_infos[i]) + 1 /\ DOMAIN total_infos'[i] = 1 .. Len(total_infos[i]) + 1
    BY <2>1, <1>1, <1>2
  <2>4. \A k \in 1 .. Len(total_infos[i]) : total_infos'[i][k] = total_infos[i][k]
    BY <2>1, <1>1, <1>2
  <2>5. total_infos'[i][Len(total_infos[i]) + 1].active = FALSE
    BY <2>1, <1>1, <1>2
  <2> QED BY <1>1, <1>2, <1>7, <2>1, <2>2, <2>3, <2>4, <2>5 DEF Episode
<1>8. CASE ~is_done[i]
  <2>1. total_infos'[i] = Append(total_infos[i], row) /\ row.active = TRUE
    BY <1>3, <1>8
  <2>2. episode_lengths'[i] = episode_lengths[i] + 1 /\ is_done'[i] = out[i].done
        /\ episode_rewards'[i] = out[i].reward
    BY <1>2, <1>3, <1>4, <1>8 DEF Episode
  <2>3. Len(total_infos'[i]) = Len(total_infos[i]) + 1 /\ DOMAIN total_infos'[i] = 1 .. Len(total_infos[i]) + 1
    BY <2>1, <1>1, <1>2
  <2>4. \A k \in 1 .. Len(total_infos[i]) : total_infos'[i][k] = total_infos[i][k]
    BY <2>1, <1>1, <1>2
  <2>5. total_infos'[i][episode_lengths'[i]] = row
    BY <2>1, <2>2, <1>1, <1>2, <1>8 DEF Episode
  <2> QED BY <1>1, <1>2, <1>4, <1>8, <2>1, <2>2, <2>3, <2>4, <2>5 DEF Episode
<1> QED BY <1>6, <1>7, <1>8
LEMMA Invariance == Spec => []IInv
<1>1. Init => IInv
  <2> SUFFICES ASSUME Init PROVE IInv
    OBVIOUS
  <2>1. Logs /\ \A i \in Env : Episode(i)
    BY FreshEpisodes DEF Init, Fresh
  <2> QED BY <2>1, LoopsPositive, StepsAssumption DEF Init, Fresh, IInv, TypeInv
<1>2. IInv /\ [Next]_vars => IInv'
  <2> SUFFICES ASSUME IInv, [Next]_vars PROVE IInv'
    OBVIOUS
  <2>1. CASE Reset
    <3>1. Logs' /\ \A i \in Env : Episode(i)'
      BY <2>1, FreshEpisodes DEF Reset, Logs, Episode
    <3>2. try_count' \in 0 .. Loops'
      BY <2>1, LoopKept, LoopsPositive DEF Reset, CountTry, MoreNeeded, IInv, TypeInv
    <3>3. 0 < MaxSteps /\ 0 \in 0 .. MaxSteps
      BY StepsAssumption, MaxInteractionsAssumption
    <3> QED BY <2>1, <3>1, <3>2, <3>3, LoopKept DEF Reset, IInv, TypeInv
  <2>2. ASSUME NEW out \in [Env -> Outcomes], Turn(out) PROVE IInv'
    <3>1. Logs' /\ \A i \in Env : Episode(i)'
      BY <2>2, TurnEpisode DEF Logs
    <3>2. turn' \in 0 .. MaxSteps /\ (phase' = "rollout" => turn' < MaxSteps)
      BY <2>2, StepsAssumption DEF Turn, IInv, TypeInv
    <3>3. is_done' \in [Env -> BOOLEAN]
      BY <2>2 DEF Turn, DoneAfter
    <3>4. episode_lengths' \in [Env -> Nat]
      BY <2>2 DEF Turn, LengthsAfter, IInv, TypeInv
    <3>5. episode_rewards' \in [Env -> WonRewards \cup {0}]
      <4>1. \A i \in Env : episode_rewards'[i] \in WonRewards \cup {0}
        <5> SUFFICES ASSUME NEW i \in Env PROVE episode_rewards'[i] \in WonRewards \cup {0}
          OBVIOUS
        <5>1. out[i] \in Outcomes /\ episode_rewards[i] \in WonRewards \cup {0}
          BY <2>2 DEF IInv, TypeInv
        <5>2. out[i].reward \in WonRewards \cup {0} /\ out[i].reward \in Int /\ episode_rewards[i] \in Int
          BY <5>1, OutcomeTyped, RewardsInt
        <5>3. ~is_done[i] => episode_rewards[i] = 0
          BY DEF IInv, Episode
        <5> QED BY <2>2, <5>1, <5>2, <5>3 DEF Turn, AddRewards
      <4> QED BY <2>2, <4>1 DEF Turn, AddRewards
    <3>6. DOMAIN total_infos' = Env
      BY <2>2 DEF Turn, LogTurn, LogAll, LogActive
    <3>7. phase' \in {"rollout", "evaluate"} /\ try_count' = try_count
      BY <2>2 DEF Turn
    <3> QED BY <3>1, <3>2, <3>3, <3>4, <3>5, <3>6, <3>7, LoopKept DEF IInv, TypeInv
  <2>3. CASE Evaluate
    BY <2>3, LoopKept DEF Evaluate, arrays, IInv, TypeInv, Logs, Episode
  <2>4. CASE Finish
    BY <2>4, LoopKept DEF Finish, arrays, IInv, TypeInv, Logs, Episode
  <2>5. CASE UNCHANGED vars
    BY <2>5, LoopKept DEF vars, arrays, IInv, TypeInv, Logs, Episode
  <2> QED BY <2>1, <2>2, <2>3, <2>4, <2>5 DEF Next
<1> QED BY <1>1, <1>2, PTL DEF Spec

(* The variables of the loops keep their types: rewards are those of one    *)
(* winning step, lengths stay within the turns.                             *)
THEOREM TypeCorrect == Spec => []TypeOK
<1>1. IInv => TypeOK
  <2> SUFFICES ASSUME IInv PROVE TypeOK
    OBVIOUS
  <2>1. \A i \in Env : episode_lengths[i] \in 0 .. MaxSteps
    BY StepsAssumption DEF IInv, TypeInv, Episode
  <2> QED BY <2>1 DEF IInv, TypeInv, TypeOK
<1> QED BY <1>1, Invariance, PTL

(* A batch of any size has one episode per environment: the active rows of  *)
(* its log are a prefix, and its reward is the last active row's.           *)
THEOREM OneEpisode == Spec => []OneEpisodePerEnvironment
<1>1. IInv => OneEpisodePerEnvironment
  <2> SUFFICES ASSUME IInv, NEW i \in Env
               PROVE  /\ \A k \in DOMAIN total_infos[i] : total_infos[i][k].active <=> k <= episode_lengths[i]
                      /\ episode_lengths[i] > 0 => episode_rewards[i] = total_infos[i][episode_lengths[i]].info.reward
                      /\ is_done[i] <=> episode_lengths[i] > 0 /\ total_infos[i][episode_lengths[i]].info.done
    BY DEF OneEpisodePerEnvironment
  <2>1. Episode(i)
    BY DEF IInv
  <2> QED BY <2>1 DEF Episode
<1> QED BY <1>1, Invariance, PTL

(* The rollout implements Episodes: a reset starts afresh, a turn ends some *)
(* episodes and leaves those that ended before alone.                       *)
THEOREM ImplementsEpisodes == Spec => EndsOnce
<1>1. Init => E!EpisodesInit
  BY DEF Init, Fresh, E!EpisodesInit
<1>2. IInv /\ IInv' /\ [Next]_vars => [E!EpisodesNext]_(E!evars)
  <2> SUFFICES ASSUME IInv, IInv', [Next]_vars PROVE [E!EpisodesNext]_(E!evars)
    OBVIOUS
  <2>1. CASE Reset
    BY <2>1 DEF Reset, E!EpisodesNext, E!StartAfresh
  <2>2. ASSUME NEW out \in [Env -> Outcomes], Turn(out) PROVE E!EndSome
    <3>1. \A i \in Env : is_done[i] => is_done'[i] /\ episode_rewards'[i] = episode_rewards[i]
      <4> SUFFICES ASSUME NEW i \in Env, is_done[i]
                   PROVE  is_done'[i] /\ episode_rewards'[i] = episode_rewards[i]
        OBVIOUS
      <4>1. episode_rewards[i] \in Int
        BY RewardsInt DEF IInv, TypeInv
      <4>2. episode_rewards'[i] = episode_rewards[i]
        BY <2>2, <4>1 DEF Turn, AddRewards
      <4>3. is_done'[i]
        BY <2>2 DEF Turn, DoneAfter
      <4> QED BY <4>2, <4>3
    <3>2. \A i \in Env : ~is_done'[i] => episode_rewards'[i] = 0
      BY DEF IInv, Episode
    <3> QED BY <3>1, <3>2 DEF E!EndSome, IInv, TypeInv
  <2>3. CASE Evaluate \/ Finish
    BY <2>3 DEF Evaluate, Finish, arrays, E!evars
  <2>4. CASE UNCHANGED vars
    BY <2>4 DEF vars, arrays, E!evars
  <2> QED BY <2>1, <2>2, <2>3, <2>4 DEF Next, E!EpisodesNext
<1> QED BY <1>1, <1>2, Invariance, PTL DEF Spec, EndsOnce, E!EpisodesSpec

----------------------------------------------------------------------------
(* The size of what is collected *)

LEMMA TargetPositive == Target \in Nat /\ Target > 0
  BY SizesAssumption DEF Target

LEMMA EnvSize == IsFiniteSet(Env) /\ Cardinality(Env) = Target
<1>1. Env = 0 .. Target - 1
  BY DEF Env, Target
<1>2. Target - 1 \in Int /\ 0 <= Target - 1
  BY TargetPositive
<1> QED BY <1>1, <1>2, TargetPositive, FS_Interval

LEMMA KeptSize ==
  /\ Cardinality(Kept) \in Nat /\ Cardinality(Kept) <= Target
  /\ LastTry => Cardinality(Kept) = Target
<1>1. Kept \subseteq Env
  BY DEF Kept
<1>2. LastTry => Kept = Env
  BY DEF Kept
<1> QED BY <1>1, <1>2, EnvSize, FS_Subset, FS_CardinalityType

SizeInv ==
  /\ \E S : collected \in Seq(S)
  /\ Len(collected) < 2 * Target
  /\ phase \in {"rollout", "evaluate"} => Len(collected) < Target
  /\ phase = "loop" /\ try_count = Loops => Len(collected) >= Target
  /\ phase = "done" => Len(collected) >= Target

LEMMA JoinedLength ==
  ASSUME NEW T, NEW a \in Seq(T), NEW b \in Seq(T)
  PROVE  a \o b \in Seq(T) /\ Len(a \o b) = Len(a) + Len(b)
OBVIOUS

(* Evaluate appends the kept trajectories. *)
LEMMA ExtendedSize ==
  ASSUME NEW S, collected \in Seq(S)
  PROVE  (\E T : Extended \in Seq(T)) /\ Len(Extended) = Len(collected) + Cardinality(Kept)
<1> DEFINE n == Cardinality(Kept)
           e(k) == Trajectory(Nth(Kept, k))
           T == S \cup {e(k) : k \in 1 .. n}
           kept == [k \in 1 .. n |-> e(k)]
<1>1. n \in Nat
  BY KeptSize
<1>2. kept \in Seq(T) /\ Len(kept) = n
  <2> HIDE DEF n, e
  <2> QED BY <1>1
<1>3. collected \in Seq(T)
  <2> HIDE DEF n, e
  <2> QED OBVIOUS
<1>4. Extended = collected \o kept
  BY DEF Extended
<1>5. Extended \in Seq(T) /\ Len(Extended) = Len(collected) + n
  <2> HIDE DEF n, e, T, kept
  <2> QED BY <1>2, <1>3, <1>4, JoinedLength
<1> QED BY <1>5

LEMMA SizeInvariance == Spec => []SizeInv
<1>1. Init => SizeInv
  <2> SUFFICES ASSUME Init PROVE SizeInv
    OBVIOUS
  <2>1. collected \in Seq({}) /\ Len(collected) = 0
    BY DEF Init
  <2> QED BY <2>1, TargetPositive, LoopsPositive DEF Init, SizeInv
<1>2. IInv /\ SizeInv /\ [Next]_vars => SizeInv'
  <2> SUFFICES ASSUME IInv, SizeInv, [Next]_vars PROVE SizeInv'
    OBVIOUS
  <2>0. PICK S : collected \in Seq(S)
    BY DEF SizeInv
  <2>1. CASE Reset
    BY <2>1, <2>0 DEF Reset, MoreNeeded, SizeInv
  <2>2. ASSUME NEW out \in [Env -> Outcomes], Turn(out) PROVE SizeInv'
    BY <2>2 DEF Turn, SizeInv
  <2>3. CASE Evaluate
    <3>1. (\E T : collected' \in Seq(T)) /\ Len(collected') = Len(collected) + Cardinality(Kept)
      BY <2>0, <2>3, ExtendedSize DEF Evaluate
    <3>2. Len(collected) \in Nat /\ Len(collected) < Target
      BY <2>0, <2>3 DEF Evaluate, SizeInv
    <3>3. try_count = Loops => LastTry
      BY DEF Loops, LastTry, IInv, TypeInv, Modes
    <3>4. phase' = "loop" /\ try_count' = try_count
      BY <2>3 DEF Evaluate
    <3>5. Loops' = Loops
      BY LoopKept
    <3> QED BY <3>1, <3>2, <3>3, <3>4, <3>5, KeptSize, TargetPositive DEF SizeInv
  <2>4. CASE Finish
    <3>1. ~MoreNeeded /\ phase = "loop" /\ phase' = "done" /\ UNCHANGED <<try_count, collected>>
      BY <2>4 DEF Finish
    <3>2. try_count \in 0 .. Loops
      BY DEF IInv, TypeInv
    <3>3. Len(collected) \in Nat
      BY <2>0
    <3>4. Len(collected) >= Target
      BY <3>1, <3>2, <3>3, LoopsPositive, TargetPositive DEF MoreNeeded, SizeInv
    <3> QED BY <3>1, <3>4 DEF SizeInv
  <2>5. CASE UNCHANGED vars
    BY <2>5, LoopKept DEF vars, SizeInv
  <2> QED BY <2>1, <2>2, <2>3, <2>4, <2>5 DEF Next
<1> QED BY <1>1, <1>2, Invariance, PTL DEF Spec

(* Dynamic sampling returns at least the target number of trajectories and  *)
(* less than twice as many, for every batch and every number of tries.      *)
THEOREM CollectsTarget == Spec => []TargetMet
<1>1. SizeInv => TargetMet
  BY DEF SizeInv, TargetMet
<1> QED BY <1>1, SizeInvariance, PTL

----------------------------------------------------------------------------
(* What is collected can be used *)

(* The environments of group g are the N indexes from g * N on. *)
LEMMA GroupIsInterval ==
  ASSUME NEW i \in Env, NEW g \in Int
  PROVE  GroupOf(i) \in Int /\ (GroupOf(i) = g <=> i \in MembersOf(g))
<1>1. N \in Nat /\ N > 0 /\ i \in Int
  BY SizesAssumption DEF Env
<1>2. i % N = i - N * (i \div N) /\ (i \div N) \in Int /\ i % N \in 0 .. N - 1
  BY <1>1
<1>3. PICK q \in Int : q = i \div N
  BY <1>2
<1>4. N * q <= i /\ i < N * q + N
  <2>1. N * q \in Int
    BY <1>1
  <2>2. i % N = i - N * q
    BY <1>2, <1>3
  <2> QED BY <1>1, <1>2, <2>1, <2>2
<1>5. ASSUME NEW a \in Int, NEW b \in Int, a < b
      PROVE  N * a + N <= N * b
  <2>1. PICK d \in Nat : b = a + 1 + d
    <3>1. b - a - 1 \in Nat /\ b = a + 1 + (b - a - 1)
      BY <1>5
    <3> QED BY <3>1
  <2>2. N * b = N * a + N + N * d /\ N * d >= 0 /\ N * a \in Int /\ N * d \in Int
    BY <1>1, <2>1
  <2> QED BY <1>1, <2>2
<1>6. i \in MembersOf(g) <=> N * g <= i /\ i < N * g + N
  <2>1. g * N = N * g /\ N * g \in Int
    BY <1>1
  <2> QED BY <1>1, <2>1 DEF MembersOf
<1>7. q = g => i \in MembersOf(g)
  BY <1>4, <1>6
<1>8. ASSUME q < g PROVE i \notin MembersOf(g)
  <2>1. N * q + N <= N * g
    BY <1>5, <1>8
  <2>2. N * q \in Int /\ N * g \in Int
    BY <1>1
  <2> QED BY <1>1, <1>4, <1>6, <2>1, <2>2
<1>9. ASSUME g < q PROVE i \notin MembersOf(g)
  <2>1. N * g + N <= N * q
    BY <1>5, <1>9
  <2>2. N * q \in Int /\ N * g \in Int
    BY <1>1
  <2> QED BY <1>1, <1>4, <1>6, <2>1, <2>2
<1> QED BY <1>3, <1>7, <1>8, <1>9 DEF GroupOf

LEMMA GroupInEnv ==
  ASSUME NEW i \in Env
  PROVE  /\ MembersOf(GroupOf(i)) \subseteq Env
         /\ IsFiniteSet(MembersOf(GroupOf(i))) /\ Cardinality(MembersOf(GroupOf(i))) = N
         /\ GroupOf(i) * N \in MembersOf(GroupOf(i))
<1> DEFINE g == GroupOf(i)
<1>1. g \in Int /\ i \in MembersOf(g)
  BY GroupIsInterval
<1> HIDE DEF g
<1>2. N \in Nat /\ N > 0 /\ Groups \in Nat /\ g * N \in Int /\ i \in Int
  BY SizesAssumption, <1>1 DEF Env
<1>3. g * N <= i /\ i < g * N + N /\ 0 <= i /\ i < Groups * N
  <2>1. Groups * N \in Int
    BY <1>2
  <2> QED BY <1>1, <1>2, <2>1 DEF MembersOf, Env
<1>4. ASSUME NEW a \in Int, NEW b \in Int, a < b
      PROVE  a * N + N <= b * N
  <2>1. PICK d \in Nat : b = a + 1 + d
    <3>1. b - a - 1 \in Nat /\ b = a + 1 + (b - a - 1)
      BY <1>4
    <3> QED BY <3>1
  <2>2. b * N = a * N + N + d * N /\ d * N >= 0 /\ a * N \in Int /\ d * N \in Int
    BY <1>2, <2>1
  <2> QED BY <1>2, <2>2
<1>5. 0 <= g
  <2> SUFFICES ASSUME g < 0 PROVE FALSE
    BY <1>1
  <2>1. g * N + N <= 0 * N
    BY <1>1, <1>4
  <2> QED BY <1>2, <1>3, <2>1
<1>6. g < Groups
  <2> SUFFICES ASSUME ~(g < Groups) PROVE FALSE
    OBVIOUS
  <2>1. Groups * N <= g * N
    <3>1. CASE Groups = g
      BY <1>2, <3>1
    <3>2. CASE Groups < g
      <4>1. Groups * N + N <= g * N
        BY <1>1, <1>2, <1>4, <3>2
      <4> QED BY <1>2, <4>1
    <3> QED BY <1>1, <1>2, <3>1, <3>2
  <2>2. Groups * N \in Int
    BY <1>2
  <2> QED BY <1>2, <1>3, <2>1, <2>2
<1>7. g * N + N <= Groups * N /\ 0 <= g * N
  BY <1>1, <1>2, <1>4, <1>5, <1>6
<1>8. MembersOf(g) \subseteq Env /\ g * N \in MembersOf(g)
  <2>1. Groups * N \in Int
    BY <1>2
  <2> QED BY <1>2, <1>7, <2>1 DEF MembersOf, Env
<1>9. IsFiniteSet(MembersOf(g)) /\ Cardinality(MembersOf(g)) = N
  BY <1>2, FS_Interval DEF MembersOf
<1> QED BY <1>8, <1>9 DEF g

(* Nth counts a finite set of integers through, each element once. *)
LEMMA NthCounts ==
  ASSUME NEW S \in SUBSET Int, IsFiniteSet(S)
  PROVE  /\ \A k \in 1 .. Cardinality(S) :
               Nth(S, k) \in S /\ Cardinality({j \in S : j <= Nth(S, k)}) = k
         /\ \A i \in S : /\ Cardinality({j \in S : j <= i}) \in 1 .. Cardinality(S)
                         /\ Nth(S, Cardinality({j \in S : j <= i})) = i
<1> DEFINE upto(i) == {j \in S : j <= i}
           n == Cardinality(S)
           rank == [i \in S |-> Cardinality(upto(i))]
<1>1. n \in Nat
  BY FS_CardinalityType
<1>2. ASSUME NEW i \in S
      PROVE  IsFiniteSet(upto(i)) /\ Cardinality(upto(i)) \in 1 .. n
  <2>1. upto(i) \in SUBSET S /\ i \in upto(i)
    OBVIOUS
  <2>2. IsFiniteSet(upto(i)) /\ Cardinality(upto(i)) <= n
    BY <2>1, FS_Subset
  <2>3. Cardinality(upto(i)) \in Nat /\ Cardinality(upto(i)) # 0
    BY <2>1, <2>2, FS_CardinalityType, FS_EmptySet
  <2> QED BY <1>1, <2>2, <2>3
<1>3. ASSUME NEW i \in S, NEW j \in S, Cardinality(upto(i)) = Cardinality(upto(j)), i <= j
      PROVE  i = j
  <2>1. upto(i) \in SUBSET upto(j)
    <3>1. \A a \in Int : a <= i => a <= j
      BY <1>3
    <3> QED BY <3>1
  <2>2. upto(i) = upto(j)
    BY <1>2, <1>3, <2>1, FS_Subset
  <2>3. j \in upto(j)
    OBVIOUS
  <2>4. j <= i
    BY <2>2, <2>3
  <2> QED BY <1>3, <2>4
<1>4. ASSUME NEW i \in S, NEW j \in S, Cardinality(upto(i)) = Cardinality(upto(j))
      PROVE  i = j
  <2>1. CASE i <= j
    BY <1>3, <1>4, <2>1
  <2>2. CASE j <= i
    BY <1>3, <1>4, <2>2
  <2> QED BY <2>1, <2>2
<1>5. rank \in Injection(S, 1 .. n)
  <2>1. rank \in [S -> 1 .. n]
    BY <1>2
  <2>2. \A i, j \in S : rank[i] = rank[j] => i = j
    BY <1>4
  <2> HIDE DEF rank
  <2> QED BY <2>1, <2>2 DEF Injection, IsInjective
<1>6. IsFiniteSet(1 .. n) /\ Cardinality(1 .. n) = n
  BY <1>1, FS_Interval
<1>7. rank \in Surjection(S, 1 .. n)
  <2>1. Cardinality(S) = Cardinality(1 .. n)
    BY <1>6
  <2> HIDE DEF rank, n
  <2> QED BY <1>5, <1>6, <2>1, FS_Injection
<1>8. \A k \in 1 .. n : \E i \in S : Cardinality(upto(i)) = k
  BY <1>7 DEF Surjection
<1>9. ASSUME NEW k \in 1 .. n PROVE Nth(S, k) \in S /\ Cardinality(upto(Nth(S, k))) = k
  BY <1>8 DEF Nth
<1>10. ASSUME NEW i \in S PROVE Nth(S, Cardinality(upto(i))) = i
  <2> DEFINE k == Cardinality(upto(i))
  <2>1. k \in 1 .. n
    BY <1>2
  <2>2. Nth(S, k) \in S /\ Cardinality(upto(Nth(S, k))) = k
    BY <1>9, <2>1
  <2> QED BY <1>4, <2>2
<1> QED BY <1>2, <1>9, <1>10

(* The limit of the environments ends every episode before the turns run    *)
(* out, so that what is evaluated is over.                                  *)
EndInv ==
  /\ turn >= MaxInteractions => \A i \in Env : is_done[i]
  /\ phase = "evaluate" => \A i \in Env : is_done[i]

LEMMA EndInvariance == Spec => []EndInv
<1>1. Init => EndInv
  BY MaxInteractionsAssumption DEF Init, Fresh, EndInv
<1>2. IInv /\ EndInv /\ [Next]_vars => EndInv'
  <2> SUFFICES ASSUME IInv, EndInv, [Next]_vars PROVE EndInv'
    OBVIOUS
  <2>1. CASE Reset
    BY <2>1, MaxInteractionsAssumption DEF Reset, EndInv
  <2>2. ASSUME NEW out \in [Env -> Outcomes], Turn(out) PROVE EndInv'
    <3>1. turn' = turn + 1 /\ turn \in Nat
      BY <2>2, StepsAssumption DEF Turn, IInv, TypeInv
    <3>2. turn' >= MaxInteractions => \A i \in Env : is_done'[i]
      BY <2>2, <3>1 DEF Turn, Permitted, DoneAfter
    <3>3. phase' = "evaluate" => AllDone \/ turn' >= MaxInteractions
      <4>1. turn' = MaxSteps => turn' >= MaxInteractions
        BY StepsAssumption
      <4> QED BY <2>2, <4>1 DEF Turn
    <3> QED BY <3>2, <3>3 DEF AllDone, EndInv
  <2>3. CASE Evaluate
    BY <2>3 DEF Evaluate, arrays, EndInv
  <2>4. CASE Finish
    BY <2>4 DEF Finish, arrays, EndInv
  <2>5. CASE UNCHANGED vars
    BY <2>5 DEF vars, arrays, EndInv
  <2> QED BY <2>1, <2>2, <2>3, <2>4, <2>5 DEF Next
<1> QED BY <1>1, <1>2, Invariance, PTL DEF Spec

(* The last active row is the one that ended the episode, and there are as  *)
(* many active rows as the length says.                                     *)
LEMMA LastRow ==
  ASSUME IInv, NEW i \in Env, is_done[i]
  PROVE  /\ total_infos[i][LastActive(i)].info.done
         /\ ActiveRows(i) = episode_lengths[i] /\ episode_lengths[i] > 0
<1> DEFINE l == episode_lengths[i]
<1>1. l \in Nat /\ l > 0 /\ l <= Len(total_infos[i]) /\ total_infos[i] \in Seq(Rows) /\ Episode(i)
  BY DEF IInv, TypeInv, Logs, Episode
<1>2. DOMAIN total_infos[i] = 1 .. Len(total_infos[i]) /\ Len(total_infos[i]) \in Nat
  BY <1>1
<1>3. \A k \in DOMAIN total_infos[i] : total_infos[i][k].active <=> k <= l
  BY <1>1 DEF Episode
<1>4. l \in DOMAIN total_infos[i] /\ total_infos[i][l].active
  BY <1>1, <1>2, <1>3
<1>5. LastActive(i) = l
  <2>1. \A j \in DOMAIN total_infos[i] : total_infos[i][j].active => j <= l
    BY <1>3
  <2>2. /\ LastActive(i) \in DOMAIN total_infos[i] /\ total_infos[i][LastActive(i)].active
        /\ \A j \in DOMAIN total_infos[i] : total_infos[i][j].active => j <= LastActive(i)
    BY <1>4, <2>1 DEF LastActive
  <2>3. LastActive(i) <= l /\ l <= LastActive(i) /\ LastActive(i) \in Int
    BY <1>2, <1>4, <2>1, <2>2
  <2> QED BY <1>1, <2>3
<1>6. total_infos[i][l].info.done
  BY <1>1 DEF Episode
<1>7. {k \in DOMAIN total_infos[i] : total_infos[i][k].active} = 1 .. l
  BY <1>1, <1>2, <1>3
<1>8. ActiveRows(i) = l
  <2>1. Cardinality(1 .. l) = l
    <3>1. l \in Int /\ l > 0
      BY <1>1
    <3> HIDE DEF l
    <3> QED BY <3>1, FS_Interval
  <2>2. ActiveRows(i) = Cardinality(1 .. l)
    BY <1>7 DEF ActiveRows
  <2> QED BY <2>1, <2>2
<1> QED BY <1>1, <1>5, <1>6, <1>8

(* Where Evaluate puts the trajectory of environment i. *)
Place(i) == Len(collected) + Cardinality({j \in Kept : j <= i})

LEMMA Placed ==
  ASSUME NEW S, collected \in Seq(S)
  PROVE  /\ DOMAIN collected \subseteq DOMAIN Extended
         /\ \A k \in DOMAIN collected : Extended[k] = collected[k]
         /\ \A i \in Kept : /\ Place(i) \in DOMAIN Extended \ DOMAIN collected
                            /\ Extended[Place(i)] = Trajectory(i)
         /\ \A k \in DOMAIN Extended \ DOMAIN collected : \E i \in Kept : k = Place(i)
         /\ \A i, j \in Kept : Place(i) = Place(j) => i = j
<1> DEFINE n == Cardinality(Kept)
           e(k) == Trajectory(Nth(Kept, k))
           kept == [k \in 1 .. n |-> e(k)]
           L == Len(collected)
           upto(i) == Cardinality({j \in Kept : j <= i})
<1>1. n \in Nat /\ L \in Nat /\ DOMAIN collected = 1 .. L
  BY KeptSize
<1>2. Kept \in SUBSET Int /\ IsFiniteSet(Kept)
  <2>1. Kept \in SUBSET Env /\ Env \subseteq Int
    BY SizesAssumption DEF Kept, Env
  <2> QED BY <2>1, EnvSize, FS_Subset
<1>3. \A k \in 1 .. n : Nth(Kept, k) \in Kept /\ upto(Nth(Kept, k)) = k
  BY <1>2, NthCounts
<1>4. \A i \in Kept : upto(i) \in 1 .. n /\ Nth(Kept, upto(i)) = i
  BY <1>2, NthCounts
<1>5. DOMAIN Extended = 1 .. L + n
  <2>1. (\E T : Extended \in Seq(T)) /\ Len(Extended) = L + n
    BY ExtendedSize
  <2> QED BY <2>1
<1>6. /\ \A k \in 1 .. L : Extended[k] = collected[k]
      /\ \A k \in 1 .. n : Extended[L + k] = e(k)
  <2> DEFINE T == S \cup {e(k) : k \in 1 .. n}
  <2>1. collected \in Seq(T)
    <3> HIDE DEF e, n
    <3> QED OBVIOUS
  <2>2. kept \in Seq(T) /\ Len(kept) = n
    <3> HIDE DEF e, n
    <3> QED BY <1>1
  <2>3. Extended = collected \o kept
    BY DEF Extended
  <2>4. \A k \in 1 .. n : kept[k] = e(k)
    OBVIOUS
  <2> HIDE DEF e, n, kept, T
  <2>5. \A k \in 1 .. L : Extended[k] = collected[k]
    BY <1>1, <2>1, <2>2, <2>3
  <2>6. \A k \in 1 .. n : Extended[L + k] = kept[k]
    BY <1>1, <2>1, <2>2, <2>3
  <2> QED BY <2>4, <2>5, <2>6
<1>7. \A i : Place(i) = L + upto(i)
  BY DEF Place
<1> HIDE DEF n, L, upto
<1>8. ASSUME NEW i \in Kept
      PROVE  Place(i) \in DOMAIN Extended \ DOMAIN collected /\ Extended[Place(i)] = Trajectory(i)
  <2>1. upto(i) \in 1 .. n /\ Nth(Kept, upto(i)) = i
    BY <1>4
  <2> QED BY <1>1, <1>5, <1>6, <1>7, <2>1
<1>9. ASSUME NEW k \in DOMAIN Extended \ DOMAIN collected
      PROVE  \E i \in Kept : k = Place(i)
  <2>1. k - L \in 1 .. n /\ k = L + (k - L)
    BY <1>1, <1>5
  <2>2. Nth(Kept, k - L) \in Kept /\ k = Place(Nth(Kept, k - L))
    BY <1>3, <1>7, <2>1
  <2> QED BY <2>2
<1>10. ASSUME NEW i \in Kept, NEW j \in Kept, Place(i) = Place(j)
       PROVE  i = j
  <2>1. upto(i) = upto(j)
    BY <1>1, <1>4, <1>7, <1>10
  <2> QED BY <1>4, <2>1
<1> QED BY <1>1, <1>5, <1>6, <1>8, <1>9, <1>10

(* Every entry is of a try made, before the one under way if there is one,  *)
(* and has the rows it reports; groups are whole, and those of early tries  *)
(* informative.                                                             *)
Entry(e) == e.uid[1] \in 0 .. try_count /\ e.rows = e.length /\ e.rows > 0

SameUid(k, all) == {j \in DOMAIN all : all[j].uid = all[k].uid}

Differs(k, all) == \E j \in DOMAIN all : all[j].uid = all[k].uid /\ all[j].reward # all[k].reward

UsableInv ==
  \A k \in DOMAIN collected :
    /\ Entry(collected[k])
    /\ phase \in {"rollout", "evaluate"} => collected[k].uid[1] < try_count
    /\ Cardinality(SameUid(k, collected)) = N
    /\ mode = "dynamic" /\ collected[k].uid[1] < MaxTry => Differs(k, collected)

(* A group is kept whole. *)
LEMMA KeptWhole ==
  ASSUME NEW i \in Kept
  PROVE  /\ i \in Env /\ MembersOf(GroupOf(i)) \subseteq Kept
         /\ \A j \in Kept : GroupOf(j) = GroupOf(i) <=> j \in MembersOf(GroupOf(i))
<1>1. i \in Env /\ Kept \subseteq Env
  BY DEF Kept
<1>2. GroupOf(i) \in Int /\ MembersOf(GroupOf(i)) \subseteq Env
  BY <1>1, GroupIsInterval, GroupInEnv
<1>3. \A j \in Env : GroupOf(j) = GroupOf(i) <=> j \in MembersOf(GroupOf(i))
  BY <1>2, GroupIsInterval
<1>4. \A j \in MembersOf(GroupOf(i)) : j \in Kept
  <2> SUFFICES ASSUME NEW j \in MembersOf(GroupOf(i)) PROVE j \in Kept
    OBVIOUS
  <2>1. j \in Env /\ GroupOf(j) = GroupOf(i)
    BY <1>2, <1>3
  <2>2. LastTry \/ ~AllSame(GroupOf(i))
    BY DEF Kept
  <2> QED BY <2>1, <2>2 DEF Kept
<1> QED BY <1>1, <1>3, <1>4

(* The entries of an old group are those it had. *)
LEMMA OldGroup ==
  ASSUME IInv, UsableInv, phase = "evaluate", NEW S, collected \in Seq(S), NEW k \in DOMAIN collected
  PROVE  SameUid(k, Extended) = SameUid(k, collected) /\ (Differs(k, collected) => Differs(k, Extended))
<1>1. \A j \in DOMAIN Extended \ DOMAIN collected : Extended[j].uid # collected[k].uid
  <2> SUFFICES ASSUME NEW j \in DOMAIN Extended \ DOMAIN collected
               PROVE  Extended[j].uid # collected[k].uid
    OBVIOUS
  <2>1. PICK i \in Kept : Extended[j] = Trajectory(i)
    BY Placed
  <2>2. Extended[j].uid[1] = try_count
    BY <2>1 DEF Trajectory
  <2>3. collected[k].uid[1] < try_count /\ collected[k].uid[1] \in 0 .. try_count /\ try_count \in Nat
    BY LoopsPositive DEF UsableInv, Entry, IInv, TypeInv
  <2> QED BY <2>2, <2>3
<1>2. DOMAIN collected \subseteq DOMAIN Extended /\ \A j \in DOMAIN collected : Extended[j] = collected[j]
  BY Placed
<1> HIDE DEF Extended
<1> QED BY <1>1, <1>2 DEF SameUid, Differs

(* The entries of a new group are the places of its environments. *)
LEMMA NewGroup ==
  ASSUME IInv, UsableInv, phase = "evaluate", NEW S, collected \in Seq(S), NEW i \in Kept
  PROVE  /\ Cardinality(SameUid(Place(i), Extended)) = N
         /\ ~LastTry => Differs(Place(i), Extended)
<1> DEFINE g == GroupOf(i)
           M == MembersOf(g)
           J == SameUid(Place(i), Extended)
           f == [x \in M |-> Place(x)]
<1>1. M \subseteq Kept /\ i \in Env /\ \A j \in Kept : GroupOf(j) = g <=> j \in M
  BY KeptWhole
<1>2. \A j \in Kept : Place(j) \in DOMAIN Extended /\ Extended[Place(j)] = Trajectory(j)
  BY Placed
<1>3. \A j \in Kept : Trajectory(j).uid = <<try_count, GroupOf(j)>> /\ Trajectory(j).reward = episode_rewards[j]
  BY DEF Trajectory
<1>4. \A x \in M : Place(x) \in J
  BY <1>1, <1>2, <1>3 DEF SameUid
<1>5. \A k \in J : \E x \in M : k = Place(x)
  <2> SUFFICES ASSUME NEW k \in J PROVE \E x \in M : k = Place(x)
    OBVIOUS
  <2>1. k \in DOMAIN Extended /\ Extended[k].uid = <<try_count, g>>
    BY <1>2, <1>3 DEF SameUid
  <2>2. k \notin DOMAIN collected
    <3> SUFFICES ASSUME k \in DOMAIN collected PROVE FALSE
      OBVIOUS
    <3>1. Extended[k] = collected[k]
      BY Placed
    <3>2. collected[k].uid[1] < try_count /\ collected[k].uid[1] = try_count /\ try_count \in Nat
      BY <2>1, <3>1, LoopsPositive DEF UsableInv, IInv, TypeInv
    <3> QED BY <3>2
  <2>3. PICK x \in Kept : k = Place(x)
    BY <2>1, <2>2, Placed
  <2>4. GroupOf(x) = g
    BY <1>2, <1>3, <2>1, <2>3
  <2> QED BY <1>1, <2>3, <2>4
<1>6. \A x, y \in M : Place(x) = Place(y) => x = y
  BY <1>1, Placed
<1>7. f \in Bijection(M, J)
  <2> HIDE DEF M, J
  <2>1. f \in [M -> J] /\ \A x \in M : f[x] = Place(x)
    BY <1>4
  <2>2. f \in Injection(M, J)
    BY <1>6, <2>1 DEF Injection, IsInjective
  <2>3. f \in Surjection(M, J)
    BY <1>5, <2>1 DEF Surjection
  <2> QED BY <2>2, <2>3 DEF Bijection
<1>8. IsFiniteSet(M) /\ Cardinality(M) = N /\ g * N \in M
  BY <1>1, GroupInEnv
<1>9. Cardinality(J) = N
  <2> HIDE DEF M, J, f
  <2>1. ExistsBijection(M, J)
    BY <1>7 DEF ExistsBijection
  <2> QED BY <1>8, <2>1, FS_Bijection
<1>10. ASSUME ~LastTry PROVE Differs(Place(i), Extended)
  <2>1. PICK x \in M : episode_rewards[x] # episode_rewards[g * N]
    BY <1>10 DEF Kept, AllSame
  <2>2. PICK y \in M : episode_rewards[y] # episode_rewards[i]
    BY <1>8, <2>1
  <2>3. Place(y) \in J /\ y \in Kept
    BY <1>1, <1>4
  <2>4. Extended[Place(y)].reward # Extended[Place(i)].reward
    BY <1>2, <1>3, <2>2, <2>3
  <2> QED BY <2>3, <2>4 DEF SameUid, Differs
<1> QED BY <1>9, <1>10

LEMMA UsableInvariance == Spec => []UsableInv
<1>1. Init => UsableInv
  BY DEF Init, UsableInv
<1>2. IInv /\ SizeInv /\ EndInv /\ UsableInv /\ [Next]_vars => UsableInv'
  <2> SUFFICES ASSUME IInv, SizeInv, EndInv, UsableInv, [Next]_vars PROVE UsableInv'
    OBVIOUS
  <2>0. try_count \in Nat
    BY LoopsPositive DEF IInv, TypeInv
  <2>1. CASE Reset
    <3>1. try_count' = try_count + 1 /\ UNCHANGED <<mode, collected>>
      BY <2>1 DEF Reset, CountTry
    <3>2. \A k \in DOMAIN collected :
            collected[k].uid[1] \in 0 .. try_count' /\ collected[k].uid[1] < try_count'
      BY <2>0, <3>1 DEF UsableInv, Entry
    <3> QED BY <3>1, <3>2 DEF UsableInv, Entry, SameUid, Differs
  <2>2. ASSUME NEW out \in [Env -> Outcomes], Turn(out) PROVE UsableInv'
    <3>1. phase = "rollout" /\ UNCHANGED <<mode, try_count, collected>>
      BY <2>2 DEF Turn
    <3> QED BY <3>1 DEF UsableInv, Entry, SameUid, Differs
  <2>3. CASE Evaluate
    <3>1. phase = "evaluate" /\ phase' = "loop" /\ collected' = Extended /\ UNCHANGED <<mode, try_count>>
      BY <2>3 DEF Evaluate
    <3>2. PICK S : collected \in Seq(S)
      BY DEF SizeInv
    <3>3. ASSUME NEW k \in DOMAIN collected
          PROVE  /\ Entry(Extended[k]) /\ Cardinality(SameUid(k, Extended)) = N
                 /\ mode = "dynamic" /\ Extended[k].uid[1] < MaxTry => Differs(k, Extended)
      <4>1. Extended[k] = collected[k]
        BY <3>2, Placed
      <4>2. SameUid(k, Extended) = SameUid(k, collected) /\ (Differs(k, collected) => Differs(k, Extended))
        BY <3>1, <3>2, OldGroup
      <4> QED BY <4>1, <4>2 DEF UsableInv
    <3>4. ASSUME NEW i \in Kept
          PROVE  /\ Entry(Extended[Place(i)]) /\ Cardinality(SameUid(Place(i), Extended)) = N
                 /\ mode = "dynamic" /\ Extended[Place(i)].uid[1] < MaxTry => Differs(Place(i), Extended)
      <4>1. i \in Env /\ is_done[i]
        BY <3>1 DEF Kept, EndInv
      <4>2. ActiveRows(i) = episode_lengths[i] /\ episode_lengths[i] > 0
        BY <4>1, LastRow
      <4>3. /\ Extended[Place(i)].uid[1] = try_count
            /\ Extended[Place(i)].rows = ActiveRows(i) /\ Extended[Place(i)].length = episode_lengths[i]
        <5>1. Extended[Place(i)] = Trajectory(i)
          BY <3>2, Placed
        <5> QED BY <5>1 DEF Trajectory
      <4>4. Entry(Extended[Place(i)])
        BY <2>0, <4>2, <4>3 DEF Entry
      <4>5. mode = "dynamic" /\ try_count < MaxTry => ~LastTry
        BY <2>0, SizesAssumption DEF LastTry
      <4> QED BY <3>1, <3>2, <4>3, <4>4, <4>5, NewGroup
    <3>5. \A k \in DOMAIN Extended : /\ Entry(Extended[k]) /\ Cardinality(SameUid(k, Extended)) = N
                                     /\ mode = "dynamic" /\ Extended[k].uid[1] < MaxTry => Differs(k, Extended)
      <4>1. \A k \in DOMAIN Extended \ DOMAIN collected : \E i \in Kept : k = Place(i)
        BY <3>2, Placed
      <4> HIDE DEF Extended, Place, Kept, Entry, SameUid, Differs
      <4> QED BY <3>3, <3>4, <4>1
    <3> HIDE DEF Extended
    <3> QED BY <3>1, <3>5, SMTT(30) DEF UsableInv, Entry, SameUid, Differs
  <2>4. CASE Finish
    BY <2>4 DEF Finish, UsableInv, Entry, SameUid, Differs
  <2>5. CASE UNCHANGED vars
    <3>1. UNCHANGED <<mode, phase, try_count, collected>>
      BY <2>5 DEF vars
    <3> QED BY <3>1 DEF UsableInv, Entry, SameUid, Differs
  <2> QED BY <2>1, <2>2, <2>3, <2>4, <2>5 DEF Next
<1> QED BY <1>1, <1>2, Invariance, SizeInvariance, EndInvariance, PTL DEF Spec

(* Whatever dynamic sampling dropped and however large the batch, what it   *)
(* hands over can be used: a uid has all its trajectories, one from a try   *)
(* that could be repeated has two different rewards, every trajectory has   *)
(* the rows of its length, and what is evaluated is over.                   *)
THEOREM HandsOverUsableGroups == Spec => []GroupsUsable
<1>1. IInv /\ EndInv /\ UsableInv => GroupsUsable
  <2> SUFFICES ASSUME IInv, EndInv, UsableInv PROVE GroupsUsable
    OBVIOUS
  <2>1. GroupsWhole
    BY DEF GroupsWhole, UsableInv, SameUid
  <2>2. EarlyGroupsInformative
    BY DEF EarlyGroupsInformative, UsableInv, Differs
  <2>3. RowsMatchLengths
    BY DEF RowsMatchLengths, UsableInv, Entry
  <2>4. SuccessListsAligned
    BY LastRow DEF SuccessListsAligned, EndInv
  <2> QED BY <2>1, <2>2, <2>3, <2>4 DEF GroupsUsable
<1> QED BY <1>1, Invariance, EndInvariance, UsableInvariance, PTL

----------------------------------------------------------------------------
(* The process of a GPU: HybridWorker *)


AllCalls == Generating \cup DOMAIN Handlers \cup {"init_model"}

(* Which calls an activity belongs to. *)
PhaseInv ==
  /\ activity \in {"syncing", "waking", "generating"} => call \in Generating /\ generations < MaxGenerations
  /\ activity = "computing" => call \in DOMAIN Handlers
  /\ activity = "leaving" => call \in Generating \cup DOMAIN Handlers

(* The types of the weights, what is saved of them, and whether the engine  *)
(* has its base.                                                            *)
WeightsInv ==
  /\ weights \in [base : Counts, adapter : Counts]
  /\ saved \in [base : Counts \cup {NoWeights}, adapter : Counts]
  /\ loaded \in [base : Counts \cup {NoWeights}, adapter : Counts]
  /\ IF config.lora THEN weights.base = 0 ELSE weights.adapter = 0
  /\ IF config.lora THEN saved.base \in {0, NoWeights} ELSE saved.adapter = 0
  /\ activity = "computing" /\ call = "load_actor" => saved.base # NoWeights
  /\ activity = "computing" /\ call = "update_actor" => weights.base + weights.adapter < MaxUpdates

LoadedInv ==
  /\ base_sync_done <=> ~config.dummy \/ generations > 0 \/ activity \in {"waking", "generating"}
  /\ config.lora /\ base_sync_done => loaded.base = 0
  /\ activity \in {"waking", "generating"} =>
       loaded = IF BaseOnly THEN [weights EXCEPT !.adapter = 0] ELSE weights

(* The model a handler is at work on. *)
Busy(m) == activity \in {"computing", "leaving"} /\ call \in DOMAIN Handlers /\ Handlers[call].model = m

(* What is offloaded between calls is off the GPU unless its handler is at  *)
(* work, or it is the actor that is about to be given to the engine; what   *)
(* is not offloaded is on it.                                               *)
ParamsOf(m) ==
  /\ Fsdp \/ m = "ref" => place[m].grads = "none"
  /\ Fsdp /\ m = "ref" => place[m].params = "cpu"
  /\ ~config.param_offload /\ ~(Fsdp /\ m = "ref") =>
       place[m].params = "gpu" /\ (~Fsdp /\ m # "ref" => place[m].grads = "gpu")
  /\ config.param_offload /\ ~Busy(m) =>
       \/ ~OnGpu(m)
       \/ m = "actor" /\ (activity \in {"syncing", "waking"} \/ (Fsdp /\ config.engine = "vllm_0_6_3"))
  /\ activity = "computing" /\ Busy(m) /\ ~(Fsdp /\ m = "ref") =>
       place[m].params = "gpu" /\ (call \in Updating /\ ~Fsdp => place[m].grads = "gpu")

OptimOf(m) ==
  /\ ~config.optimizer_offload => place[m].optim # "cpu"
  /\ config.optimizer_offload /\ ~(Busy(m) /\ call \in Updating \cup Loading) => place[m].optim # "gpu"
  /\ activity = "computing" /\ Busy(m) /\ call \in Updating => place[m].optim # "cpu"

PlaceInv == place \in [Models -> Places] /\ \A m \in Models : ParamsOf(m) /\ OptimOf(m)

EngineInv ==
  activity \in {"idle", "syncing", "computing"} \/ (activity = "leaving" /\ call \notin Generating) => engine = "asleep"

(* Each group's generation draws from its own stream as often as it has     *)
(* generated, the training from the one all share; the one that is not in   *)
(* use is kept, the training's also in the checkpoint.                      *)
RandomOf(g) ==
  /\ saved_rng[g] = [stream |-> NoWeights, drawn |-> saved_draws]
  /\ IF activity = "generating" \/ (activity = "leaving" /\ call \in Generating)
     THEN /\ rng[g] = [stream |-> g, drawn |-> generations]
          /\ torch_random_states[g] = [stream |-> NoWeights, drawn |-> draws]
     ELSE /\ rng[g] = [stream |-> NoWeights, drawn |-> draws]
          /\ gen_random_states[g] = [stream |-> g, drawn |-> generations]

RandomInv == Manager.swaps => \A g \in GenerationGroups : RandomOf(g)

GroupInv ==
  IF activity \in {"computing", "leaving"} /\ call \in Passing /\ GroupFor(Handlers[call].model) \in config.ulysses
  THEN sp_group = GroupFor(Handlers[call].model) /\ prev_sp_group = "none"
  ELSE sp_group = "none"

WorkerInv == WorkerTypeOK /\ PhaseInv /\ WeightsInv /\ LoadedInv /\ PlaceInv /\ EngineInv /\ RandomInv /\ GroupInv
----------------------------------------------------------------------------
(* What the proofs need to know of the handlers *)

LEMMA CallNames ==
  DOMAIN Handlers = {"update_actor", "compute_log_prob", "compute_ref_log_prob", "compute_values", "update_critic",
                     "save_actor", "load_actor", "save_critic", "load_critic"}
  BY DEF Handlers

LEMMA GeneratingApart == Generating \cap DOMAIN Handlers = {}
  BY CallNames DEF Generating

(* Of the calls, the updates alone step the optimizer, on gradients that    *)
(* Megatron loads; only the reference's log-probs are about it.             *)
LEMMA HandlerFacts ==
  ASSUME NEW c \in DOMAIN Handlers
  PROVE  /\ Handlers[c].model \in Models
         /\ Handlers[c].optim <=> c \in Updating
         /\ Handlers[c].grads \in BOOLEAN
         /\ c \in Updating /\ ~Fsdp => Handlers[c].grads
         /\ Handlers[c].model = "ref" => c \notin Updating /\ c \notin Loading /\ ~Handlers[c].grads
<1>1. CASE c = "update_actor"
  <2>1. Handlers[c] = IF Fsdp THEN fsdp_update_actor ELSE megatron_update_actor
    BY <1>1 DEF Handlers
  <2> QED BY <2>1, <1>1 DEF Updating, Loading, Models, Handler, fsdp_update_actor, megatron_update_actor
<1>2. CASE c = "compute_log_prob"
  <2>1. Handlers[c] = IF Fsdp THEN fsdp_compute_log_prob ELSE megatron_compute_log_prob
    BY <1>2 DEF Handlers
  <2> QED BY <2>1, <1>2 DEF Updating, Loading, Models, Handler, fsdp_compute_log_prob, megatron_compute_log_prob
<1>3. CASE c = "compute_ref_log_prob"
  <2>1. Handlers[c] = IF Fsdp THEN fsdp_compute_ref_log_prob ELSE megatron_compute_ref_log_prob
    BY <1>3 DEF Handlers
  <2> QED BY <2>1, <1>3 DEF Updating, Loading, Models, Handler, fsdp_compute_ref_log_prob, megatron_compute_ref_log_prob, fsdp_compute_log_prob
<1>4. CASE c = "compute_values"
  <2>1. Handlers[c] = IF Fsdp THEN fsdp_compute_values ELSE megatron_compute_values
    BY <1>4 DEF Handlers
  <2> QED BY <2>1, <1>4 DEF Updating, Loading, Models, Handler, fsdp_compute_values, megatron_compute_values
<1>5. CASE c = "update_critic"
  <2>1. Handlers[c] = IF Fsdp THEN fsdp_update_critic ELSE megatron_update_critic
    BY <1>5 DEF Handlers
  <2> QED BY <2>1, <1>5 DEF Updating, Loading, Models, Handler, fsdp_update_critic, megatron_update_critic
<1>6. CASE c = "save_actor"
  <2>1. Handlers[c] = IF Fsdp THEN fsdp_save_actor ELSE megatron_save_actor
    BY <1>6 DEF Handlers
  <2> QED BY <2>1, <1>6 DEF Updating, Loading, Models, Handler, fsdp_save_actor, megatron_save_actor
<1>7. CASE c = "load_actor"
  <2>1. Handlers[c] = IF Fsdp THEN fsdp_load_actor ELSE megatron_load_actor
    BY <1>7 DEF Handlers
  <2> QED BY <2>1, <1>7 DEF Updating, Loading, Models, Handler, fsdp_load_actor, megatron_load_actor
<1>8. CASE c = "save_critic"
  <2>1. Handlers[c] = IF Fsdp THEN fsdp_save_critic ELSE megatron_save_critic
    BY <1>8 DEF Handlers
  <2> QED BY <2>1, <1>8 DEF Updating, Loading, Models, Handler, fsdp_save_critic, megatron_save_critic
<1>9. CASE c = "load_critic"
  <2>1. Handlers[c] = IF Fsdp THEN fsdp_load_critic ELSE megatron_load_critic
    BY <1>9 DEF Handlers
  <2> QED BY <2>1, <1>9 DEF Updating, Loading, Models, Handler, fsdp_load_critic, megatron_load_critic
<1> QED BY <1>1, <1>2, <1>3, <1>4, <1>5, <1>6, <1>7, <1>8, <1>9, CallNames

(* The configuration of a run does not change. *)
LEMMA SameConfig == [WorkerNext]_workerVars => config' = config
  BY DEF WorkerNext, workerVars, EnterGeneration, SyncWeights, WakeUp, Generate, LeaveGeneration, Begin, Compute, End, Restart

LEMMA SameHandlers ==
  ASSUME config' = config
  PROVE  /\ Fsdp' = Fsdp /\ Handlers' = Handlers /\ Manager' = Manager
  BY DEF Fsdp, Handlers, Manager, fsdp_compute_ref_log_prob

(* A call that follows another is one of the calls. *)
LEMMA AfterCalls ==
  ASSUME last \in AllCalls
  PROVE  After(last) \subseteq Generating \cup DOMAIN Handlers
<1>1. AllCalls = {"generate_sequences", "validate", "init_model"} \cup DOMAIN Handlers
  BY DEF AllCalls, Generating
<1> QED BY <1>1, CallNames DEF After, AfterStep, Generating
----------------------------------------------------------------------------
(* The phases *)

LEMMA StepPhase == WorkerTypeOK /\ PhaseInv /\ [WorkerNext]_workerVars => PhaseInv'
<1> SUFFICES ASSUME WorkerTypeOK, PhaseInv, [WorkerNext]_workerVars PROVE PhaseInv'
  OBVIOUS
<1>0. /\ config' = config /\ DOMAIN Handlers' = DOMAIN Handlers
      /\ generations \in Nat
  BY SameConfig, SameHandlers DEF WorkerTypeOK
<1>1. ASSUME NEW c \in Generating, EnterGeneration(c) PROVE PhaseInv'
  BY <1>0, <1>1 DEF EnterGeneration, PhaseInv, randomVars
<1>2. CASE SyncWeights
  BY <1>0, <1>2 DEF SyncWeights, PhaseInv, randomVars
<1>3. CASE WakeUp
  BY <1>0, <1>3 DEF WakeUp, PhaseInv
<1>4. CASE Generate
  BY <1>0, <1>4 DEF Generate, PhaseInv
<1>5. CASE LeaveGeneration
  BY <1>0, <1>5 DEF LeaveGeneration, PhaseInv
<1>6. ASSUME NEW c \in DOMAIN Handlers, Begin(c) PROVE PhaseInv'
  BY <1>0, <1>6 DEF Begin, PhaseInv
<1>7. CASE Compute
  BY <1>0, <1>7 DEF Compute, PhaseInv
<1>8. CASE End
  BY <1>0, <1>8 DEF End, PhaseInv
<1>9. CASE Restart
  BY <1>0, <1>9 DEF Restart, PhaseInv
<1>10. CASE UNCHANGED workerVars
  BY <1>0, <1>10 DEF workerVars, PhaseInv
<1> QED BY <1>1, <1>2, <1>3, <1>4, <1>5, <1>6, <1>7, <1>8, <1>9, <1>10 DEF WorkerNext
----------------------------------------------------------------------------
(* The weights *)

LEMMA StepWeights == WorkerTypeOK /\ PhaseInv /\ WeightsInv /\ [WorkerNext]_workerVars => WeightsInv'
<1> SUFFICES ASSUME WorkerTypeOK, PhaseInv, WeightsInv, [WorkerNext]_workerVars PROVE WeightsInv'
  OBVIOUS
<1>0. config' = config /\ MaxUpdates \in Nat /\ 0 \in Counts
  BY SameConfig, BoundsAssumption DEF Counts
<1>1. ASSUME NEW c \in Generating, EnterGeneration(c) PROVE WeightsInv'
  BY <1>0, <1>1 DEF EnterGeneration, savedVars, WeightsInv, engineVars
<1>2. CASE SyncWeights
  <2>1. loaded' \in [base : Counts \cup {NoWeights}, adapter : Counts]
    BY <1>0, <1>2 DEF SyncWeights, savedVars, WeightsInv, Synced
  <2> QED BY <1>0, <2>1, <1>2 DEF SyncWeights, savedVars, WeightsInv
<1>3. CASE WakeUp
  BY <1>0, <1>3 DEF WakeUp, savedVars, WeightsInv
<1>4. CASE Generate
  BY <1>0, <1>4 DEF Generate, savedVars, WeightsInv, engineVars
<1>5. CASE LeaveGeneration
  BY <1>0, <1>5 DEF LeaveGeneration, savedVars, WeightsInv
<1>6. ASSUME NEW c \in DOMAIN Handlers, Begin(c) PROVE WeightsInv'
  <2>1. c = "load_actor" => saved.base # NoWeights
    BY <1>6, CallNames DEF Begin, After, AfterStep, Generating, WorkerTypeOK
  <2> QED BY <1>0, <1>6, <2>1 DEF Begin, savedVars, WeightsInv, engineVars
<1>7. CASE Compute
  <2>1. /\ activity' = "leaving" /\ loaded' = loaded
        /\ saved' = saved \/ saved' = weights
    BY <1>7 DEF Compute, engineVars, savedVars
  <2>2. CASE weights' = Trained /\ call = "update_actor"
    <3>1. weights.base + weights.adapter < MaxUpdates
      BY <2>2, <1>7 DEF Compute, WeightsInv
    <3>2. /\ weights' \in [base : Counts, adapter : Counts]
          /\ IF config.lora THEN weights'.base = 0 ELSE weights'.adapter = 0
      BY <1>0, <2>2, <3>1 DEF Trained, WeightsInv, Counts
    <3> QED BY <1>0, <2>1, <3>2 DEF WeightsInv
  <2>3. CASE weights' = saved /\ call = "load_actor"
    <3>1. saved.base # NoWeights
      BY <2>3, <1>7 DEF Compute, WeightsInv
    <3> QED BY <1>0, <2>1, <2>3, <3>1 DEF WeightsInv
  <2>4. CASE weights' = weights
    BY <1>0, <2>1, <2>4 DEF WeightsInv
  <2> QED BY <2>2, <2>3, <2>4, <1>7 DEF Compute
<1>8. CASE End
  BY <1>0, <1>8 DEF End, savedVars, WeightsInv, engineVars
<1>9. CASE Restart
  BY <1>0, <1>9 DEF Restart, savedVars, WeightsInv, FirstWeights, BuiltEngine
<1>10. CASE UNCHANGED workerVars
  BY <1>0, <1>10 DEF workerVars, WeightsInv
<1> QED BY <1>1, <1>2, <1>3, <1>4, <1>5, <1>6, <1>7, <1>8, <1>9, <1>10 DEF WorkerNext

LEMMA StepLoaded == WorkerTypeOK /\ PhaseInv /\ WeightsInv /\ LoadedInv /\ [WorkerNext]_workerVars => LoadedInv'
<1> SUFFICES ASSUME WorkerTypeOK, PhaseInv, WeightsInv, LoadedInv, [WorkerNext]_workerVars PROVE LoadedInv'
  OBVIOUS
<1>0. config' = config /\ generations \in Nat
  BY SameConfig DEF WorkerTypeOK
<1>1. ASSUME NEW c \in Generating, EnterGeneration(c) PROVE LoadedInv'
  BY <1>0, <1>1 DEF EnterGeneration, LoadedInv, BaseOnly, PhaseInv, engineVars, randomVars
<1>2. CASE SyncWeights
  <2>1. activity = "syncing" /\ activity' = "waking" /\ base_sync_done' /\ loaded' = Synced
        /\ weights' = weights /\ generations' = generations
    BY <1>2 DEF SyncWeights, randomVars
  <2>2. base_sync_done <=> ~config.dummy \/ generations > 0
    BY <2>1 DEF LoadedInv
  <2>3. config.lora => weights.base = 0 /\ loaded'.base = 0
    BY <1>0, <2>1 DEF LoadedInv, WeightsInv, Synced
  <2>4. loaded' = IF BaseOnly THEN [weights EXCEPT !.adapter = 0] ELSE weights
    <3>1. CASE config.lora /\ base_sync_done
      <4>1. /\ weights = [base |-> 0, adapter |-> weights.adapter]
            /\ [loaded EXCEPT !.adapter = weights.adapter] = [base |-> 0, adapter |-> weights.adapter]
        BY <3>1 DEF LoadedInv, WeightsInv
      <4> QED BY <1>0, <2>1, <2>2, <3>1, <4>1 DEF Synced, BaseOnly
    <3>2. CASE config.lora /\ ~base_sync_done
      <4>1. [base |-> weights.base, adapter |-> 0] = [weights EXCEPT !.adapter = 0]
        BY DEF WeightsInv
      <4>2. BaseOnly
        BY <1>0, <2>2, <3>2 DEF BaseOnly
      <4> QED BY <2>1, <3>2, <4>1, <4>2 DEF Synced
    <3>3. CASE ~config.lora
      BY <2>1, <3>3 DEF Synced, BaseOnly
    <3> QED BY <3>1, <3>2, <3>3
  <2> QED BY <1>0, <2>1, <2>2, <2>3, <2>4 DEF LoadedInv, BaseOnly
<1>3. CASE WakeUp
  BY <1>0, <1>3 DEF WakeUp, LoadedInv, BaseOnly, PhaseInv
<1>4. CASE Generate
  BY <1>0, <1>4 DEF Generate, LoadedInv, BaseOnly, PhaseInv, engineVars
<1>5. CASE LeaveGeneration
  BY <1>0, <1>5 DEF LeaveGeneration, LoadedInv, BaseOnly, PhaseInv
<1>6. ASSUME NEW c \in DOMAIN Handlers, Begin(c) PROVE LoadedInv'
  BY <1>0, <1>6 DEF Begin, LoadedInv, BaseOnly, PhaseInv, engineVars, randomVars
<1>7. CASE Compute
  BY <1>0, <1>7 DEF Compute, LoadedInv, BaseOnly, PhaseInv, engineVars
<1>8. CASE End
  BY <1>0, <1>8 DEF End, LoadedInv, BaseOnly, PhaseInv, engineVars, randomVars
<1>9. CASE Restart
  <2>1. /\ activity' = "idle" /\ generations' = 0 /\ (base_sync_done' <=> ~config.dummy)
        /\ loaded'.base = IF config.dummy THEN NoWeights ELSE 0
    BY <1>9 DEF Restart, BuiltEngine
  <2> QED BY <1>0, <2>1 DEF LoadedInv
<1>10. CASE UNCHANGED workerVars
  BY <1>0, <1>10 DEF workerVars, LoadedInv, BaseOnly, PhaseInv
<1> QED BY <1>1, <1>2, <1>3, <1>4, <1>5, <1>6, <1>7, <1>8, <1>9, <1>10 DEF WorkerNext
----------------------------------------------------------------------------
(* What else is handed from call to call: the engine, the random states and *)
(* the sequence-parallel group *)

LEMMA StepEngine == PhaseInv /\ EngineInv /\ [WorkerNext]_workerVars => EngineInv'
<1> SUFFICES ASSUME PhaseInv, EngineInv, [WorkerNext]_workerVars PROVE EngineInv'
  OBVIOUS
<1>0. Generating \cap DOMAIN Handlers = {}
  BY GeneratingApart
<1>1. ASSUME NEW c \in Generating, EnterGeneration(c) PROVE EngineInv'
  BY <1>0, <1>1 DEF EnterGeneration, EngineInv, engineVars
<1>2. CASE SyncWeights
  BY <1>0, <1>2 DEF SyncWeights, EngineInv
<1>3. CASE WakeUp
  BY <1>0, <1>3 DEF WakeUp, EngineInv
<1>4. CASE Generate
  BY <1>0, <1>4 DEF Generate, EngineInv, engineVars, PhaseInv
<1>5. CASE LeaveGeneration
  BY <1>0, <1>5 DEF LeaveGeneration, EngineInv
<1>6. ASSUME NEW c \in DOMAIN Handlers, Begin(c) PROVE EngineInv'
  BY <1>0, <1>6 DEF Begin, EngineInv, engineVars
<1>7. CASE Compute
  BY <1>0, <1>7 DEF Compute, EngineInv, engineVars
<1>8. CASE End
  <2>1. engine = "asleep"
    BY <1>0, <1>8 DEF End, EngineInv, PhaseInv
  <2> QED BY <2>1, <1>8 DEF End, EngineInv, engineVars
<1>9. CASE Restart
  BY <1>0, <1>9 DEF Restart, EngineInv
<1>10. CASE UNCHANGED workerVars
  BY <1>0, <1>10 DEF workerVars, EngineInv
<1> QED BY <1>1, <1>2, <1>3, <1>4, <1>5, <1>6, <1>7, <1>8, <1>9, <1>10 DEF WorkerNext

LEMMA StepRandom == WorkerTypeOK /\ PhaseInv /\ RandomInv /\ [WorkerNext]_workerVars => RandomInv'
<1>0. ASSUME WorkerTypeOK, PhaseInv, RandomInv, [WorkerNext]_workerVars PROVE Manager' = Manager
  BY <1>0, SameConfig, SameHandlers
<1> SUFFICES ASSUME WorkerTypeOK, PhaseInv, [WorkerNext]_workerVars, Manager.swaps, NEW g \in GenerationGroups, RandomOf(g)
             PROVE  RandomOf(g)'
  BY <1>0 DEF RandomInv
<1>a. /\ Generating \cap DOMAIN Handlers = {} /\ generations \in Nat /\ draws \in Nat
      /\ rng \in RandomStates /\ saved_rng \in RandomStates /\ saved_draws \in Nat
      /\ torch_random_states \in RandomStates /\ gen_random_states \in RandomStates
  BY GeneratingApart DEF WorkerTypeOK
<1>1. ASSUME NEW c \in Generating, EnterGeneration(c) PROVE RandomOf(g)'
  BY <1>a, <1>1 DEF EnterGeneration, savedVars, RandomOf, PhaseInv, randomVars
<1>2. CASE SyncWeights
  BY <1>a, <1>2 DEF SyncWeights, savedVars, RandomOf, PhaseInv, randomVars
<1>3. CASE WakeUp
  BY <1>a, <1>3 DEF WakeUp, savedVars, RandomOf, PhaseInv
<1>4. CASE Generate
  BY <1>a, <1>4 DEF Generate, savedVars, RandomOf, PhaseInv, Drawn, RandomStates
<1>5. CASE LeaveGeneration
  BY <1>a, <1>5 DEF LeaveGeneration, savedVars, RandomOf, PhaseInv, KeptState
<1>6. ASSUME NEW c \in DOMAIN Handlers, Begin(c) PROVE RandomOf(g)'
  BY <1>a, <1>6 DEF Begin, savedVars, RandomOf, PhaseInv, randomVars
<1>7. CASE Compute
  BY <1>a, <1>7 DEF Compute, savedVars, RestoredRng, RandomOf, PhaseInv, Drawn, RandomStates
<1>8. CASE End
  BY <1>a, <1>8 DEF End, savedVars, RandomOf, PhaseInv, randomVars
<1>9. CASE Restart
  BY <1>a, <1>9 DEF Restart, savedVars, RandomOf, PhaseInv, Seeded, TrainSeeded
<1>10. CASE UNCHANGED workerVars
  BY <1>a, <1>10 DEF workerVars, RandomOf, PhaseInv
<1> QED BY <1>1, <1>2, <1>3, <1>4, <1>5, <1>6, <1>7, <1>8, <1>9, <1>10 DEF WorkerNext

LEMMA StepGroup == PhaseInv /\ GroupInv /\ [WorkerNext]_workerVars => GroupInv'
<1> SUFFICES ASSUME PhaseInv, GroupInv, [WorkerNext]_workerVars PROVE GroupInv'
  OBVIOUS
<1>0. /\ config' = config /\ Handlers' = Handlers /\ Passing \cap Generating = {}
      /\ \A m : GroupFor(m)' = GroupFor(m)
  BY SameConfig, SameHandlers DEF GroupFor, Passing, Updating, Generating
<1>1. ASSUME NEW c \in Generating, EnterGeneration(c) PROVE GroupInv'
  BY <1>0, <1>1 DEF EnterGeneration, GroupInv, PhaseInv, groupVars
<1>2. CASE SyncWeights
  BY <1>0, <1>2 DEF SyncWeights, GroupInv, PhaseInv, groupVars
<1>3. CASE WakeUp
  BY <1>0, <1>3 DEF WakeUp, GroupInv, PhaseInv, groupVars
<1>4. CASE Generate
  BY <1>0, <1>4 DEF Generate, GroupInv, PhaseInv, groupVars
<1>5. CASE LeaveGeneration
  BY <1>0, <1>5 DEF LeaveGeneration, GroupInv, PhaseInv, groupVars
<1>6. ASSUME NEW c \in DOMAIN Handlers, Begin(c) PROVE GroupInv'
  BY <1>0, <1>6 DEF Begin, GroupInv, PhaseInv, EnterGroup, groupVars
<1>7. CASE Compute
  BY <1>0, <1>7 DEF Compute, GroupInv, PhaseInv, groupVars
<1>8. CASE End
  BY <1>0, <1>8 DEF End, GroupInv, PhaseInv, LeaveGroup, groupVars
<1>9. CASE Restart
  BY <1>0, <1>9 DEF Restart, GroupInv, PhaseInv
<1>10. CASE UNCHANGED workerVars
  BY <1>0, <1>10 DEF workerVars, GroupInv, PhaseInv
<1> QED BY <1>1, <1>2, <1>3, <1>4, <1>5, <1>6, <1>7, <1>8, <1>9, <1>10 DEF WorkerNext
----------------------------------------------------------------------------
(* The memory *)

(* What the helpers do to a model's parts. *)
LEMMA LoadHelper ==
  ASSUME NEW p \in Places, NEW grads \in BOOLEAN
  PROVE  /\ LoadModel(p, grads) \in Places
         /\ LoadModel(p, grads).params = "gpu" /\ LoadModel(p, grads).optim = p.optim
         /\ Fsdp \/ ~grads => LoadModel(p, grads).grads = p.grads
         /\ ~Fsdp /\ grads => LoadModel(p, grads).grads = "gpu"
<1>1. CASE Fsdp
  BY <1>1 DEF LoadModel, LoadFsdpModel, Places
<1>2. CASE ~Fsdp
  BY <1>2 DEF LoadModel, LoadMegatronModel, Places
<1> QED BY <1>1, <1>2

LEMMA OffloadHelper ==
  ASSUME NEW p \in Places, NEW m
  PROVE  /\ OffloadModel(m, p) \in Places
         /\ OffloadModel(m, p).params = "cpu" /\ OffloadModel(m, p).optim = p.optim
         /\ Fsdp \/ m = "ref" => OffloadModel(m, p).grads = p.grads
         /\ ~Fsdp /\ m # "ref" => OffloadModel(m, p).grads = "none"
<1>1. CASE Fsdp
  BY <1>1 DEF OffloadModel, OffloadFsdpModel, Places
<1>2. CASE ~Fsdp
  BY <1>2 DEF OffloadModel, OffloadMegatronModel, Places
<1> QED BY <1>1, <1>2

LEMMA OptimizerHelpers ==
  ASSUME NEW p \in Places
  PROVE  /\ LoadOptimizer(p) \in Places /\ OffloadOptimizer(p) \in Places
         /\ LoadOptimizer(p).params = p.params /\ LoadOptimizer(p).grads = p.grads
         /\ LoadOptimizer(p).optim = IF p.optim = "none" THEN "none" ELSE "gpu"
         /\ OffloadOptimizer(p).params = p.params /\ OffloadOptimizer(p).grads = p.grads
         /\ OffloadOptimizer(p).optim = IF p.optim = "none" THEN "none" ELSE "cpu"
<1>1. CASE Fsdp
  BY <1>1 DEF LoadOptimizer, OffloadOptimizer, LoadFsdpOptimizer, OffloadFsdpOptimizer, Places
<1>2. CASE ~Fsdp
  BY <1>2 DEF LoadOptimizer, OffloadOptimizer, LoadMegatronOptimizer, OffloadMegatronOptimizer, Places
<1> QED BY <1>1, <1>2

(* What a new start puts where. *)
LEMMA BuiltPlaces == config \in Configs /\ place = Built(config) /\ activity = "idle" => PlaceInv
<1> SUFFICES ASSUME config \in Configs, place = Built(config), activity = "idle"
             PROVE  PlaceInv
  OBVIOUS
<1>1. ASSUME NEW m \in Models
      PROVE  /\ Built(config)[m] \in Places
             /\ Built(config)[m].optim = "none"
             /\ Fsdp \/ m = "ref" \/ config.param_offload => Built(config)[m].grads = "none"
             /\ ~(Fsdp \/ m = "ref" \/ config.param_offload) => Built(config)[m].grads = "gpu"
             /\ Built(config)[m].params = IF config.param_offload \/ (Fsdp /\ m = "ref") THEN "cpu" ELSE "gpu"
  <2>1. Built(config)[m] = IF Fsdp THEN BuiltFsdp(m, config) ELSE BuiltMegatron(m, config)
    BY DEF Built, Fsdp
  <2>2. CASE Fsdp
    BY <2>1, <2>2 DEF BuiltFsdp, Places
  <2>3. CASE ~Fsdp
    BY <2>1, <2>3 DEF BuiltMegatron, Places
  <2> QED BY <2>2, <2>3
<1>2. place \in [Models -> Places]
  BY <1>1 DEF Built
<1>3. ASSUME NEW m \in Models PROVE ParamsOf(m) /\ OptimOf(m)
  BY <1>1 DEF ParamsOf, OptimOf, Busy, OnGpu
<1> QED BY <1>2, <1>3 DEF PlaceInv
LEMMA StepPlace == WorkerTypeOK /\ PhaseInv /\ PlaceInv /\ [WorkerNext]_workerVars => PlaceInv'
<1> SUFFICES ASSUME WorkerTypeOK, PhaseInv, PlaceInv, [WorkerNext]_workerVars
             PROVE  place' \in [Models -> Places] /\ \A m \in Models : ParamsOf(m)' /\ OptimOf(m)'
  BY DEF PlaceInv
<1>0. config' = config /\ Handlers' = Handlers /\ (Fsdp' <=> Fsdp)
  BY SameConfig, SameHandlers
<1>a. Generating \cap DOMAIN Handlers = {}
  BY GeneratingApart
<1>b. ASSUME NEW m \in Models PROVE place[m] \in Places /\ ParamsOf(m) /\ OptimOf(m)
  BY DEF PlaceInv
<1>c. place \in [Models -> Places] /\ "actor" \in Models /\ "ref" # "actor" /\ config.engine \in {"vllm", "vllm_0_6_3", "sglang"}
  BY DEF PlaceInv, Models, WorkerTypeOK, Configs
<1>1. ASSUME NEW c \in Generating, EnterGeneration(c)
      PROVE  place' \in [Models -> Places] /\ \A m \in Models : ParamsOf(m)' /\ OptimOf(m)'
  <2>1. /\ activity = "idle" /\ activity' = "syncing"
        /\ place' = IF config.param_offload
                    THEN [place EXCEPT !["actor"] = LoadModel(place["actor"], TRUE)] ELSE place
    BY <1>1 DEF EnterGeneration
  <2>2. place' \in [Models -> Places]
    BY <1>b, <1>c, <2>1, LoadHelper, TRUE \in BOOLEAN
  <2>3. ASSUME NEW m \in Models PROVE ParamsOf(m)' /\ OptimOf(m)'
    <3>1. CASE config.param_offload /\ m = "actor"
      <4>1. place'[m] = LoadModel(place[m], TRUE)
        BY <1>c, <2>1, <3>1
      <4>2. /\ place'[m].params = "gpu" /\ place'[m].optim = place[m].optim
            /\ Fsdp => place'[m].grads = place[m].grads
        <5>1. place[m] \in Places
          BY <1>b
        <5>2. LET q == LoadModel(place[m], TRUE)
              IN  q.params = "gpu" /\ q.optim = place[m].optim /\ (Fsdp => q.grads = place[m].grads)
          BY <5>1, LoadHelper
        <5> QED BY <4>1, <5>2
      <4>3. ParamsOf(m)'
        BY <1>0, <1>b, <1>c, <2>1, <3>1, <4>2 DEF ParamsOf, Busy
      <4>4. OptimOf(m)'
        BY <1>0, <1>b, <2>1, <4>2 DEF OptimOf, Busy
      <4> QED BY <4>3, <4>4
    <3>2. CASE ~(config.param_offload /\ m = "actor")
      <4>1. place'[m] = place[m]
        BY <1>c, <2>1, <3>2
      <4>2. ParamsOf(m)'
        <5>1. ParamsOf(m) /\ ~Busy(m) /\ ~Busy(m)'
          BY <1>b, <2>1 DEF Busy
        <5>2. config.param_offload => ~OnGpu(m) \/ m = "actor"
          BY <5>1 DEF ParamsOf
        <5> QED BY <1>0, <2>1, <3>2, <4>1, <5>1, <5>2 DEF ParamsOf, OnGpu
      <4>3. OptimOf(m)'
        BY <1>0, <1>b, <2>1, <4>1 DEF OptimOf, Busy
      <4> QED BY <4>2, <4>3
    <3> QED BY <3>1, <3>2
  <2> QED BY <2>2, <2>3
<1>2. CASE SyncWeights
  BY <1>0, <1>b, <1>c, <1>2 DEF SyncWeights, ParamsOf, OptimOf, Busy, OnGpu
<1>3. CASE WakeUp
  <2>1. activity = "waking" /\ activity' = "generating" /\ place' = MakeRoom
    BY <1>3 DEF WakeUp
  <2> DEFINE actor == place["actor"]
             rest == IF config.param_offload /\ (Manager.offloads \/ ~Fsdp) THEN OffloadModel("actor", actor) ELSE actor
             new == IF ~Fsdp /\ config.optimizer_offload THEN OffloadOptimizer(rest) ELSE rest
  <2>2. place' = [place EXCEPT !["actor"] = new]
    BY <2>1 DEF MakeRoom
  <2>3. Fsdp /\ config.engine # "vllm_0_6_3" => Manager.offloads
    BY <1>c DEF Manager, fsdp_vllm, fsdp_sglang
  <2>4. /\ rest \in Places /\ rest.optim = actor.optim
        /\ Fsdp => rest.grads = actor.grads
        /\ ~config.param_offload => rest = actor
        /\ config.param_offload /\ ~(Fsdp /\ config.engine = "vllm_0_6_3") => rest.params = "cpu" /\ (~Fsdp => rest.grads = "none")
    BY <1>b, <1>c, <2>3, OffloadHelper
  <2>5. /\ new \in Places /\ new.params = rest.params /\ new.grads = rest.grads
        /\ new.optim = IF ~Fsdp /\ config.optimizer_offload /\ rest.optim # "none" THEN "cpu" ELSE rest.optim
    BY <2>4, OptimizerHelpers
  <2> HIDE DEF actor, rest, new
  <2>6. place' \in [Models -> Places]
    BY <1>c, <2>2, <2>5
  <2>7. ASSUME NEW m \in Models, m # "actor" PROVE ParamsOf(m)' /\ OptimOf(m)'
    <3>1. place'[m] = place[m]
      BY <1>c, <2>2, <2>7
    <3> QED BY <1>0, <1>b, <2>1, <2>7, <3>1 DEF ParamsOf, OptimOf, Busy, OnGpu
  <2>8. ParamsOf("actor")' /\ OptimOf("actor")'
    <3>1. place'["actor"] = new /\ actor = place["actor"]
      BY <1>c, <2>2 DEF actor
    <3>2. ParamsOf("actor") /\ OptimOf("actor")
      BY <1>b, <1>c
    <3>3. ParamsOf("actor")'
      BY <1>0, <1>c, <2>1, <2>4, <2>5, <3>1, <3>2 DEF ParamsOf, Busy, OnGpu
    <3>4. OptimOf("actor")'
      BY <1>0, <1>c, <2>1, <2>4, <2>5, <3>1, <3>2 DEF OptimOf, Busy
    <3> QED BY <3>3, <3>4
  <2> QED BY <2>6, <2>7, <2>8
<1>4. CASE Generate
  BY <1>0, <1>a, <1>b, <1>c, <1>4 DEF Generate, ParamsOf, OptimOf, Busy, OnGpu, PhaseInv
<1>5. CASE LeaveGeneration
  BY <1>0, <1>a, <1>b, <1>c, <1>5 DEF LeaveGeneration, ParamsOf, OptimOf, Busy, OnGpu
<1>6. ASSUME NEW c \in DOMAIN Handlers, Begin(c)
      PROVE  place' \in [Models -> Places] /\ \A m \in Models : ParamsOf(m)' /\ OptimOf(m)'
  <2> DEFINE h == Handlers[c]
             model == IF Offloads(h.model) THEN LoadModel(place[h.model], h.grads) ELSE place[h.model]
             new == IF h.optim /\ config.optimizer_offload THEN LoadOptimizer(model) ELSE model
  <2>1. /\ activity = "idle" /\ activity' = "computing" /\ call' = c
        /\ place' = [place EXCEPT ![h.model] = new]
    BY <1>6 DEF Begin, LoadedFor
  <2>2. /\ h.model \in Models /\ (h.optim <=> c \in Updating) /\ (c \in Updating /\ ~Fsdp => h.grads)
        /\ h.model = "ref" => c \notin Updating /\ c \notin Loading /\ ~h.grads
    BY HandlerFacts
  <2>3. h.grads \in BOOLEAN
    BY HandlerFacts
  <2>4. Offloads(h.model) <=> config.param_offload /\ ~(Fsdp /\ h.model = "ref")
    BY DEF Offloads
  <2>5. /\ model \in Places /\ model.optim = place[h.model].optim
        /\ Fsdp \/ ~h.grads => model.grads = place[h.model].grads
        /\ ~Offloads(h.model) => model = place[h.model]
        /\ Offloads(h.model) => model.params = "gpu" /\ (~Fsdp /\ h.grads => model.grads = "gpu")
    BY <1>b, <2>2, <2>3, LoadHelper
  <2>6. /\ new \in Places /\ new.params = model.params /\ new.grads = model.grads
        /\ new.optim = IF h.optim /\ config.optimizer_offload /\ model.optim # "none" THEN "gpu" ELSE model.optim
    BY <2>5, OptimizerHelpers
  <2>7. Handlers'[call'].model = h.model
    BY <1>0, <2>1
  <2> HIDE DEF h, model, new
  <2>8. place' \in [Models -> Places]
    BY <1>c, <2>1, <2>2, <2>6
  <2>9. ASSUME NEW m \in Models, m # h.model PROVE ParamsOf(m)' /\ OptimOf(m)'
    <3>1. place'[m] = place[m]
      BY <1>c, <2>1, <2>9
    <3> QED BY <1>0, <1>b, <2>1, <2>7, <2>9, <3>1 DEF ParamsOf, OptimOf, Busy, OnGpu
  <2>10. ASSUME NEW m \in Models, m = h.model PROVE ParamsOf(m)' /\ OptimOf(m)'
    <3>1. place'[m] = new
      BY <1>c, <2>1, <2>10
    <3>2. ParamsOf(m) /\ OptimOf(m) /\ ~Busy(m) /\ Busy(m)'
      BY <1>0, <1>b, <2>1, <2>7, <2>10 DEF Busy
    <3>3. ParamsOf(m)'
      BY <1>0, <2>1, <2>2, <2>4, <2>5, <2>6, <2>10, <3>1, <3>2 DEF ParamsOf
    <3>4. OptimOf(m)'
      BY <1>0, <2>1, <2>2, <2>5, <2>6, <2>10, <3>1, <3>2 DEF OptimOf
    <3> QED BY <3>3, <3>4
  <2> QED BY <2>8, <2>9, <2>10
<1>7. CASE Compute
  <2>1. activity = "computing" /\ activity' = "leaving" /\ call' = call /\ call \in DOMAIN Handlers
    BY <1>7 DEF Compute, PhaseInv
  <2>2. Handlers[call].model \in Models
    BY <2>1, HandlerFacts
  <2>3. ASSUME NEW m \in Models
        PROVE  Busy(m)' <=> Busy(m)
    BY <1>0, <2>1 DEF Busy
  <2>4. CASE place' = place
    BY <1>0, <1>b, <1>c, <2>1, <2>3, <2>4 DEF ParamsOf, OptimOf, OnGpu
  <2>5. CASE /\ call \in Updating \cup Loading
             /\ place' = [place EXCEPT ![Handlers[call].model].optim = IF @ = "none" \/ call \in Loading THEN "gpu" ELSE @]
    <3> DEFINE w == Handlers[call].model
               new == [place[w] EXCEPT !.optim = IF @ = "none" \/ call \in Loading THEN "gpu" ELSE @]
    <3>1. place' = [place EXCEPT ![w] = new]
      BY <1>c, <2>2, <2>5
    <3>2. new \in Places /\ new.params = place[w].params /\ new.grads = place[w].grads /\ (new.optim = place[w].optim \/ new.optim = "gpu")
      BY <1>b, <2>2 DEF Places
    <3> HIDE DEF new
    <3>3. place' \in [Models -> Places]
      BY <1>c, <2>2, <3>1, <3>2
    <3>4. ASSUME NEW m \in Models PROVE ParamsOf(m)' /\ OptimOf(m)'
      <4>1. /\ place'[m].params = place[m].params /\ place'[m].grads = place[m].grads
            /\ place'[m].optim = place[m].optim \/ (place'[m].optim = "gpu" /\ m = w)
        BY <1>c, <2>2, <3>1, <3>2
      <4>2. m = w => Busy(m)
        BY <2>1 DEF Busy
      <4>3. ParamsOf(m)'
        BY <1>0, <1>b, <2>1, <2>3, <4>1 DEF ParamsOf, OnGpu
      <4>4. OptimOf(m)'
        BY <1>0, <1>b, <2>1, <2>3, <2>5, <4>1, <4>2 DEF OptimOf
      <4> QED BY <4>3, <4>4
    <3> QED BY <3>3, <3>4
  <2> QED BY <2>4, <2>5, <1>7 DEF Compute
<1>8. CASE End
  <2> DEFINE w == Handlers[call].model
             model == IF Offloads(w) THEN OffloadModel(w, place[w]) ELSE place[w]
             new == IF (Handlers[call].optim \/ call \in Loading) /\ config.optimizer_offload
                    THEN OffloadOptimizer(model) ELSE model
  <2>1. /\ activity = "leaving" /\ activity' = "idle" /\ call \in DOMAIN Handlers
        /\ place' = [place EXCEPT ![w] = new]
    BY <1>8 DEF End, OffloadedAfter, PhaseInv
  <2>2. w \in Models /\ (Handlers[call].optim <=> call \in Updating)
    BY <2>1, HandlerFacts
  <2>3. Offloads(w) <=> config.param_offload /\ ~(Fsdp /\ w = "ref")
    BY DEF Offloads
  <2>4. /\ model \in Places /\ model.optim = place[w].optim
        /\ Fsdp \/ w = "ref" \/ ~Offloads(w) => model.grads = place[w].grads
        /\ ~Offloads(w) => model = place[w]
        /\ Offloads(w) => model.params = "cpu" /\ (~Fsdp /\ w # "ref" => model.grads = "none")
    BY <1>b, <2>2, OffloadHelper
  <2>5. /\ new \in Places /\ new.params = model.params /\ new.grads = model.grads
        /\ new.optim = IF call \in Updating \cup Loading /\ config.optimizer_offload /\ model.optim # "none"
                       THEN "cpu" ELSE model.optim
    BY <2>2, <2>4, OptimizerHelpers
  <2> HIDE DEF model, new
  <2>6. place' \in [Models -> Places]
    BY <1>c, <2>1, <2>2, <2>5
  <2>7. ASSUME NEW m \in Models, m # w PROVE ParamsOf(m)' /\ OptimOf(m)'
    <3>1. place'[m] = place[m] /\ ~Busy(m)
      BY <1>c, <2>1, <2>7 DEF Busy
    <3> QED BY <1>0, <1>b, <2>1, <3>1 DEF ParamsOf, OptimOf, Busy, OnGpu
  <2>8. ASSUME NEW m \in Models, m = w PROVE ParamsOf(m)' /\ OptimOf(m)'
    <3>1. place'[m] = new /\ ~Busy(m)' /\ ParamsOf(m) /\ OptimOf(m)
      BY <1>b, <1>c, <2>1, <2>8 DEF Busy
    <3>2. ParamsOf(m)'
      BY <1>0, <2>1, <2>3, <2>4, <2>5, <2>8, <3>1 DEF ParamsOf, OnGpu
    <3>3. OptimOf(m)'
      BY <1>0, <2>1, <2>4, <2>5, <2>8, <3>1 DEF OptimOf
    <3> QED BY <3>2, <3>3
  <2> QED BY <2>6, <2>7, <2>8
<1>9. CASE Restart
  <2>1. (config \in Configs /\ place = Built(config) /\ activity = "idle")'
    BY <1>0, <1>9 DEF Restart, WorkerTypeOK
  <2>2. PlaceInv'
    BY <2>1, BuiltPlaces, PTL
  <2> QED BY <2>2 DEF PlaceInv
<1>10. CASE UNCHANGED workerVars
  BY <1>0, <1>b, <1>c, <1>10 DEF workerVars, ParamsOf, OptimOf, Busy, OnGpu
<1> QED BY <1>1, <1>2, <1>3, <1>4, <1>5, <1>6, <1>7, <1>8, <1>9, <1>10 DEF WorkerNext
----------------------------------------------------------------------------
(* The types that are left *)

RandomTypes ==
  /\ saved_rng \in RandomStates /\ saved_draws \in Nat
  /\ rng \in RandomStates /\ torch_random_states \in RandomStates /\ gen_random_states \in RandomStates
  /\ generations \in 0 .. MaxGenerations /\ draws \in Nat /\ restarts \in 0 .. MaxRestarts

OtherTypes ==
  /\ config \in Configs /\ activity \in {"idle", "syncing", "waking", "generating", "computing", "leaving"}
  /\ last \in AllCalls /\ call \in AllCalls
  /\ engine \in {"asleep", "weights", "awake"} /\ base_sync_done \in BOOLEAN
  /\ sp_group \in {"none", "actor", "critic"} /\ prev_sp_group \in {"none", "actor", "critic"}

LEMMA TypeParts ==
  WorkerTypeOK <=>
             /\ RandomTypes /\ OtherTypes /\ place \in [Models -> Places]
             /\ weights \in [base : Counts, adapter : Counts]
             /\ IF config.lora THEN weights.base = 0 ELSE weights.adapter = 0
             /\ saved \in [base : Counts \cup {NoWeights}, adapter : Counts]
             /\ loaded \in [base : Counts \cup {NoWeights}, adapter : Counts]
  BY DEF WorkerTypeOK, RandomTypes, OtherTypes, AllCalls

LEMMA RandomDrawn == ASSUME NEW r \in RandomStates PROVE Drawn(r) \in RandomStates
  BY DEF Drawn, RandomStates

LEMMA RandomSeeded == Seeded \in RandomStates /\ TrainSeeded \in RandomStates
  BY DEF Seeded, TrainSeeded, RandomStates

LEMMA StepRandomTypes == RandomTypes /\ PhaseInv /\ [WorkerNext]_workerVars => RandomTypes'
<1> SUFFICES ASSUME RandomTypes, PhaseInv, [WorkerNext]_workerVars PROVE RandomTypes'
  OBVIOUS
<1>0. /\ Drawn(rng) \in RandomStates /\ Seeded \in RandomStates /\ TrainSeeded \in RandomStates
      /\ MaxGenerations \in Nat /\ MaxRestarts \in Nat
  BY RandomDrawn, RandomSeeded, BoundsAssumption DEF RandomTypes
<1>1. ASSUME NEW c \in Generating, EnterGeneration(c) PROVE RandomTypes'
  BY <1>0, <1>1 DEF EnterGeneration, savedVars, RandomTypes, randomVars
<1>2. CASE SyncWeights
  BY <1>0, <1>2 DEF SyncWeights, savedVars, RandomTypes, randomVars
<1>3. CASE WakeUp
  BY <1>0, <1>3 DEF WakeUp, savedVars, RandomTypes
<1>4. CASE Generate
  BY <1>0, <1>4 DEF Generate, savedVars, RandomTypes, PhaseInv
<1>5. CASE LeaveGeneration
  BY <1>0, <1>5 DEF LeaveGeneration, savedVars, RandomTypes, KeptState
<1>6. ASSUME NEW c \in DOMAIN Handlers, Begin(c) PROVE RandomTypes'
  BY <1>0, <1>6 DEF Begin, savedVars, RandomTypes, randomVars
<1>7. CASE Compute
  BY <1>0, <1>7 DEF Compute, savedVars, RestoredRng, RandomTypes
<1>8. CASE End
  BY <1>0, <1>8 DEF End, savedVars, RandomTypes, randomVars
<1>9. CASE Restart
  BY <1>0, <1>9 DEF Restart, savedVars, RandomTypes
<1>10. CASE UNCHANGED workerVars
  BY <1>0, <1>10 DEF workerVars, RandomTypes
<1> QED BY <1>1, <1>2, <1>3, <1>4, <1>5, <1>6, <1>7, <1>8, <1>9, <1>10 DEF WorkerNext

LEMMA StepOtherTypes == OtherTypes /\ PhaseInv /\ GroupInv /\ [WorkerNext]_workerVars => OtherTypes'
<1> SUFFICES ASSUME OtherTypes, PhaseInv, GroupInv, [WorkerNext]_workerVars PROVE OtherTypes'
  OBVIOUS
<1>0. /\ config' = config /\ AllCalls' = AllCalls /\ Generating \subseteq AllCalls /\ DOMAIN Handlers \subseteq AllCalls
      /\ "init_model" \in AllCalls
  BY SameConfig, SameHandlers DEF AllCalls, Generating
<1>a. config.engine \in {"vllm", "vllm_0_6_3", "sglang"} /\ config.dummy \in BOOLEAN
  BY DEF OtherTypes, Configs
<1>b. \A m : GroupFor(m) \in {"actor", "critic"}
  BY DEF GroupFor
<1>c. Manager.woken \in {"weights", "awake"}
  BY <1>a DEF Manager, fsdp_vllm, fsdp_vllm_0_6_3, fsdp_sglang, megatron_vllm, megatron_vllm_0_6_3, megatron_sglang
<1>1. ASSUME NEW c \in Generating, EnterGeneration(c) PROVE OtherTypes'
  BY <1>0, <1>a, <1>b, <1>c, <1>1 DEF EnterGeneration, OtherTypes, engineVars, groupVars
<1>2. CASE SyncWeights
  BY <1>0, <1>a, <1>b, <1>c, <1>2 DEF SyncWeights, OtherTypes, groupVars
<1>3. CASE WakeUp
  BY <1>0, <1>a, <1>b, <1>c, <1>3 DEF WakeUp, OtherTypes, groupVars
<1>4. CASE Generate
  BY <1>0, <1>a, <1>b, <1>c, <1>4 DEF Generate, OtherTypes, engineVars, groupVars
<1>5. CASE LeaveGeneration
  BY <1>0, <1>a, <1>b, <1>c, <1>5 DEF LeaveGeneration, OtherTypes, groupVars, PhaseInv
<1>6. ASSUME NEW c \in DOMAIN Handlers, Begin(c) PROVE OtherTypes'
  BY <1>0, <1>a, <1>b, <1>c, <1>6 DEF Begin, OtherTypes, engineVars, EnterGroup, groupVars
<1>7. CASE Compute
  BY <1>0, <1>a, <1>b, <1>c, <1>7 DEF Compute, OtherTypes, engineVars, groupVars
<1>8. CASE End
  BY <1>0, <1>a, <1>b, <1>c, <1>8 DEF End, OtherTypes, engineVars, LeaveGroup, groupVars
<1>9. CASE Restart
  BY <1>0, <1>a, <1>b, <1>c, <1>9 DEF Restart, OtherTypes
<1>10. CASE UNCHANGED workerVars
  BY <1>0, <1>a, <1>b, <1>c, <1>10 DEF workerVars, OtherTypes
<1> QED BY <1>1, <1>2, <1>3, <1>4, <1>5, <1>6, <1>7, <1>8, <1>9, <1>10 DEF WorkerNext
----------------------------------------------------------------------------
LEMMA InitInv == WorkerInit => WorkerInv
<1> SUFFICES ASSUME WorkerInit PROVE WorkerInv
  OBVIOUS
<1>0. /\ config \in Configs /\ activity = "idle" /\ call = "init_model" /\ last = "init_model" /\ generations = 0 /\ draws = 0
      /\ config.dummy \in BOOLEAN /\ 0 \in Counts /\ restarts = 0
  BY BoundsAssumption DEF WorkerInit, Configs, Counts
<1>1. PlaceInv
  BY <1>0, BuiltPlaces DEF WorkerInit
<1>2. RandomTypes
  BY <1>0, RandomSeeded, BoundsAssumption DEF WorkerInit, RandomTypes
<1>3. OtherTypes
  BY <1>0 DEF WorkerInit, OtherTypes, AllCalls
<1>4. WeightsInv
  BY <1>0 DEF WorkerInit, WeightsInv, FirstWeights, BuiltEngine
<1>5. WorkerTypeOK
  BY <1>1, <1>2, <1>3, <1>4, TypeParts DEF PlaceInv, WeightsInv
<1>6. PhaseInv
  BY <1>0 DEF PhaseInv
<1>7. LoadedInv
  <2>1. (base_sync_done <=> ~config.dummy) /\ loaded.base = IF config.dummy THEN NoWeights ELSE 0
    BY DEF WorkerInit, BuiltEngine
  <2> QED BY <1>0, <2>1 DEF LoadedInv
<1>8. EngineInv
  BY DEF WorkerInit, EngineInv
<1>9. RandomInv
  BY <1>0 DEF WorkerInit, RandomInv, RandomOf, Seeded, TrainSeeded
<1>10. GroupInv
  BY <1>0 DEF WorkerInit, GroupInv
<1> QED BY <1>1, <1>4, <1>5, <1>6, <1>7, <1>8, <1>9, <1>10 DEF WorkerInv

LEMMA StepInv == WorkerInv /\ [WorkerNext]_workerVars => WorkerInv'
<1> SUFFICES ASSUME WorkerInv, [WorkerNext]_workerVars PROVE WorkerInv'
  OBVIOUS
<1>1. WorkerTypeOK /\ PhaseInv /\ WeightsInv /\ LoadedInv /\ PlaceInv /\ EngineInv /\ RandomInv /\ GroupInv
  BY DEF WorkerInv
<1>2. PhaseInv' /\ WeightsInv' /\ LoadedInv' /\ PlaceInv' /\ EngineInv' /\ RandomInv' /\ GroupInv'
  BY <1>1, StepPhase, StepWeights, StepLoaded, StepPlace, StepEngine, StepRandom, StepGroup
<1>3. RandomTypes' /\ OtherTypes'
  BY <1>1, StepRandomTypes, StepOtherTypes, TypeParts
<1>4. WorkerTypeOK'
  BY <1>2, <1>3, TypeParts, PTL DEF PlaceInv, WeightsInv
<1> QED BY <1>2, <1>4 DEF WorkerInv

LEMMA WorkerInvariance == WorkerSpec => []WorkerInv
  BY InitInv, StepInv, PTL DEF WorkerSpec

(* Every response is generated with the weights of the actor's last update, *)
(* or of the checkpoint that was resumed from.                              *)
THEOREM LatestWeights == WorkerSpec => []GeneratesWithLatest
<1>1. WorkerInv => GeneratesWithLatest
  BY DEF WorkerInv, LoadedInv, GeneratesWithLatest
<1> QED BY <1>1, WorkerInvariance, PTL

(* The engine and the models take turns: each finds the memory, its random  *)
(* numbers and its sequence-parallel group as it needs them.                *)
THEOREM TakeTurns == WorkerSpec => []TurnsKeptApart
<1>1. ASSUME WorkerInv PROVE TurnsKeptApart
  <2>1. WorkerTypeOK /\ PhaseInv /\ PlaceInv /\ EngineInv /\ RandomInv /\ GroupInv
    BY <1>1 DEF WorkerInv
  <2>2. GpuShared
    <3>1. ASSUME NEW m \in Models, activity = "generating"
          PROVE  /\ config.param_offload /\ OnGpu(m) => m = "actor" /\ Fsdp /\ config.engine = "vllm_0_6_3"
                 /\ config.optimizer_offload => place[m].optim # "gpu"
      BY <2>1, <3>1 DEF PlaceInv, ParamsOf, OptimOf, Busy
    <3>2. activity = "computing" => engine = "asleep"
      BY <2>1 DEF EngineInv
    <3> QED BY <3>1, <3>2 DEF GpuShared
  <2>3. ComputesOnGpu
    <3> SUFFICES ASSUME activity = "computing"
                 PROVE  LET m == Handlers[call].model
                        IN  /\ place[m].params = "gpu" \/ (m = "ref" /\ Fsdp)
                            /\ call \in Updating => place[m].optim # "cpu" /\ (~Fsdp => place[m].grads = "gpu")
      BY DEF ComputesOnGpu
    <3> DEFINE m == Handlers[call].model
    <3>1. m \in Models /\ Busy(m) /\ (m = "ref" => call \notin Updating)
      BY <2>1, HandlerFacts DEF PhaseInv, Busy
    <3>2. ParamsOf(m) /\ OptimOf(m)
      BY <2>1, <3>1 DEF PlaceInv
    <3> HIDE DEF m
    <3> QED BY <3>1, <3>2 DEF ParamsOf, OptimOf, m
  <2>4. RandomApart
    BY <2>1 DEF RandomInv, RandomOf, RandomApart
  <2>5. RightGroup
    BY <2>1 DEF GroupInv, RightGroup
  <2> QED BY <2>1, <2>2, <2>3, <2>4, <2>5 DEF TurnsKeptApart
<1> QED BY <1>1, WorkerInvariance, PTL
=============================================================================
