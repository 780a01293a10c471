---------------------------- MODULE Trainer_proofs ----------------------------
(* What holds of training with checkpoints for every number of ranks,       *)
(* steps, epochs and restarts, and every setting of the rotation.           *)
EXTENDS Validation, FiniteSetTheorems, WellFoundedInduction, TLAPS

LEMMA RolesFacts ==
  /\ Len(RoleOrder) \in {1, 2} /\ DOMAIN RoleOrder = 1 .. Len(RoleOrder)
  /\ \A i \in DOMAIN RoleOrder : RoleOrder[i] \in Roles
  /\ \A i, j \in DOMAIN RoleOrder : RoleOrder[i] = RoleOrder[j] => i = j
  /\ \A role \in Roles : \E i \in DOMAIN RoleOrder : RoleOrder[i] = role
<1>1. CASE UseCritic
  BY <1>1 DEF RoleOrder, Roles
<1>2. CASE ~UseCritic
  BY <1>2 DEF RoleOrder, Roles
<1> QED BY <1>1, <1>2

LEMMA KeepNat == \A role : Keep(role) \in Nat
BY ConfigAssumption DEF Keep

LEMMA KeepStartBound ==
  ASSUME TypeOK, NEW role \in Roles
  PROVE  KeepStart(role) \in 0 .. Len(previous_saved_paths[role])
<1>1. Len(previous_saved_paths[role]) \in Nat /\ Keep(role) \in Nat
  BY KeepNat DEF TypeOK
<1>2. CASE Keep(role) > 0 /\ Len(previous_saved_paths[role]) >= Keep(role)
  BY <1>1, <1>2 DEF KeepStart
<1>3. CASE ~(Keep(role) > 0 /\ Len(previous_saved_paths[role]) >= Keep(role))
  BY <1>1, <1>3 DEF KeepStart
<1> QED BY <1>2, <1>3

LEMMA TailSeq ==
  ASSUME NEW S, NEW s \in Seq(S), NEW n \in 0 .. Len(s)
  PROVE  /\ SubSeq(s, n + 1, Len(s)) \in Seq(S)
         /\ Len(SubSeq(s, n + 1, Len(s))) = Len(s) - n
         /\ \A i \in 1 .. Len(s) - n : SubSeq(s, n + 1, Len(s))[i] = s[n + i]
OBVIOUS

(* Every variable keeps its type. *)
THEOREM TypeCorrect == Spec => []TypeOK
<1>1. Init => TypeOK
  BY RolesFacts, ConfigAssumption DEF Init, TypeOK, NoTracker
<1>2. TypeOK /\ [Next]_vars => TypeOK'
  <2> SUFFICES ASSUME TypeOK, [Next]_vars PROVE TypeOK'
    OBVIOUS
  <2> USE RolesFacts, ConfigAssumption
  <2>1. ASSUME NEW mode \in ResumeModes, StartFromScratch(mode) PROVE TypeOK'
    BY <2>1 DEF StartFromScratch, FreshProcess, disk, TypeOK
  <2>2. ASSUME NEW mode \in ResumeModes, StartFromCheckpoint(mode) PROVE TypeOK'
    <3>1. pos' \in 0 .. BatchesPerEpoch
      BY <2>2 DEF StartFromCheckpoint, LoadedPositions, DataSaved, TypeOK
    <3>2. weights' \in [Roles -> Nat]
      BY <2>2 DEF StartFromCheckpoint, TypeOK, Files
    <3>3. global_steps' \in Nat
      BY <2>2 DEF StartFromCheckpoint, NextStepAfter, TypeOK
    <3> QED BY <2>2, <3>1, <3>2, <3>3 DEF StartFromCheckpoint, FreshProcess, disk, TypeOK
  <2>3. ASSUME NEW mode \in ResumeModes, StartFails(mode) PROVE TypeOK'
    BY <2>3 DEF StartFails, FreshProcess, disk, TypeOK
  <2>4. CASE TrainStep
    BY <2>4 DEF TrainStep, disk, TypeOK
  <2>5. CASE EndStep
    BY <2>5 DEF EndStep, saving, disk, TypeOK
  <2>6. CASE NextEpoch
    BY <2>6 DEF NextEpoch, saving, disk, TypeOK
  <2>7. CASE Rotate
    <3>1. Role \in Roles
      BY DEF Role, TypeOK
    <3>2. SubSeq(previous_saved_paths[Role], KeepStart(Role) + 1, Len(previous_saved_paths[Role])) \in Seq(Nat)
      BY <3>1, KeepStartBound, TailSeq DEF TypeOK
    <3>3. previous_saved_paths' \in [Roles -> Seq(Nat)]
      BY <2>7, <3>1, <3>2 DEF Rotate, TypeOK
    <3> QED BY <2>7, <3>3 DEF Rotate, TypeOK
  <2>8. ASSUME NEW k \in Ranks, WriteShard(k) PROVE TypeOK'
    <3>1. Shard(k) \in Files
      BY DEF Shard, Files, Role, TypeOK
    <3> QED BY <2>8, <3>1 DEF WriteShard, memory, TypeOK
  <2>9. CASE Saved
    <3>1. Role \in Roles
      BY DEF Role, TypeOK
    <3>2. previous_saved_paths' \in [Roles -> Seq(Nat)]
      BY <2>9, <3>1 DEF Saved, TypeOK
    <3>3. ri' \in DOMAIN RoleOrder
      BY <2>9 DEF Saved, LastRole, TypeOK
    <3> QED BY <2>9, <3>2, <3>3 DEF Saved, disk, TypeOK
  <2>10. CASE SaveData
    BY <2>10 DEF SaveData, memory, saving, TypeOK
  <2>11. CASE OpenTracker
    BY <2>11 DEF OpenTracker, memory, saving, TypeOK
  <2>12. CASE WriteTracker
    BY <2>12 DEF WriteTracker, memory, saving, TypeOK
  <2>13. CASE Crash
    BY <2>13 DEF Crash, memory, saving, disk, TypeOK
  <2>14. CASE UNCHANGED vars
    BY <2>14 DEF vars, memory, saving, disk, TypeOK
  <2> QED BY <2>1, <2>2, <2>3, <2>4, <2>5, <2>6, <2>7, <2>8, <2>9, <2>10, <2>11, <2>12, <2>13, <2>14
          DEF Next
<1> QED BY <1>1, <1>2, PTL DEF Spec

----------------------------------------------------------------------------
(* The refinement: what the tracker is in each phase. *)

TrackerInv ==
  /\ phase \notin {"down", "failed"} => global_steps > 0
  /\ phase \in {"step", "rotate", "shards", "data", "open"} => tracker # Torn /\ tracker < global_steps
  /\ phase = "next" => tracker # Torn /\ tracker <= global_steps

LEMMA TrackerInductive ==
  ASSUME ResumeModes \subseteq {"auto"}
  PROVE  TypeOK /\ TrackerInv /\ [Next]_vars => TrackerInv'
<1> SUFFICES ASSUME TypeOK, TrackerInv, [Next]_vars PROVE TrackerInv'
  OBVIOUS
<1> USE DEF TrackerInv, TypeOK, Torn, NoTracker
<1>1. ASSUME NEW mode \in ResumeModes, StartFromScratch(mode) PROVE TrackerInv'
  BY <1>1 DEF StartFromScratch, FreshProcess, disk
<1>2. ASSUME NEW mode \in ResumeModes, StartFromCheckpoint(mode) PROVE TrackerInv'
  BY <1>2 DEF StartFromCheckpoint, NextStepAfter, FreshProcess, disk
<1>3. ASSUME NEW mode \in ResumeModes, StartFails(mode) PROVE TrackerInv'
  BY <1>3 DEF StartFails, FreshProcess, disk
<1>4. CASE TrainStep
  BY <1>4 DEF TrainStep, disk
<1>5. CASE EndStep
  BY <1>5 DEF EndStep, disk
<1>6. CASE NextEpoch
  BY <1>6 DEF NextEpoch, disk
<1>7. CASE Rotate
  BY <1>7 DEF Rotate
<1>8. ASSUME NEW k \in Ranks, WriteShard(k) PROVE TrackerInv'
  BY <1>8 DEF WriteShard, memory
<1>9. CASE Saved
  BY <1>9 DEF Saved, disk
<1>10. CASE SaveData
  BY <1>10 DEF SaveData, memory
<1>11. CASE OpenTracker
  BY <1>11 DEF OpenTracker, memory
<1>12. CASE WriteTracker
  BY <1>12 DEF WriteTracker, memory
<1>13. CASE Crash
  BY <1>13 DEF Crash, memory, disk
<1>14. CASE UNCHANGED vars
  BY <1>14 DEF vars, memory, disk
<1> QED BY <1>1, <1>2, <1>3, <1>4, <1>5, <1>6, <1>7, <1>8, <1>9, <1>10, <1>11, <1>12, <1>13, <1>14
        DEF Next

(* Resuming automatically, training with crashes at any point is durable    *)
(* progress: a checkpoint commits exactly the steps done, a restart goes on *)
(* from the steps committed, and no step is done on an unreadable tracker.  *)
THEOREM DurableTraining ==
  ASSUME ResumeModes \subseteq {"auto"}
  PROVE  Spec => Durable
<1>1. Init => TrackerInv
  BY DEF Init, TrackerInv
<1>2. Init => D!DurableInit
  BY DEF Init, D!DurableInit, Completed, NoTracker
<1>3. TypeOK /\ TrackerInv /\ [Next]_vars => [D!DurableNext]_(D!dvars)
  <2> SUFFICES ASSUME TypeOK, TrackerInv, [Next]_vars PROVE D!DurableNext \/ UNCHANGED <<tracker, Completed>>
    BY DEF D!dvars
  <2> USE DEF TrackerInv, TypeOK, Torn, NoTracker, Completed, D!DurableNext
  <2>1. ASSUME NEW mode \in ResumeModes, StartFromScratch(mode) PROVE D!FallBack
    BY <2>1 DEF StartFromScratch, FreshProcess, disk, D!FallBack
  <2>2. ASSUME NEW mode \in ResumeModes, StartFromCheckpoint(mode) PROVE D!FallBack
    BY <2>2 DEF StartFromCheckpoint, NextStepAfter, FreshProcess, disk, D!FallBack
  <2>3. ASSUME NEW mode \in ResumeModes, StartFails(mode) PROVE D!FallBack
    BY <2>3 DEF StartFails, FreshProcess, disk, D!FallBack
  <2>4. CASE TrainStep
    BY <2>4 DEF TrainStep, disk, D!Advance
  <2>5. CASE EndStep
    BY <2>5 DEF EndStep, disk
  <2>6. CASE NextEpoch
    BY <2>6 DEF NextEpoch, disk
  <2>7. CASE Rotate
    BY <2>7 DEF Rotate
  <2>8. ASSUME NEW k \in Ranks, WriteShard(k) PROVE UNCHANGED <<tracker, Completed>>
    BY <2>8 DEF WriteShard, memory
  <2>9. CASE Saved
    BY <2>9 DEF Saved, disk
  <2>10. CASE SaveData
    BY <2>10 DEF SaveData, memory
  <2>11. CASE OpenTracker
    BY <2>11 DEF OpenTracker, memory, D!Publish
  <2>12. CASE WriteTracker
    BY <2>12 DEF WriteTracker, memory, D!Commit
  <2>13. CASE Crash
    BY <2>13 DEF Crash, memory, disk, D!FallBack
  <2>14. CASE UNCHANGED vars
    BY <2>14 DEF vars, memory, disk
  <2> QED BY <2>1, <2>2, <2>3, <2>4, <2>5, <2>6, <2>7, <2>8, <2>9, <2>10, <2>11, <2>12, <2>13, <2>14
          DEF Next
<1> QED BY <1>1, <1>2, <1>3, TypeCorrect, TrackerInductive, PTL DEF Spec, Durable, D!DurableSpec

----------------------------------------------------------------------------
(* The named checkpoint survives: its files are not written again, and      *)
(* rotation with room for two stops short of it, since the paths remembered *)
(* end with it.                                                             *)

SavedBy(role, s, K) ==
  \A k \in K : ShardsOf(role, s, k) # {} /\ \A f \in ShardsOf(role, s, k) : f.run = run

(* The paths increase and end at s. *)
Climbs(p, s) ==
  /\ \A i, j \in 1 .. Len(p) : i < j => p[i] < p[j]
  /\ Len(p) > 0 => p[Len(p)] = s

EndsAt(role, s) == Climbs(previous_saved_paths[role], s)

PathsInv ==
  /\ phase \in {"step", "next"} => \A role \in Roles : EndsAt(role, tracker)
  /\ phase \in {"rotate", "shards"} =>
       \A i \in DOMAIN RoleOrder :
         /\ i < ri => EndsAt(RoleOrder[i], global_steps)
         /\ i >= ri => EndsAt(RoleOrder[i], tracker)
  /\ phase \in {"data", "open", "write"} => \A role \in Roles : EndsAt(role, global_steps)

ShardsInv ==
  /\ phase # "down" => run > 0
  /\ phase \in {"rotate", "shards"} =>
       \A i \in DOMAIN RoleOrder : i < ri => SavedBy(RoleOrder[i], global_steps, Ranks)
  /\ phase = "shards" => SavedBy(Role, global_steps, written)
  /\ phase \in {"data", "open", "write"} => \A role \in Roles : SavedBy(role, global_steps, Ranks)
  /\ phase \in {"open", "write"} =>
       DataSaved(global_steps) # {} /\ \A d \in DataSaved(global_steps) : d.run = run

IInv == TypeOK /\ TrackerInv /\ PathsInv /\ ShardsInv /\ Recoverable

LEMMA RecoverableKept ==
  ASSUME TypeOK, Recoverable, tracker' = tracker, run' \in Nat, run' >= run,
         \A role \in Roles, k \in Ranks :
           {f \in files' : f.role = role /\ f.step = tracker /\ f.rank = k} = ShardsOf(role, tracker, k),
         {d \in data' : d.step = tracker} = DataSaved(tracker)
  PROVE  Recoverable'
<1> SUFFICES ASSUME tracker \notin {NoTracker, Torn} PROVE Complete(tracker)'
  BY DEF Recoverable, NoTracker, Torn
<1>1. PICK r \in 1 .. run :
        /\ \A role \in Roles : \A k \in Ranks :
             ShardsOf(role, tracker, k) # {} /\ \A f \in ShardsOf(role, tracker, k) : f.run = r
        /\ DataSaved(tracker) # {} /\ \A d \in DataSaved(tracker) : d.run = r
  BY DEF Recoverable, Complete
<1>2. r \in 1 .. run'
  BY DEF TypeOK
<1>3. \A role \in Roles : \A k \in Ranks : ShardsOf(role, tracker, k)' = ShardsOf(role, tracker, k)
  BY DEF ShardsOf
<1>4. DataSaved(tracker)' = DataSaved(tracker)
  BY DEF DataSaved
<1> QED BY <1>1, <1>2, <1>3, <1>4 DEF Complete

(* With room for two or more, the last path is never rotated out. *)
LEMMA LastPathStays ==
  ASSUME TypeOK, NEW role \in Roles, Keep(role) # 1, NEW s, EndsAt(role, s)
  PROVE  s \notin Removed(role)
<1> DEFINE p == previous_saved_paths[role]
<1>1. p \in Seq(Nat) /\ Len(p) \in Nat /\ Keep(role) \in Nat
  BY KeepNat DEF TypeOK
<1>2. KeepStart(role) = 0 \/ KeepStart(role) < Len(p)
  BY <1>1 DEF KeepStart
<1>3. ASSUME NEW i \in 1 .. KeepStart(role) PROVE p[i] # s
  <2>1. KeepStart(role) \in 0 .. Len(p)
    BY KeepStartBound
  <2>2. i \in 1 .. Len(p) /\ i < Len(p)
    BY <1>1, <1>2, <2>1
  <2>3. p[i] \in Nat /\ p[Len(p)] \in Nat
    BY <1>1, <2>2
  <2>4. p[i] < p[Len(p)] /\ p[Len(p)] = s
    BY <1>1, <2>2 DEF EndsAt, Climbs
  <2> QED BY <2>3, <2>4
<1> QED BY <1>3 DEF Removed

(* What rotation leaves of the paths still ends where they ended. *)
LEMMA TailClimbs ==
  ASSUME NEW p \in Seq(Nat), NEW n \in 0 .. Len(p), NEW s, Climbs(p, s)
  PROVE  Climbs(SubSeq(p, n + 1, Len(p)), s)
<1> DEFINE q == SubSeq(p, n + 1, Len(p))
<1>1. Len(q) = Len(p) - n /\ \A i \in 1 .. Len(q) : q[i] = p[n + i]
  BY TailSeq
<1> HIDE DEF q
<1>2. ASSUME NEW i \in 1 .. Len(q), NEW j \in 1 .. Len(q), i < j PROVE q[i] < q[j]
  <2>1. n + i \in 1 .. Len(p) /\ n + j \in 1 .. Len(p) /\ n + i < n + j
    BY <1>1, <1>2
  <2> QED BY <1>1, <2>1 DEF Climbs
<1>3. ASSUME Len(q) > 0 PROVE q[Len(q)] = s
  <2>1. n + Len(q) = Len(p) /\ Len(p) > 0 /\ Len(q) \in 1 .. Len(q)
    BY <1>1, <1>3
  <2> QED BY <1>1, <2>1 DEF Climbs
<1>4. Climbs(q, s)
  BY <1>2, <1>3 DEF Climbs
<1> QED BY <1>4 DEF q

(* Appending a larger step keeps the paths increasing. *)
LEMMA AppendClimbs ==
  ASSUME NEW p \in Seq(Nat), NEW s \in Int, NEW t \in Nat, s < t, Climbs(p, s)
  PROVE  Climbs(Append(p, t), t)
<1> DEFINE q == Append(p, t)
<1>1. Len(q) = Len(p) + 1 /\ q[Len(q)] = t /\ \A i \in 1 .. Len(p) : q[i] = p[i]
  OBVIOUS
<1>2. \A i \in 1 .. Len(p) : p[i] <= s
  BY DEF Climbs
<1> HIDE DEF q
<1>3. ASSUME NEW i \in 1 .. Len(q), NEW j \in 1 .. Len(q), i < j PROVE q[i] < q[j]
  <2>1. i \in 1 .. Len(p) /\ q[i] \in Nat
    BY <1>1, <1>3
  <2>2. CASE j \in 1 .. Len(p)
    BY <1>1, <1>3, <2>1, <2>2 DEF Climbs
  <2>3. CASE j = Len(q)
    BY <1>1, <1>2, <2>1, <2>3
  <2> QED BY <1>1, <2>2, <2>3
<1>4. Climbs(q, t)
  BY <1>1, <1>3 DEF Climbs
<1> QED BY <1>4 DEF q

LEMMA PathsInductive ==
  ASSUME ResumeModes \subseteq {"auto"}
  PROVE  IInv /\ [Next]_vars => PathsInv'
<1> SUFFICES ASSUME IInv, [Next]_vars PROVE PathsInv'
  OBVIOUS
<1> USE RolesFacts DEF IInv
<1>0. ASSUME NEW mode \in ResumeModes, FreshProcess PROVE \A role \in Roles, s \in {tracker'} : EndsAt(role, s)'
  BY <1>0 DEF FreshProcess, EndsAt, Climbs
<1>1. ASSUME NEW mode \in ResumeModes, StartFromScratch(mode) PROVE PathsInv'
  BY <1>1, <1>0 DEF StartFromScratch, FreshProcess, PathsInv, EndsAt, Climbs
<1>2. ASSUME NEW mode \in ResumeModes, StartFromCheckpoint(mode) PROVE PathsInv'
  BY <1>2, <1>0 DEF StartFromCheckpoint, FreshProcess, PathsInv, EndsAt, Climbs
<1>3. ASSUME NEW mode \in ResumeModes, StartFails(mode) PROVE PathsInv'
  BY <1>3 DEF StartFails, PathsInv
<1>4. CASE TrainStep
  BY <1>4 DEF TrainStep, disk, PathsInv, EndsAt, TypeOK
<1>5. CASE EndStep
  BY <1>5 DEF EndStep, disk, PathsInv, EndsAt
<1>6. CASE NextEpoch
  BY <1>6 DEF NextEpoch, disk, PathsInv, EndsAt
<1>7. CASE Rotate
  <2> DEFINE p == previous_saved_paths[Role]
  <2>1. Role \in Roles /\ p \in Seq(Nat) /\ KeepStart(Role) \in 0 .. Len(p)
    BY KeepStartBound DEF Role, TypeOK
  <2>2. EndsAt(Role, tracker)
    BY <1>7 DEF Rotate, PathsInv, Role, TypeOK
  <2>3. previous_saved_paths'[Role] = SubSeq(p, KeepStart(Role) + 1, Len(p))
    BY <1>7, <2>1 DEF Rotate, TypeOK
  <2>4. EndsAt(Role, tracker)'
    <3>1. tracker' = tracker /\ Role' = Role
      BY <1>7 DEF Rotate, Role
    <3>2. Climbs(SubSeq(p, KeepStart(Role) + 1, Len(p)), tracker)
      <4>1. Climbs(p, tracker)
        BY <2>2 DEF EndsAt
      <4> HIDE DEF p
      <4> QED BY <4>1, <2>1, TailClimbs
    <3> QED BY <2>3, <3>1, <3>2 DEF EndsAt
  <2>5. ASSUME NEW i \in DOMAIN RoleOrder, i # ri
        PROVE previous_saved_paths'[RoleOrder[i]] = previous_saved_paths[RoleOrder[i]]
    BY <1>7, <2>5 DEF Rotate, Role, TypeOK
  <2>6. ri' = ri /\ global_steps' = global_steps /\ tracker' = tracker /\ phase = "rotate" /\ phase' = "shards"
    BY <1>7 DEF Rotate
  <2>7. ASSUME NEW i \in DOMAIN RoleOrder
        PROVE /\ i < ri => EndsAt(RoleOrder[i], global_steps)'
              /\ i >= ri => EndsAt(RoleOrder[i], tracker)'
    <3>1. ri \in Int /\ i \in Int
      BY DEF TypeOK
    <3>2. CASE i = ri
      BY <3>1, <3>2, <2>4, <2>6 DEF Role
    <3>3. CASE i # ri
      <4>1. /\ i < ri => EndsAt(RoleOrder[i], global_steps)
            /\ i >= ri => EndsAt(RoleOrder[i], tracker)
        BY <2>6 DEF PathsInv
      <4> QED BY <4>1, <3>3, <2>5, <2>6 DEF EndsAt
    <3> QED BY <3>2, <3>3
  <2> QED BY <2>6, <2>7 DEF PathsInv
<1>8. ASSUME NEW k \in Ranks, WriteShard(k) PROVE PathsInv'
  BY <1>8 DEF WriteShard, memory, PathsInv, EndsAt
<1>9. CASE Saved
  <2> DEFINE p == previous_saved_paths[Role]
  <2>1. Role \in Roles /\ p \in Seq(Nat) /\ global_steps \in Nat /\ tracker \in Int /\ tracker < global_steps
    BY <1>9 DEF Saved, Role, TypeOK, TrackerInv, Torn
  <2>2. EndsAt(Role, tracker)
    BY <1>9 DEF Saved, PathsInv, Role, TypeOK
  <2>3. previous_saved_paths'[Role] = Append(p, global_steps)
    BY <1>9, <2>1 DEF Saved, TypeOK
  <2>4. global_steps' = global_steps /\ tracker' = tracker /\ phase = "shards"
    BY <1>9 DEF Saved, disk
  <2>5. Climbs(previous_saved_paths'[Role], global_steps)
    <3>1. Climbs(p, tracker)
      BY <2>2 DEF EndsAt
    <3> HIDE DEF p
    <3> QED BY <3>1, <2>1, <2>3, AppendClimbs
  <2>6. ASSUME NEW i \in DOMAIN RoleOrder, i # ri
        PROVE previous_saved_paths'[RoleOrder[i]] = previous_saved_paths[RoleOrder[i]]
    BY <1>9, <2>6 DEF Saved, Role, TypeOK
  <2>7. ASSUME NEW i \in DOMAIN RoleOrder, i <= ri PROVE EndsAt(RoleOrder[i], global_steps)'
    <3>1. CASE i = ri
      BY <3>1, <2>4, <2>5 DEF EndsAt, Role
    <3>2. CASE i # ri
      <4>1. EndsAt(RoleOrder[i], global_steps)
        BY <2>4, <2>7, <3>2 DEF PathsInv, TypeOK
      <4> QED BY <4>1, <3>2, <2>6, <2>4 DEF EndsAt
    <3> QED BY <3>1, <3>2
  <2>8. ASSUME NEW i \in DOMAIN RoleOrder, i > ri PROVE EndsAt(RoleOrder[i], tracker)'
    <3>1. EndsAt(RoleOrder[i], tracker) /\ i # ri
      BY <2>4, <2>8 DEF PathsInv, TypeOK
    <3> QED BY <3>1, <2>6, <2>4 DEF EndsAt
  <2>9. CASE ~LastRole
    <3>1. ri' = ri + 1 /\ phase' = "rotate"
      BY <1>9, <2>9 DEF Saved
    <3>2. ASSUME NEW i \in DOMAIN RoleOrder
          PROVE  /\ i < ri' => EndsAt(RoleOrder[i], global_steps)'
                 /\ i >= ri' => EndsAt(RoleOrder[i], tracker)'
      <4>1. ri \in Int /\ i \in Int
        BY DEF TypeOK
      <4>2. i < ri' => i <= ri
        BY <3>1, <4>1
      <4>3. i >= ri' => i > ri
        BY <3>1, <4>1
      <4> QED BY <4>2, <4>3, <2>7, <2>8
    <3> QED BY <3>1, <3>2 DEF PathsInv
  <2>10. CASE LastRole
    <3>1. phase' = "data"
      BY <1>9, <2>10 DEF Saved
    <3>2. \A i \in DOMAIN RoleOrder : i <= ri
      BY <2>10 DEF LastRole, TypeOK
    <3>3. \A i \in DOMAIN RoleOrder : EndsAt(RoleOrder[i], global_steps)'
      BY <3>2, <2>7
    <3>4. \A role \in Roles : EndsAt(role, global_steps)'
      BY <3>3
    <3> QED BY <3>1, <3>4 DEF PathsInv
  <2> QED BY <2>9, <2>10
<1>10. CASE SaveData
  BY <1>10 DEF SaveData, memory, PathsInv, EndsAt
<1>11. CASE OpenTracker
  BY <1>11 DEF OpenTracker, memory, PathsInv, EndsAt
<1>12. CASE WriteTracker
  BY <1>12 DEF WriteTracker, memory, PathsInv, EndsAt
<1>13. CASE Crash
  BY <1>13 DEF Crash, PathsInv
<1>14. CASE UNCHANGED vars
  BY <1>14 DEF vars, memory, saving, disk, PathsInv, EndsAt
<1> QED BY <1>1, <1>2, <1>3, <1>4, <1>5, <1>6, <1>7, <1>8, <1>9, <1>10, <1>11, <1>12, <1>13, <1>14
        DEF Next

LEMMA ShardsInductive ==
  ASSUME ResumeModes \subseteq {"auto"}
  PROVE  IInv /\ [Next]_vars => ShardsInv'
<1> SUFFICES ASSUME IInv, [Next]_vars PROVE ShardsInv'
  OBVIOUS
<1> USE RolesFacts DEF IInv
<1>0. run \in Nat
  BY ConfigAssumption DEF TypeOK
<1>1. ASSUME NEW mode \in ResumeModes, StartFromScratch(mode) PROVE ShardsInv'
  BY <1>0, <1>1 DEF StartFromScratch, FreshProcess, ShardsInv
<1>2. ASSUME NEW mode \in ResumeModes, StartFromCheckpoint(mode) PROVE ShardsInv'
  BY <1>0, <1>2 DEF StartFromCheckpoint, FreshProcess, ShardsInv
<1>3. ASSUME NEW mode \in ResumeModes, StartFails(mode) PROVE ShardsInv'
  BY <1>0, <1>3 DEF StartFails, FreshProcess, ShardsInv
<1>4. CASE TrainStep
  BY <1>4 DEF TrainStep, ShardsInv, TypeOK
<1>5. CASE EndStep
  BY <1>5 DEF EndStep, ShardsInv
<1>6. CASE NextEpoch
  BY <1>6 DEF NextEpoch, ShardsInv
<1>7. CASE Rotate
  <2>1. ASSUME NEW i \in DOMAIN RoleOrder, i < ri PROVE SavedBy(RoleOrder[i], global_steps, Ranks)'
    <3>1. SavedBy(RoleOrder[i], global_steps, Ranks)
      BY <1>7, <2>1 DEF Rotate, ShardsInv
    <3>2. RoleOrder[i] # Role
      BY <2>1 DEF Role, TypeOK
    <3>3. \A k : ShardsOf(RoleOrder[i], global_steps, k)' = ShardsOf(RoleOrder[i], global_steps, k)
      BY <1>7, <3>2 DEF Rotate, ShardsOf
    <3> QED BY <1>7, <3>1, <3>3 DEF Rotate, SavedBy
  <2> QED BY <1>7, <2>1 DEF Rotate, ShardsInv, SavedBy
<1>8. ASSUME NEW k \in Ranks, WriteShard(k) PROVE ShardsInv'
  <2>1. files' = (files \ ShardsOf(Role, global_steps, k)) \cup {Shard(k)}
    BY <1>8 DEF WriteShard
  <2>2. /\ global_steps' = global_steps /\ ri' = ri /\ run' = run /\ phase' = phase /\ phase = "shards"
        /\ written' = written \cup {k}
    BY <1>8 DEF WriteShard, memory
  <2>3. ASSUME NEW i \in DOMAIN RoleOrder, i < ri PROVE SavedBy(RoleOrder[i], global_steps, Ranks)'
    <3>1. SavedBy(RoleOrder[i], global_steps, Ranks)
      BY <2>2, <2>3 DEF ShardsInv
    <3>2. RoleOrder[i] # Role
      BY <2>3 DEF Role, TypeOK
    <3>3. \A j : ShardsOf(RoleOrder[i], global_steps, j)' = ShardsOf(RoleOrder[i], global_steps, j)
      BY <2>1, <2>2, <3>2 DEF ShardsOf, Shard
    <3> QED BY <2>2, <3>1, <3>3 DEF SavedBy
  <2>4. SavedBy(Role, global_steps, written)'
    <3>1. SavedBy(Role, global_steps, written)
      BY <2>2 DEF ShardsInv
    <3>2. \A j : j # k => ShardsOf(Role, global_steps, j)' = ShardsOf(Role, global_steps, j)
      BY <2>1, <2>2 DEF ShardsOf, Shard, Role
    <3>3. ShardsOf(Role, global_steps, k)' = {Shard(k)}
      BY <2>1, <2>2 DEF ShardsOf, Shard, Role
    <3>4. Shard(k).run = run
      BY DEF Shard
    <3> QED BY <2>2, <3>1, <3>2, <3>3, <3>4 DEF SavedBy, Role
  <2> QED BY <2>2, <2>3, <2>4 DEF ShardsInv
<1>9. CASE Saved
  <2>1. /\ phase = "shards" /\ AllWritten
        /\ global_steps' = global_steps /\ run' = run /\ files' = files /\ data' = data
    BY <1>9 DEF Saved, disk
  <2>2. \A i \in DOMAIN RoleOrder : i <= ri => SavedBy(RoleOrder[i], global_steps, Ranks)
    BY <2>1 DEF ShardsInv, AllWritten, Role, TypeOK
  <2>3. CASE ~LastRole
    <3>1. phase' = "rotate" /\ ri' = ri + 1 /\ ri \in Int
      BY <1>9, <2>3 DEF Saved, TypeOK
    <3>2. ASSUME NEW i \in DOMAIN RoleOrder, i < ri' PROVE SavedBy(RoleOrder[i], global_steps, Ranks)'
      <4>1. SavedBy(RoleOrder[i], global_steps, Ranks)
        BY <2>2, <3>1, <3>2
      <4> QED BY <2>1, <4>1 DEF SavedBy, ShardsOf
    <3>3. run > 0
      BY <2>1 DEF ShardsInv
    <3> QED BY <2>1, <3>1, <3>2, <3>3 DEF ShardsInv
  <2>4. CASE LastRole
    <3>1. \A role \in Roles : SavedBy(role, global_steps, Ranks)
      BY <2>2, <2>4 DEF LastRole, TypeOK
    <3> QED BY <1>9, <2>1, <2>4, <3>1 DEF Saved, ShardsInv, SavedBy, ShardsOf
  <2> QED BY <2>3, <2>4
<1>10. CASE SaveData
  <2>1. \A role \in Roles : SavedBy(role, global_steps, Ranks)'
    BY <1>10 DEF SaveData, memory, ShardsInv, SavedBy, ShardsOf
  <2>2. DataSaved(global_steps)' = {[step |-> global_steps, run |-> run, pos |-> pos]}
    BY <1>10 DEF SaveData, memory, DataSaved
  <2> QED BY <1>10, <2>1, <2>2 DEF SaveData, ShardsInv
<1>11. CASE OpenTracker
  BY <1>11 DEF OpenTracker, memory, ShardsInv, SavedBy, ShardsOf, DataSaved
<1>12. CASE WriteTracker
  BY <1>12 DEF WriteTracker, ShardsInv
<1>13. CASE Crash
  BY <1>13 DEF Crash, ShardsInv
<1>14. CASE UNCHANGED vars
  BY <1>14 DEF vars, memory, saving, disk, ShardsInv, SavedBy, ShardsOf, DataSaved, Role
<1> QED BY <1>1, <1>2, <1>3, <1>4, <1>5, <1>6, <1>7, <1>8, <1>9, <1>10, <1>11, <1>12, <1>13, <1>14
        DEF Next

(* If rotation leaves room for two checkpoints and every start resumes      *)
(* automatically, a process that dies at any point leaves a tracker that is *)
(* empty or names a checkpoint that is whole.                               *)
THEOREM CheckpointRecoverable ==
  ASSUME ResumeModes \subseteq {"auto"}, KeepActor # 1, KeepCritic # 1
  PROVE  Spec => []Recoverable
<1>1. Init => IInv
  <2> SUFFICES ASSUME Init PROVE IInv
    OBVIOUS
  <2>1. TypeOK
    BY RolesFacts, ConfigAssumption DEF Init, TypeOK, NoTracker
  <2> QED BY <2>1 DEF Init, IInv, TrackerInv, PathsInv, ShardsInv, Recoverable
<1>2. IInv /\ [Next]_vars => Recoverable'
  <2> SUFFICES ASSUME IInv, [Next]_vars PROVE Recoverable'
    OBVIOUS
  <2> USE DEF IInv
  <2>0. run \in Nat
    BY ConfigAssumption DEF TypeOK
  <2>1. ASSUME UNCHANGED <<files, data, tracker>>, run' \in {run, run + 1} PROVE Recoverable'
    BY <2>0, <2>1, RecoverableKept DEF ShardsOf, DataSaved
  <2>2. ASSUME NEW mode \in ResumeModes, StartFromScratch(mode) \/ StartFromCheckpoint(mode) \/ StartFails(mode)
        PROVE Recoverable'
    BY <2>1, <2>2 DEF StartFromScratch, StartFromCheckpoint, StartFails, FreshProcess, disk
  <2>3. CASE TrainStep \/ EndStep \/ NextEpoch \/ Saved \/ Crash
    BY <2>1, <2>3 DEF TrainStep, EndStep, NextEpoch, Saved, Crash, disk
  <2>4. CASE Rotate
    <3>1. Role \in Roles /\ Keep(Role) # 1
      BY RolesFacts DEF Role, TypeOK, Keep
    <3>2. EndsAt(Role, tracker)
      BY <2>4, RolesFacts DEF Rotate, PathsInv, Role, TypeOK
    <3>3. tracker \notin Removed(Role)
      BY <3>1, <3>2, LastPathStays
    <3>4. \A role \in Roles, k \in Ranks :
            {f \in files' : f.role = role /\ f.step = tracker /\ f.rank = k} = ShardsOf(role, tracker, k)
      BY <2>4, <3>3 DEF Rotate, ShardsOf
    <3> QED BY <2>0, <2>4, <3>4, RecoverableKept DEF Rotate, DataSaved
  <2>5. ASSUME NEW k \in Ranks, WriteShard(k) PROVE Recoverable'
    <3>1. tracker # global_steps
      BY <2>5 DEF WriteShard, TrackerInv, TypeOK, Torn
    <3>2. \A role \in Roles, j \in Ranks :
            {f \in files' : f.role = role /\ f.step = tracker /\ f.rank = j} = ShardsOf(role, tracker, j)
      BY <2>5, <3>1 DEF WriteShard, ShardsOf, Shard
    <3> QED BY <2>0, <2>5, <3>2, RecoverableKept DEF WriteShard, DataSaved
  <2>6. CASE SaveData
    <3>1. tracker # global_steps
      BY <2>6 DEF SaveData, TrackerInv, TypeOK, Torn
    <3>2. {d \in data' : d.step = tracker} = DataSaved(tracker)
      BY <2>6, <3>1 DEF SaveData, DataSaved
    <3> QED BY <2>0, <2>6, <3>2, RecoverableKept DEF SaveData, ShardsOf
  <2>7. CASE OpenTracker
    BY <2>7 DEF OpenTracker, Recoverable
  <2>8. CASE WriteTracker
    <3>1. run \in 1 .. run
      BY <2>0, <2>8 DEF WriteTracker, ShardsInv
    <3>2. Complete(global_steps)
      BY <2>8, <3>1 DEF WriteTracker, ShardsInv, SavedBy, Complete
    <3> QED BY <2>8, <3>2 DEF WriteTracker, memory, Recoverable, Complete, ShardsOf, DataSaved
  <2>9. CASE UNCHANGED vars
    BY <2>1, <2>9 DEF vars, disk
  <2> QED BY <2>2, <2>3, <2>4, <2>5, <2>6, <2>7, <2>8, <2>9 DEF Next
<1>3. IInv => TypeOK /\ TrackerInv
  BY DEF IInv
<1> QED BY <1>1, <1>2, <1>3, TypeCorrect, TrackerInductive, PathsInductive, ShardsInductive, PTL DEF Spec, IInv
----------------------------------------------------------------------------
(* Division with remainder, and what it says of the next number *)

Rem(a, B) == a % B

Divided(a, B, q, r) == q \in Nat /\ r \in 0 .. B - 1 /\ a = B * q + r

LEMMA Division ==
  ASSUME NEW a \in Nat, NEW B \in Nat \ {0}
  PROVE  Rem(a, B) \in 0 .. B - 1 /\ \E q \in Nat : a = B * q + Rem(a, B)
<1>1. a % B = a - B * (a \div B)
  OBVIOUS
<1>2. (a \div B) \in Nat /\ a % B \in 0 .. B - 1
  OBVIOUS
<1>3. PICK q \in Nat : q = a \div B
  BY <1>2
<1>4. Rem(a, B) \in 0 .. B - 1 /\ Rem(a, B) = a - B * q
  BY <1>1, <1>2, <1>3 DEF Rem
<1>5. a = B * q + Rem(a, B)
  BY <1>4
<1> QED BY <1>4, <1>5

LEMMA OneRemainder ==
  ASSUME NEW B \in Nat \ {0}, NEW q \in Nat, NEW p \in Nat, NEW r \in 0 .. B - 1, NEW s \in 0 .. B - 1,
         B * q + r = B * p + s
  PROVE  r = s
<1>1. ASSUME NEW d \in Nat, d >= 1 PROVE B * d >= B
  BY <1>1
<1>2. CASE q < p
  <2>1. PICK d \in Nat : p = q + d /\ d >= 1
    BY <1>2
  <2>2. B * p = B * q + B * d /\ B * d >= B
    BY <1>1, <2>1
  <2> QED BY <2>2
<1>3. CASE q > p
  <2>1. PICK d \in Nat : q = p + d /\ d >= 1
    BY <1>3
  <2>2. B * q = B * p + B * d /\ B * d >= B
    BY <1>1, <2>1
  <2> QED BY <2>2
<1>4. CASE q = p
  BY <1>4
<1> QED BY <1>2, <1>3, <1>4

LEMMA Remainder ==
  ASSUME NEW B \in Nat \ {0}, NEW a \in Nat, NEW q, NEW r, Divided(a, B, q, r)
  PROVE  Rem(a, B) = r
<1>1. PICK p \in Nat : a = B * p + Rem(a, B)
  BY Division
<1>2. Rem(a, B) \in 0 .. B - 1
  BY Division
<1>3. q \in Nat /\ r \in 0 .. B - 1 /\ B * q + r = B * p + Rem(a, B)
  BY <1>1 DEF Divided
<1> QED BY <1>2, <1>3, OneRemainder

LEMMA NextRemainder ==
  ASSUME NEW a \in Nat, NEW B \in Nat \ {0}
  PROVE  Rem(a + 1, B) = IF Rem(a, B) = B - 1 THEN 0 ELSE Rem(a, B) + 1
<1>1. PICK q \in Nat : a = B * q + Rem(a, B)
  BY Division
<1>2. Rem(a, B) \in 0 .. B - 1
  BY Division
<1>3. CASE Rem(a, B) = B - 1
  <2>1. Divided(a + 1, B, q + 1, 0)
    BY <1>1, <1>3 DEF Divided
  <2>2. Rem(a + 1, B) = 0
    BY <2>1, a + 1 \in Nat, Remainder
  <2> QED BY <2>2, <1>3
<1>4. CASE Rem(a, B) # B - 1
  <2>1. Divided(a + 1, B, q, Rem(a, B) + 1)
    BY <1>1, <1>2, <1>4 DEF Divided
  <2>2. Rem(a + 1, B) = Rem(a, B) + 1
    BY <2>1, a + 1 \in Nat, Remainder
  <2> QED BY <2>2, <1>4
<1> QED BY <1>3, <1>4

(* Numbers with one remainder have successors with one remainder. *)
LEMMA NextSame ==
  ASSUME NEW a \in Nat, NEW b \in Nat, NEW B \in Nat \ {0}, Rem(a, B) = Rem(b, B)
  PROVE  Rem(a + 1, B) = Rem(b + 1, B)
  BY NextRemainder

LEMMA WholeEpoch == ASSUME NEW B \in Nat \ {0} PROVE Rem(B, B) = 0 /\ Rem(0, B) = 0
<1>1. Divided(B, B, 1, 0) /\ Divided(0, B, 0, 0)
  BY DEF Divided
<1> QED BY <1>1, Remainder

(* Where no number after a is a multiple of B, none is B or more after it. *)
LEMMA MultipleWithin ==
  ASSUME NEW B \in Nat \ {0}, NEW a \in Nat, NEW n \in Nat, \A t \in a + 1 .. n : Rem(t, B) # 0
  PROVE  n - a < B
<1>1. PICK q \in Nat : n = B * q + Rem(n, B)
  BY Division
<1>2. Rem(n, B) \in 0 .. B - 1
  BY Division
<1>3. PICK m \in Nat : m = B * q
  OBVIOUS
<1>4. Divided(m, B, q, 0)
  BY <1>3 DEF Divided
<1>5. Rem(m, B) = 0
  BY <1>4, Remainder
<1>6. m \notin a + 1 .. n
  BY <1>5
<1>7. n = m + Rem(n, B)
  BY <1>1, <1>3
<1> QED BY <1>2, <1>6, <1>7
----------------------------------------------------------------------------
(* What a run goes on from: the updates and the data of the steps before.   *)

LEMMA NoUpdates == \A role : UpdatesBefore(role, 1) = 0
<1> SUFFICES ASSUME NEW role PROVE UpdatesBefore(role, 1) = 0
  OBVIOUS
<1>1. {t \in 1 .. 1 - 1 : Updates(role, t)} = {}
  OBVIOUS
<1> QED BY <1>1, FS_EmptySet DEF UpdatesBefore

LEMMA UpdatesNext ==
  ASSUME NEW role, NEW s \in Nat \ {0}
  PROVE  UpdatesBefore(role, s + 1) = UpdatesBefore(role, s) + (IF Updates(role, s) THEN 1 ELSE 0)
<1> DEFINE U(n) == {t \in 1 .. n - 1 : Updates(role, t)}
<1>1. IsFiniteSet(U(s))
  <2>1. IsFiniteSet(1 .. s - 1) /\ U(s) \subseteq 1 .. s - 1
    BY FS_Interval
  <2> QED BY <2>1, FS_Subset
<1>2. CASE Updates(role, s)
  <2>1. U(s + 1) = U(s) \cup {s} /\ s \notin U(s)
    BY <1>2
  <2>2. Cardinality(U(s) \cup {s}) = Cardinality(U(s)) + 1
    BY <1>1, <2>1, FS_AddElement
  <2> QED BY <1>2, <2>1, <2>2 DEF UpdatesBefore
<1>3. CASE ~Updates(role, s)
  <2>1. U(s + 1) = U(s)
    BY <1>3
  <2>2. Cardinality(U(s)) \in Nat
    BY <1>1, FS_CardinalityType
  <2> QED BY <1>3, <2>1, <2>2 DEF UpdatesBefore
<1> QED BY <1>2, <1>3

SavingPhases == {"rotate", "shards", "data", "open", "write", "next"}

(* A model has the updates of the steps before, in memory and in its files. *)
UpdatesInv ==
  /\ \A f \in files : f.weights = UpdatesBefore(f.role, f.step + 1)
  /\ phase = "step" => \A role \in Roles : weights[role] = UpdatesBefore(role, global_steps)
  /\ phase \in SavingPhases => \A role \in Roles : weights[role] = UpdatesBefore(role, global_steps + 1)

(* The place in the data goes with the step, in memory and in data.pt.      *)
PosInv ==
  /\ \A d \in data : Rem(d.pos, BatchesPerEpoch) = Rem(d.step, BatchesPerEpoch)
  /\ phase = "step" => Rem(pos, BatchesPerEpoch) = Rem(global_steps - 1, BatchesPerEpoch)
  /\ phase \in SavingPhases => Rem(pos, BatchesPerEpoch) = Rem(global_steps, BatchesPerEpoch)
  /\ phase \in {"open", "write"} => DataSaved(global_steps) # {}
  /\ tracker \notin {NoTracker, Torn} => DataSaved(tracker) # {}

NoneSavable(n) == \A t \in tracker + 1 .. n : Rem(t, SaveFreq) # 0

(* No step that is to be saved lies between the tracker's and this one.     *)
SavedInv ==
  /\ phase \in {"step", "rotate", "shards", "data", "open"} => NoneSavable(global_steps - 1)
  /\ phase = "next" => tracker = global_steps \/ (~SaveNow /\ NoneSavable(global_steps))
  /\ phase = "done" => tracker = global_steps - 1

LEMMA UpdatesInductive ==
  ASSUME ResumeModes \subseteq {"auto"}
  PROVE  TypeOK /\ TrackerInv /\ UpdatesInv /\ [Next]_vars => UpdatesInv'
<1> SUFFICES ASSUME TypeOK, TrackerInv, UpdatesInv, [Next]_vars PROVE UpdatesInv'
  OBVIOUS
<1> USE DEF UpdatesInv, SavingPhases
<1>1. ASSUME NEW mode \in ResumeModes, StartFromScratch(mode) PROVE UpdatesInv'
  <2>1. \A role \in Roles : UpdatesBefore(role, 1) = 0
    BY NoUpdates
  <2>2. files' = files /\ phase' = "step" /\ global_steps' = 1 /\ weights' = [role \in Roles |-> 0]
    BY <1>1 DEF StartFromScratch, FreshProcess, disk
  <2> QED BY <2>1, <2>2
<1>2. ASSUME NEW mode \in ResumeModes, StartFromCheckpoint(mode) PROVE UpdatesInv'
  <2>1. files' = files /\ phase' = "step" /\ global_steps' = tracker + 1
    BY <1>2 DEF StartFromCheckpoint, NextStepAfter, FreshProcess, disk
  <2>2. PICK chosen \in [Roles -> files] :
          /\ \A role \in Roles : \E k \in Ranks : chosen[role] \in ShardsOf(role, tracker, k)
          /\ weights' = [role \in Roles |-> chosen[role].weights]
    BY <1>2 DEF StartFromCheckpoint
  <2>3. ASSUME NEW role \in Roles PROVE weights'[role] = UpdatesBefore(role, tracker + 1)
    <3>1. chosen[role] \in files /\ chosen[role].role = role /\ chosen[role].step = tracker
      BY <2>2 DEF ShardsOf
    <3> QED BY <2>2, <3>1
  <2> QED BY <2>1, <2>3
<1>3. ASSUME NEW mode \in ResumeModes, StartFails(mode) PROVE UpdatesInv'
  BY <1>3 DEF StartFails, FreshProcess, disk
<1>4. CASE TrainStep
  <2>1. global_steps \in Nat \ {0} /\ weights \in [Roles -> Nat]
    BY <1>4 DEF TrainStep, TypeOK, TrackerInv
  <2>2. \A role \in Roles :
          weights'[role] = UpdatesBefore(role, global_steps) + (IF Updates(role, global_steps) THEN 1 ELSE 0)
    BY <1>4 DEF TrainStep
  <2>3. \A role \in Roles : weights'[role] = UpdatesBefore(role, global_steps + 1)
    BY <2>1, <2>2, UpdatesNext
  <2>4. files' = files /\ global_steps' = global_steps /\ phase' \in SavingPhases
    BY <1>4 DEF TrainStep, disk
  <2> QED BY <2>3, <2>4
<1>5. CASE EndStep
  BY <1>5 DEF EndStep, disk
<1>6. CASE NextEpoch
  BY <1>6 DEF NextEpoch, disk
<1>7. CASE Rotate
  BY <1>7 DEF Rotate
<1>8. ASSUME NEW k \in Ranks, WriteShard(k) PROVE UpdatesInv'
  <2>1. Role \in Roles
    BY RolesFacts DEF Role, TypeOK
  <2>2. Shard(k).weights = UpdatesBefore(Shard(k).role, Shard(k).step + 1)
    BY <1>8, <2>1 DEF WriteShard, Shard
  <2>3. \A f \in files' : f \in files \/ f = Shard(k)
    BY <1>8 DEF WriteShard
  <2>4. \A f \in files' : f.weights = UpdatesBefore(f.role, f.step + 1)
    BY <2>2, <2>3
  <2>5. phase' = phase /\ weights' = weights /\ global_steps' = global_steps
    BY <1>8 DEF WriteShard, memory
  <2> QED BY <2>4, <2>5
<1>9. CASE Saved
  BY <1>9 DEF Saved, disk
<1>10. CASE SaveData
  BY <1>10 DEF SaveData, memory
<1>11. CASE OpenTracker
  BY <1>11 DEF OpenTracker, memory
<1>12. CASE WriteTracker
  BY <1>12 DEF WriteTracker, memory
<1>13. CASE Crash
  BY <1>13 DEF Crash, disk
<1>14. CASE UNCHANGED vars
  BY <1>14 DEF vars, memory, disk
<1> QED BY <1>1, <1>2, <1>3, <1>4, <1>5, <1>6, <1>7, <1>8, <1>9, <1>10, <1>11, <1>12, <1>13, <1>14
        DEF Next

LEMMA PosInductive ==
  ASSUME ResumeModes \subseteq {"auto"}
  PROVE  TypeOK /\ TrackerInv /\ PosInv /\ [Next]_vars => PosInv'
<1> SUFFICES ASSUME TypeOK, TrackerInv, PosInv, [Next]_vars PROVE PosInv'
  OBVIOUS
<1> USE ConfigAssumption DEF PosInv, SavingPhases, DataSaved
<1>1. ASSUME NEW mode \in ResumeModes, StartFromScratch(mode) PROVE PosInv'
  <2>1. data' = data /\ tracker' = tracker /\ phase' = "step" /\ global_steps' = 1 /\ pos' = 0
    BY <1>1 DEF StartFromScratch, FreshProcess, disk
  <2>2. Rem(pos', BatchesPerEpoch) = Rem(global_steps' - 1, BatchesPerEpoch)
    BY <2>1
  <2> QED BY <2>1, <2>2
<1>2. ASSUME NEW mode \in ResumeModes, StartFromCheckpoint(mode) PROVE PosInv'
  <2>1. data' = data /\ tracker' = tracker /\ phase' = "step" /\ global_steps' = tracker + 1
    BY <1>2 DEF StartFromCheckpoint, NextStepAfter, FreshProcess, disk
  <2>2. tracker \in Nat /\ DataSaved(tracker) # {}
    BY <1>2 DEF StartFromCheckpoint, TypeOK, Torn
  <2>3. PICK d \in data : d.step = tracker /\ pos' = d.pos
    BY <1>2, <2>2 DEF StartFromCheckpoint, LoadedPositions
  <2>4. global_steps' - 1 = tracker
    BY <2>1, <2>2
  <2>5. Rem(pos', BatchesPerEpoch) = Rem(global_steps' - 1, BatchesPerEpoch)
    BY <2>3, <2>4
  <2> QED BY <2>1, <2>5
<1>3. ASSUME NEW mode \in ResumeModes, StartFails(mode) PROVE PosInv'
  BY <1>3 DEF StartFails, FreshProcess, disk
<1>4. CASE TrainStep
  <2>1. pos \in Nat /\ global_steps \in Nat \ {0} /\ global_steps - 1 \in Nat
    BY <1>4 DEF TrainStep, TypeOK, TrackerInv
  <2>2. Rem(pos, BatchesPerEpoch) = Rem(global_steps - 1, BatchesPerEpoch)
    BY <1>4 DEF TrainStep
  <2>3. Rem(pos + 1, BatchesPerEpoch) = Rem(global_steps - 1 + 1, BatchesPerEpoch)
    BY <2>1, <2>2, NextSame
  <2>4. global_steps - 1 + 1 = global_steps
    BY <2>1
  <2>5. data' = data /\ tracker' = tracker /\ global_steps' = global_steps /\ pos' = pos + 1
        /\ phase' \in {"rotate", "next"}
    BY <1>4 DEF TrainStep, disk
  <2>6. Rem(pos', BatchesPerEpoch) = Rem(global_steps', BatchesPerEpoch)
    BY <2>3, <2>4, <2>5
  <2> QED BY <2>5, <2>6
<1>5. CASE EndStep
  <2>1. data' = data /\ tracker' = tracker /\ global_steps' = global_steps + 1 /\ pos' = pos
        /\ phase = "next" /\ phase' \in {"step", "done"}
    BY <1>5 DEF EndStep, disk
  <2>2. global_steps' - 1 = global_steps
    BY <2>1 DEF TypeOK
  <2>3. Rem(pos', BatchesPerEpoch) = Rem(global_steps' - 1, BatchesPerEpoch)
    BY <2>1, <2>2
  <2> QED BY <2>1, <2>3
<1>6. CASE NextEpoch
  <2>1. data' = data /\ tracker' = tracker /\ global_steps' = global_steps /\ phase = "step" /\ pos = BatchesPerEpoch
    BY <1>6 DEF NextEpoch, disk
  <2>2. (phase' = "step" /\ pos' = 0) \/ phase' = "exhausted"
    BY <1>6 DEF NextEpoch
  <2>3. Rem(0, BatchesPerEpoch) = Rem(BatchesPerEpoch, BatchesPerEpoch)
    BY WholeEpoch
  <2> QED BY <2>1, <2>2, <2>3
<1>7. CASE Rotate
  BY <1>7 DEF Rotate
<1>8. ASSUME NEW k \in Ranks, WriteShard(k) PROVE PosInv'
  BY <1>8 DEF WriteShard, memory
<1>9. CASE Saved
  BY <1>9 DEF Saved, disk
<1>10. CASE SaveData
  <2> DEFINE new == [step |-> global_steps, run |-> run, pos |-> pos]
  <2>1. data' = (data \ {d \in data : d.step = global_steps}) \cup {new}
    BY <1>10 DEF SaveData
  <2>2. global_steps' = global_steps /\ pos' = pos /\ tracker' = tracker /\ phase = "data" /\ phase' = "open"
    BY <1>10 DEF SaveData, memory
  <2>3. \A d \in data' : Rem(d.pos, BatchesPerEpoch) = Rem(d.step, BatchesPerEpoch)
    BY <2>1, <2>2
  <2>4. new \in data' /\ new.step = global_steps
    BY <2>1
  <2>5. ASSUME tracker \notin {NoTracker, Torn} PROVE {d \in data' : d.step = tracker} # {}
    <3>1. PICK d \in data : d.step = tracker
      BY <2>5
    <3>2. CASE tracker = global_steps
      BY <2>4, <3>2
    <3>3. CASE tracker # global_steps
      BY <2>1, <3>1, <3>3
    <3> QED BY <3>2, <3>3
  <2> QED BY <2>2, <2>3, <2>4, <2>5
<1>11. CASE OpenTracker
  BY <1>11 DEF OpenTracker, memory
<1>12. CASE WriteTracker
  BY <1>12 DEF WriteTracker, memory
<1>13. CASE Crash
  BY <1>13 DEF Crash, disk
<1>14. CASE UNCHANGED vars
  BY <1>14 DEF vars, memory, disk
<1> QED BY <1>1, <1>2, <1>3, <1>4, <1>5, <1>6, <1>7, <1>8, <1>9, <1>10, <1>11, <1>12, <1>13, <1>14
        DEF Next

LEMMA SavedInductive ==
  ASSUME ResumeModes \subseteq {"auto"}
  PROVE  TypeOK /\ TrackerInv /\ SavedInv /\ [Next]_vars => SavedInv'
<1> SUFFICES ASSUME TypeOK, TrackerInv, SavedInv, [Next]_vars PROVE SavedInv'
  OBVIOUS
<1> USE DEF SavedInv, NoneSavable
<1>1. ASSUME NEW mode \in ResumeModes, StartFromScratch(mode) PROVE SavedInv'
  <2>1. tracker' = 0 /\ phase' = "step" /\ global_steps' = 1
    BY <1>1 DEF StartFromScratch, FreshProcess, disk, NoTracker
  <2> QED BY <2>1
<1>2. ASSUME NEW mode \in ResumeModes, StartFromCheckpoint(mode) PROVE SavedInv'
  <2>1. tracker' = tracker /\ phase' = "step" /\ global_steps' = tracker + 1 /\ tracker \in Nat
    BY <1>2 DEF StartFromCheckpoint, NextStepAfter, FreshProcess, disk, TypeOK, Torn
  <2> QED BY <2>1
<1>3. ASSUME NEW mode \in ResumeModes, StartFails(mode) PROVE SavedInv'
  BY <1>3 DEF StartFails, FreshProcess, disk
<1>4. CASE TrainStep
  <2>1. tracker' = tracker /\ global_steps' = global_steps /\ phase = "step"
        /\ phase' = IF SaveNow THEN "rotate" ELSE "next"
    BY <1>4 DEF TrainStep, disk
  <2>2. global_steps \in Nat /\ tracker \in Int /\ NoneSavable(global_steps - 1)
    BY <2>1 DEF TypeOK, Torn
  <2>3. SaveNow' <=> SaveNow
    BY <2>1 DEF SaveNow, IsLastStep
  <2>4. ASSUME ~SaveNow PROVE NoneSavable(global_steps)
    <3>1. Rem(global_steps, SaveFreq) # 0
      BY <2>4 DEF SaveNow, Rem
    <3> QED BY <2>2, <3>1
  <2> QED BY <2>1, <2>2, <2>3, <2>4
<1>5. CASE EndStep
  <2>1. tracker' = tracker /\ global_steps' = global_steps + 1 /\ phase = "next"
        /\ phase' = IF IsLastStep THEN "done" ELSE "step"
    BY <1>5 DEF EndStep, disk
  <2>2. global_steps \in Nat /\ tracker \in Int /\ global_steps' - 1 = global_steps
    BY <2>1 DEF TypeOK, Torn
  <2>3. IsLastStep => SaveNow
    BY DEF SaveNow
  <2>4. NoneSavable(global_steps)
    BY <2>1, <2>2
  <2> QED BY <2>1, <2>2, <2>3, <2>4
<1>6. CASE NextEpoch
  BY <1>6 DEF NextEpoch, disk
<1>7. CASE Rotate
  BY <1>7 DEF Rotate
<1>8. ASSUME NEW k \in Ranks, WriteShard(k) PROVE SavedInv'
  BY <1>8 DEF WriteShard, memory, SaveNow, IsLastStep
<1>9. CASE Saved
  BY <1>9 DEF Saved, disk
<1>10. CASE SaveData
  BY <1>10 DEF SaveData, memory
<1>11. CASE OpenTracker
  BY <1>11 DEF OpenTracker, memory
<1>12. CASE WriteTracker
  BY <1>12 DEF WriteTracker, memory
<1>13. CASE Crash
  BY <1>13 DEF Crash, disk
<1>14. CASE UNCHANGED vars
  BY <1>14 DEF vars, memory, disk, SaveNow, IsLastStep
<1> QED BY <1>1, <1>2, <1>3, <1>4, <1>5, <1>6, <1>7, <1>8, <1>9, <1>10, <1>11, <1>12, <1>13, <1>14
        DEF Next

(* Resuming automatically, step s always starts from weights with the       *)
(* updates of the steps before s and from batch s of the data, a crash      *)
(* costs at most SaveFreq steps, and a run that ends well none.             *)
THEOREM NothingIsLost ==
  ASSUME ResumeModes \subseteq {"auto"}
  PROVE  Spec => []NothingLost
<1>1. Init => TrackerInv /\ UpdatesInv /\ PosInv /\ SavedInv
  BY DEF Init, TrackerInv, UpdatesInv, PosInv, SavedInv, SavingPhases, NoTracker
<1>2. TypeOK /\ TrackerInv /\ UpdatesInv /\ PosInv /\ SavedInv => NothingLost
  <2> SUFFICES ASSUME TypeOK, TrackerInv, UpdatesInv, PosInv, SavedInv PROVE NothingLost
    OBVIOUS
  <2>1. ResumesWhereItStopped
    BY DEF ResumesWhereItStopped, UpdatesInv, PosInv, Rem
  <2>2. LossBounded
    <3> SUFFICES ASSUME phase \in {"step", "rotate", "shards", "data", "open"}, tracker # Torn
                 PROVE  global_steps - tracker <= SaveFreq
      BY DEF LossBounded
    <3>1. tracker \in Nat /\ global_steps \in Nat \ {0} /\ global_steps - 1 \in Nat
      BY DEF TypeOK, TrackerInv
    <3>2. \A t \in tracker + 1 .. global_steps - 1 : Rem(t, SaveFreq) # 0
      BY DEF SavedInv, NoneSavable
    <3>3. SaveFreq \in Nat \ {0}
      BY ConfigAssumption
    <3>4. global_steps - 1 - tracker < SaveFreq
      BY <3>1, <3>2, <3>3, MultipleWithin
    <3> QED BY <3>1, <3>3, <3>4
  <2>3. FinishedMeansSaved
    BY DEF FinishedMeansSaved, SavedInv
  <2> QED BY <2>1, <2>2, <2>3 DEF NothingLost, SavedInTime
<1> QED BY <1>1, <1>2, TypeCorrect, TrackerInductive, UpdatesInductive, PosInductive, SavedInductive,
        PTL DEF Spec

(* Validation leaves training as it is: every run of fit with validations  *)
(* is a run of Trainer, so what is proved of Trainer holds of it.          *)
THEOREM ValidationKeepsTraining == VSpec => Spec
<1>1. VInit => Init
  BY DEF VInit
<1>2. [VNext]_vvars => [Next]_vars
  <2> SUFFICES ASSUME [VNext]_vvars PROVE [Next]_vars
    OBVIOUS
  <2>1. CASE VStart
    BY <2>1 DEF VStart, Next
  <2>2. CASE VTrainStep
    BY <2>2 DEF VTrainStep, Next
  <2>3. CASE VSave
    BY <2>3 DEF VSave, Next
  <2>4. CASE VNextEpoch \/ VEndStep \/ VCrash
    BY <2>4 DEF VNextEpoch, VEndStep, VCrash, Next
  <2>5. CASE ValidateBatch \/ EndTest
    BY <2>5 DEF ValidateBatch, EndTest
  <2>6. CASE EndInitialValidation
    BY <2>6 DEF EndInitialValidation, Next
  <2>7. CASE UNCHANGED vvars
    BY <2>7 DEF vvars
  <2> QED BY <2>1, <2>2, <2>3, <2>4, <2>5, <2>6, <2>7 DEF VNext
<1> QED BY <1>1, <1>2, PTL DEF VSpec, Spec

----------------------------------------------------------------------------
(* The pass over the validation data *)

(* The least and the greatest of a bounded set of numbers are there.        *)
LEMMA LeastNatural ==
  ASSUME NEW T, T \subseteq Nat, T # {}
  PROVE  \E x \in T : \A y \in T : x <= y
<1> DEFINE Less == OpToRel(<, Nat)
<1>1. PICK x \in T : \A y \in T : ~(<<y, x>> \in Less)
  <2>1. IsWellFoundedOn(Less, Nat)
    BY NatLessThanWellFounded DEF Less
  <2> QED BY <2>1, WFMin
<1>2. \A y \in T : ~(y < x)
  BY <1>1 DEF OpToRel
<1> QED BY <1>2

LEMMA GreatestNatural ==
  ASSUME NEW T, T \subseteq Nat, T # {}, NEW n \in Nat, \A y \in T : y <= n
  PROVE  \E x \in T : \A y \in T : x >= y
<1> DEFINE Bounds == {m \in Nat : \A y \in T : y <= m}
<1>1. PICK m \in Bounds : \A k \in Bounds : m <= k
  <2>1. Bounds \subseteq Nat /\ Bounds # {}
    OBVIOUS
  <2> HIDE DEF Bounds
  <2> QED BY <2>1, LeastNatural
<1>2. m \in T
  <2>1. SUFFICES ASSUME m \notin T PROVE FALSE
    OBVIOUS
  <2>2. \A y \in T : y < m
    BY <2>1
  <2>3. m > 0
    <3>1. PICK y \in T : y \in Nat
      OBVIOUS
    <3>2. y < m /\ m \in Nat
      BY <2>2
    <3> QED BY <3>1, <3>2
  <2>4. m - 1 \in Bounds
    BY <2>2, <2>3
  <2> QED BY <1>1, <2>4
<1> QED BY <1>1, <1>2

LEMMA WithinExtremes ==
  ASSUME NEW T, T \subseteq Nat, NEW n \in Nat, \A y \in T : y <= n, NEW t \in T
  PROVE  t \in Min(T) .. Max(T)
<1>1. \E x \in T : \A y \in T : x <= y
  BY LeastNatural
<1>2. \E x \in T : \A y \in T : x >= y
  BY GreatestNatural
<1>3. Min(T) \in T /\ \A y \in T : Min(T) <= y
  BY <1>1 DEF Min
<1>4. Max(T) \in T /\ \A y \in T : Max(T) >= y
  BY <1>2 DEF Max
<1> QED BY <1>3, <1>4

(* The problems of the first n batches. *)
Through(n) == {p \in Problems : (p - 1) \div ValBatchSize < n}

LEMMA Quotient ==
  ASSUME NEW a \in Nat, NEW B \in Nat \ {0}
  PROVE  (a \div B) \in Nat /\ a >= B * (a \div B) /\ a < B * (a \div B) + B
<1>1. a % B = a - B * (a \div B)
  OBVIOUS
<1>2. (a \div B) \in Nat /\ a % B \in 0 .. B - 1
  OBVIOUS
<1>3. PICK q \in Nat : q = a \div B
  BY <1>2
<1>4. a % B = a - B * q
  BY <1>1, <1>3
<1>5. B * q \in Nat
  BY <1>3
<1>6. a >= B * q /\ a < B * q + B
  BY <1>2, <1>4, <1>5
<1> QED BY <1>3, <1>6

(* The last batch is counted also when it is not full. *)
LEMMA EveryBatch ==
  /\ ValBatches \in Nat \ {0}
  /\ \A p \in Problems : (p - 1) \div ValBatchSize \in 0 .. ValBatches - 1
<1> DEFINE B == ValBatchSize
           V == ValSize
<1>0. B \in Nat \ {0} /\ V \in Nat \ {0}
  BY SizesAssumption
<1> DEFINE n == (V + B - 1) \div B
<1>1. n \in Nat /\ V + B - 1 >= B * n /\ V + B - 1 < B * n + B
  <2>1. V + B - 1 \in Nat
    BY <1>0
  <2> HIDE DEF B, V
  <2> QED BY <1>0, <2>1, Quotient
<1>2. n = ValBatches /\ Problems = 1 .. V
  BY DEF ValBatches, Problems
<1> HIDE DEF n, B, V
<1>3. n # 0
  <2>1. SUFFICES ASSUME n = 0 PROVE FALSE
    OBVIOUS
  <2>2. B * n = 0
    BY <1>0, <2>1
  <2> QED BY <1>0, <1>1, <2>2
<1>4. ASSUME NEW p \in 1 .. V PROVE (p - 1) \div B \in 0 .. n - 1
  <2>1. PICK q : q = (p - 1) \div B
    OBVIOUS
  <2>2. q \in Nat /\ p - 1 >= B * q
    BY <1>0, <2>1, Quotient
  <2>3. q < n
    <3>1. SUFFICES ASSUME q >= n PROVE FALSE
      BY <1>1, <2>2
    <3>2. B * q >= B * n /\ B * q \in Nat /\ B * n \in Nat
      <4>1. q = n + (q - n) /\ q - n \in Nat
        BY <1>1, <2>2, <3>1
      <4>2. PICK e \in Nat : q = n + e
        BY <4>1
      <4>3. B * q = B * n + B * e /\ B * e \in Nat /\ B * n \in Nat
        BY <1>0, <1>1, <4>2
      <4> QED BY <4>3
    <3>3. p - 1 < V
      BY <1>0
    <3> QED BY <1>0, <1>1, <2>2, <3>2, <3>3
  <2> QED BY <1>1, <2>1, <2>2, <2>3
<1>5. \A p \in Problems : (p - 1) \div ValBatchSize \in 0 .. ValBatches - 1
  BY <1>2, <1>4 DEF B
<1> QED BY <1>1, <1>2, <1>3, <1>5

RatesOf(out, b) == <<Cardinality({p \in ValBatch(b) : out[p].won}), Cardinality(ValBatch(b))>>

(* What a pass has: the rows of one outcome for every problem of the        *)
(* batches that are through, and a rate for each of these batches.          *)
PassOf(out) ==
  /\ rows = UNION {RowsOf(p, out[p]) : p \in Through(val_batches)}
  /\ rates = [b \in 1 .. val_batches |-> RatesOf(out, b)]

PassInv ==
  /\ stage \in {"off", "before", "step"}
  /\ stage = "before" => phase = "step"
  /\ stage = "step" => phase \in {"rotate", "next"}
  /\ stage # "off" => val_batches \in 0 .. ValBatches /\ \E out \in [Through(val_batches) -> Outcomes] : PassOf(out)

LEMMA ThroughNone == Through(0) = {}
<1>1. \A p \in Problems : ~((p - 1) \div ValBatchSize < 0)
  BY EveryBatch
<1> QED BY <1>1 DEF Through

LEMMA ThroughAll == Through(ValBatches) = Problems
BY EveryBatch DEF Through

LEMMA ThroughNext ==
  ASSUME NEW n \in Nat
  PROVE  /\ Through(n + 1) = Through(n) \cup ValBatch(n + 1)
         /\ \A b \in 1 .. n : ValBatch(b) \subseteq Through(n) /\ ValBatch(b) \cap ValBatch(n + 1) = {}
         /\ Through(n) \cap ValBatch(n + 1) = {}
<1> DEFINE q(p) == (p - 1) \div ValBatchSize
<1>1. \A p \in Problems : q(p) \in Nat
  BY EveryBatch
<1>2. Through(n) = {p \in Problems : q(p) < n} /\ Through(n + 1) = {p \in Problems : q(p) < n + 1}
  BY DEF Through
<1>3. \A b : ValBatch(b) = {p \in Problems : q(p) = b - 1}
  BY DEF ValBatch
<1> HIDE DEF q
<1> QED BY <1>1, <1>2, <1>3

(* A batch more leaves what the earlier batches gave. *)
LEMMA PassGoesOn ==
  ASSUME PassInv, ValidateBatch PROVE PassInv'
<1>0. PICK n : n = val_batches
  OBVIOUS
<1>1. /\ stage' = stage /\ phase' = phase /\ weights' = weights /\ val_batches' = n + 1
      /\ stage # "off" /\ n \in 0 .. ValBatches /\ n < ValBatches
  BY <1>0 DEF ValidateBatch, PassInv, vars, memory
<1>2. n \in Nat /\ n + 1 \in 0 .. ValBatches
  BY <1>1, EveryBatch
<1>3. PICK old \in [Through(n) -> Outcomes] : PassOf(old)
  BY <1>0, <1>1 DEF PassInv
<1>4. PICK out \in [ValBatch(n + 1) -> Outcomes] :
        /\ rows' = rows \cup UNION {RowsOf(p, out[p]) : p \in ValBatch(n + 1)}
        /\ rates' = Append(rates, <<Cardinality({p \in ValBatch(n + 1) : out[p].won}), Cardinality(ValBatch(n + 1))>>)
  BY <1>0 DEF ValidateBatch
<1>5. PICK all : all = [p \in Through(n + 1) |-> IF p \in Through(n) THEN old[p] ELSE out[p]]
  OBVIOUS
<1>6. /\ all \in [Through(n + 1) -> Outcomes]
      /\ \A p \in Through(n) : all[p] = old[p]
      /\ \A p \in ValBatch(n + 1) : all[p] = out[p]
  BY <1>2, <1>5, ThroughNext
<1>7. \A p, o : RowsOf(p, o)' = RowsOf(p, o)
  BY <1>1 DEF RowsOf
<1>8. rows' = UNION {RowsOf(p, all[p]) : p \in Through(n + 1)}
  <2>1. rows = UNION {RowsOf(p, all[p]) : p \in Through(n)}
    BY <1>0, <1>3, <1>6 DEF PassOf
  <2>2. rows' = rows \cup UNION {RowsOf(p, all[p]) : p \in ValBatch(n + 1)}
    BY <1>4, <1>6
  <2>3. Through(n + 1) = Through(n) \cup ValBatch(n + 1)
    BY <1>2, ThroughNext
  <2> QED BY <2>1, <2>2, <2>3
<1>9. rates' = [b \in 1 .. n + 1 |-> RatesOf(all, b)]
  <2>1. ASSUME NEW b \in 1 .. n PROVE RatesOf(old, b) = RatesOf(all, b)
    <3>1. \A p \in ValBatch(b) : all[p] = old[p]
      BY <1>2, <1>6, ThroughNext
    <3>2. {p \in ValBatch(b) : all[p].won} = {p \in ValBatch(b) : old[p].won}
      BY <3>1
    <3> QED BY <3>2 DEF RatesOf
  <2>2. <<Cardinality({p \in ValBatch(n + 1) : out[p].won}), Cardinality(ValBatch(n + 1))>> = RatesOf(all, n + 1)
    <3>1. {p \in ValBatch(n + 1) : all[p].won} = {p \in ValBatch(n + 1) : out[p].won}
      BY <1>6
    <3> QED BY <3>1 DEF RatesOf
  <2>3. rates = [b \in 1 .. n |-> RatesOf(all, b)]
    BY <1>0, <1>3, <2>1 DEF PassOf
  <2>4. rates' = Append(rates, RatesOf(all, n + 1))
    BY <1>4, <2>2
  <2>5. \A f : Append([b \in 1 .. n |-> f[b]], f[n + 1]) = [b \in 1 .. n + 1 |-> f[b]]
    BY <1>2
  <2> DEFINE f == [b \in 1 .. n + 1 |-> RatesOf(all, b)]
  <2>6. rates = [b \in 1 .. n |-> f[b]] /\ f[n + 1] = RatesOf(all, n + 1) /\ f = [b \in 1 .. n + 1 |-> f[b]]
    BY <1>2, <2>3
  <2>7. rates' = f
    <3> HIDE DEF f
    <3> QED BY <2>4, <2>5, <2>6
  <2> QED BY <2>7
<1>10. PassOf(all)'
  <2>1. rows' = UNION {RowsOf(p, all[p])' : p \in Through(val_batches')}
    BY <1>1, <1>7, <1>8
  <2>2. rates' = [b \in 1 .. val_batches' |-> RatesOf(all, b)]
    BY <1>1, <1>9
  <2> QED BY <2>1, <2>2 DEF PassOf
<1>11. val_batches' \in 0 .. ValBatches /\ all \in [Through(val_batches') -> Outcomes]
  BY <1>1, <1>2, <1>6
<1>12. \E o \in [Through(val_batches') -> Outcomes] : PassOf(o)'
  BY <1>10, <1>11
<1>13. /\ stage' \in {"off", "before", "step"}
       /\ stage' = "before" => phase' = "step"
       /\ stage' = "step" => phase' \in {"rotate", "next"}
  BY <1>1 DEF PassInv
<1> QED BY <1>11, <1>12, <1>13 DEF PassInv

LEMMA PassStarts ==
  ASSUME NEW at, Validate(at)
  PROVE  val_batches' \in 0 .. ValBatches /\ \E out \in [Through(val_batches') -> Outcomes] : PassOf(out)'
<1>1. val_batches' = 0 /\ rows' = {} /\ rates' = <<>>
  BY DEF Validate
<1>2. PICK none : none \in [{} -> Outcomes]
  <2>1. [p \in {} |-> TRUE] \in [{} -> Outcomes]
    OBVIOUS
  <2> QED BY <2>1
<1>3. Through(val_batches') = {}
  BY <1>1, ThroughNone
<1>4. rows' = UNION {RowsOf(p, none[p])' : p \in Through(val_batches')}
  BY <1>1, <1>3
<1>5. rates' = [b \in 1 .. val_batches' |-> RatesOf(none, b)]
  BY <1>1
<1>6. PassOf(none)'
  BY <1>4, <1>5 DEF PassOf
<1>7. none \in [Through(val_batches') -> Outcomes]
  BY <1>2, <1>3
<1> QED BY <1>1, <1>6, <1>7, EveryBatch

LEMMA PassInductive == PassInv /\ [VNext]_vvars => PassInv'
<1> SUFFICES ASSUME PassInv, [VNext]_vvars PROVE PassInv'
  OBVIOUS
<1>1. CASE Idle
  BY <1>1 DEF Idle, PassInv
<1>2. CASE VStart
  <2>1. CASE Validate("before") /\ phase' = "step"
    BY <2>1, PassStarts DEF PassInv, Validate
  <2> QED BY <1>1, <1>2, <2>1 DEF VStart, StartFromScratch, StartFromCheckpoint
<1>3. CASE VTrainStep
  <2>1. CASE Validate("step") /\ phase' \in {"rotate", "next"}
    BY <2>1, PassStarts DEF PassInv, Validate
  <2> QED BY <1>1, <1>3, <2>1 DEF VTrainStep, TrainStep
<1>4. CASE VSave \/ VNextEpoch
  BY <1>4 DEF VSave, VNextEpoch, PassInv, validating
<1>5. CASE ValidateBatch
  BY <1>5, PassGoesOn
<1>6. CASE UNCHANGED vvars
  <2>1. UNCHANGED <<phase, weights, stage, val_batches, rows, rates>>
    BY <1>6 DEF vvars, vars, memory, validating
  <2>2. \A out : PassOf(out)' <=> PassOf(out)
    BY <2>1 DEF PassOf, RowsOf
  <2> QED BY <2>1, <2>2 DEF PassInv
<1> QED BY <1>1, <1>2, <1>3, <1>4, <1>5, <1>6 DEF VNext, VEndStep, VCrash, EndInitialValidation, EndTest

(* The row of a problem's first step, when its episode ended as o. *)
First(p, o) ==
  [problem |-> p, step |-> 1, reward |-> EpisodeReward(o), tools |-> tool_callings(o), model |-> weights["actor"]]

LEMMA RowsAre ==
  ASSUME NEW p, NEW o \in Outcomes
  PROVE  /\ \A r \in RowsOf(p, o) : /\ r.problem = p /\ r.reward = EpisodeReward(o) /\ r.tools = o.steps - 1
                                    /\ r.model = weights["actor"]
                                    /\ r.step = 1 => r = First(p, o)
         /\ First(p, o) \in RowsOf(p, o)
<1>1. o.steps \in 1 .. MaxSteps
  BY DEF Outcomes
<1>2. 1 \in 1 .. o.steps
  BY <1>1, SizesAssumption
<1>3. First(p, o) \in RowsOf(p, o)
  BY <1>2 DEF RowsOf, First
<1>4. \A r \in RowsOf(p, o) : /\ r.problem = p /\ r.reward = EpisodeReward(o) /\ r.tools = o.steps - 1
                              /\ r.model = weights["actor"]
                              /\ r.step = 1 => r = First(p, o)
  BY DEF RowsOf, First, tool_callings
<1> QED BY <1>3, <1>4

ToolsOf(p) == (CHOOSE r \in rows : r.problem = p).tools
WonBy(p) == \E r \in rows : r.problem = p /\ r.reward = 1

(* What a pass over all batches has of the outcomes. *)
Whole(out) ==
  /\ out \in [Problems -> Outcomes]
  /\ rows = UNION {RowsOf(p, out[p]) : p \in Problems}
  /\ rates = [b \in 1 .. ValBatches |-> RatesOf(out, b)]

LEMMA WholeRows ==
  ASSUME NEW out, Whole(out)
  PROVE  /\ {r.problem : r \in rows} = Problems
         /\ UniqueRows = {First(p, out[p]) : p \in Problems}
         /\ \A r \in rows : r.model = weights["actor"]
         /\ \A p \in Problems : ToolsOf(p) = out[p].steps - 1 /\ (WonBy(p) <=> out[p].won)
<1>1. \A p \in Problems : out[p] \in Outcomes
  BY DEF Whole
<1>2. \A r \in rows : r.problem \in Problems /\ r \in RowsOf(r.problem, out[r.problem])
  <2> SUFFICES ASSUME NEW p \in Problems, NEW r \in RowsOf(p, out[p]) PROVE r.problem = p
    BY DEF Whole
  <2> QED BY <1>1, RowsAre
<1>3. \A p \in Problems : First(p, out[p]) \in rows /\ First(p, out[p]).problem = p /\ First(p, out[p]).step = 1
  <2>1. ASSUME NEW p \in Problems PROVE First(p, out[p]) \in RowsOf(p, out[p])
    BY <1>1, RowsAre
  <2>2. \A p \in Problems : First(p, out[p]) \in rows
    BY <2>1 DEF Whole
  <2> QED BY <2>2 DEF First
<1>4. {r.problem : r \in rows} = Problems
  BY <1>2, <1>3
<1>5. UniqueRows = {First(p, out[p]) : p \in Problems}
  <2>1. ASSUME NEW r \in rows, r.step = 1 PROVE r = First(r.problem, out[r.problem]) /\ r.problem \in Problems
    BY <1>1, <1>2, <2>1, RowsAre
  <2> QED BY <1>3, <2>1 DEF UniqueRows
<1>6. \A r \in rows : r.model = weights["actor"]
  BY <1>1, <1>2, RowsAre
<1>7. ASSUME NEW p \in Problems PROVE ToolsOf(p) = out[p].steps - 1
  <2>1. \E r \in rows : r.problem = p
    BY <1>3
  <2>2. \A r \in rows : r.problem = p => r.tools = out[p].steps - 1
    BY <1>1, <1>2, RowsAre
  <2> QED BY <2>1, <2>2 DEF ToolsOf
<1>8. ASSUME NEW p \in Problems PROVE WonBy(p) <=> out[p].won
  <2>1. \A r \in rows : r.problem = p => r.reward = EpisodeReward(out[p])
    BY <1>1, <1>2, RowsAre
  <2>2. EpisodeReward(out[p]) = 1 <=> out[p].won
    BY <1>1 DEF EpisodeReward, Outcomes
  <2> QED BY <1>3, <2>1, <2>2 DEF WonBy
<1> QED BY <1>4, <1>5, <1>6, <1>7, <1>8

(* Counting the rows of the trajectories counts the problems, each once. *)
LEMMA EachOnce ==
  ASSUME NEW out, Whole(out)
  PROVE  /\ Cardinality(UniqueRows) = ValSize
         /\ Cardinality(Units(UniqueRows, "tools")) = Cardinality(UNION {{p} \X (1 .. ToolsOf(p)) : p \in Problems})
<1> DEFINE F(p) == First(p, out[p])
           tools(p) == ToolsOf(p)
<1>1. UniqueRows = {F(p) : p \in Problems}
  BY WholeRows
<1>2. \A p \in Problems : F(p).problem = p /\ F(p)["tools"] = tools(p)
  BY WholeRows DEF First, tool_callings
<1>3. \A p \in Problems : tools(p) \in 0 .. MaxSteps - 1
  <2>1. ASSUME NEW p \in Problems PROVE out[p].steps \in 1 .. MaxSteps
    BY DEF Whole, Outcomes
  <2> QED BY <2>1, WholeRows, SizesAssumption
<1>4. Problems = 1 .. ValSize /\ IsFiniteSet(Problems) /\ Cardinality(Problems) = ValSize
  BY FS_Interval, SizesAssumption, SMTT(30) DEF Problems
<1> HIDE DEF F, tools
<1>5. Cardinality(UniqueRows) = ValSize
  <2>1. [p \in Problems |-> F(p)] \in Bijection(Problems, UniqueRows)
    BY <1>1, <1>2 DEF Bijection, Injection, Surjection, IsInjective
  <2> QED BY <1>4, <2>1, FS_Bijection DEF ExistsBijection
<1>6. Cardinality(Units(UniqueRows, "tools")) = Cardinality(UNION {{p} \X (1 .. tools(p)) : p \in Problems})
  <2> DEFINE S == UNION {{p} \X (1 .. tools(p)) : p \in Problems}
             T == Units(UniqueRows, "tools")
             f == [u \in S |-> <<F(u[1]), u[2]>>]
  <2>1. \A u : u \in S <=> \E p \in Problems : \E i \in 1 .. tools(p) : u = <<p, i>>
    OBVIOUS
  <2>2. \A u : u \in T <=> \E p \in Problems : \E i \in 1 .. tools(p) : u = <<F(p), i>>
    BY <1>1, <1>2 DEF Units
  <2>3. IsFiniteSet(S)
    <3>1. S \subseteq Problems \X (1 .. MaxSteps)
      BY <1>3, <2>1, SizesAssumption
    <3>2. IsFiniteSet(Problems \X (1 .. MaxSteps))
      <4>1. IsFiniteSet(1 .. MaxSteps)
        BY FS_Interval, SizesAssumption
      <4> QED BY <1>4, <4>1, FS_Product
    <3> QED BY <3>1, <3>2, FS_Subset
  <2>4. f \in [S -> T]
    BY <2>1, <2>2
  <2>5. \A u, v \in S : f[u] = f[v] => u = v
    <3>1. SUFFICES ASSUME NEW p \in Problems, NEW i \in 1 .. tools(p), NEW q \in Problems, NEW j \in 1 .. tools(q),
                          <<F(p), i>> = <<F(q), j>>
                   PROVE  p = q /\ i = j
      BY <2>1
    <3> QED BY <1>2, <3>1
  <2>6. \A t \in T : \E u \in S : f[u] = t
    <3>1. ASSUME NEW p \in Problems, NEW i \in 1 .. tools(p) PROVE \E u \in S : f[u] = <<F(p), i>>
      <4>1. <<p, i>> \in S
        BY <2>1
      <4>2. f[<<p, i>>] = <<F(p), i>>
        BY <4>1
      <4> QED BY <4>1, <4>2
    <3> HIDE DEF S, T, f
    <3> QED BY <2>2, <3>1
  <2> HIDE DEF S, T, f
  <2>7. f \in Bijection(S, T)
    BY <2>4, <2>5, <2>6 DEF Bijection, Injection, Surjection, IsInjective
  <2>8. Cardinality(T) = Cardinality(S)
    BY <2>3, <2>7, FS_Bijection DEF ExistsBijection
  <2> QED BY <2>8 DEF S, T
<1> QED BY <1>5, <1>6 DEF tools

(* All batches are without a loss exactly if every problem is won. *)
LEMMA RatesSay ==
  ASSUME NEW out, Whole(out)
  PROVE  (\A b \in DOMAIN rates : rates[b][1] = rates[b][2]) <=> \A p \in Problems : out[p].won
<1> DEFINE Wins(b) == {p \in ValBatch(b) : out[p].won}
<1>1. DOMAIN rates = 1 .. ValBatches
  BY DEF Whole
<1>2. \A b \in 1 .. ValBatches : rates[b][1] = Cardinality(Wins(b)) /\ rates[b][2] = Cardinality(ValBatch(b))
  BY DEF Whole, RatesOf
<1>3. \A b : ValBatch(b) \subseteq Problems /\ Wins(b) \subseteq ValBatch(b)
  BY DEF ValBatch
<1>4. \A b : IsFiniteSet(ValBatch(b))
  <2>1. IsFiniteSet(Problems)
    BY FS_Interval, SizesAssumption DEF Problems
  <2> QED BY <1>3, <2>1, FS_Subset
<1>5. \A p \in Problems : \E b \in 1 .. ValBatches : p \in ValBatch(b)
  <2> SUFFICES ASSUME NEW p \in Problems PROVE \E b \in 1 .. ValBatches : p \in ValBatch(b)
    OBVIOUS
  <2>1. PICK q : q = (p - 1) \div ValBatchSize
    OBVIOUS
  <2>2. q \in 0 .. ValBatches - 1 /\ ValBatches \in Nat
    BY <2>1, EveryBatch
  <2>3. q + 1 \in 1 .. ValBatches /\ q + 1 - 1 = q
    BY <2>2
  <2>4. p \in ValBatch(q + 1)
    BY <2>1, <2>3 DEF ValBatch
  <2> QED BY <2>3, <2>4
<1>6. ASSUME \A b \in DOMAIN rates : rates[b][1] = rates[b][2], NEW p \in Problems PROVE out[p].won
  <2>1. PICK b \in 1 .. ValBatches : p \in ValBatch(b)
    BY <1>5
  <2>2. Cardinality(ValBatch(b)) = Cardinality(Wins(b))
    BY <1>1, <1>2, <1>6
  <2>3. Wins(b) = ValBatch(b)
    <3> HIDE DEF Wins
    <3> QED BY <1>3, <1>4, <2>2, FS_Subset
  <2> QED BY <2>1, <2>3
<1>7. ASSUME \A p \in Problems : out[p].won, NEW b \in 1 .. ValBatches PROVE rates[b][1] = rates[b][2]
  <2>1. Wins(b) = ValBatch(b)
    BY <1>3, <1>7
  <2> QED BY <1>2, <2>1
<1> QED BY <1>1, <1>6, <1>7

LEMMA Extremes ==
  ASSUME NEW out, Whole(out), NEW p \in Problems
  PROVE  ToolsOf(p) \in Min({r.tools : r \in UniqueRows}) .. Max({r.tools : r \in UniqueRows})
<1> DEFINE T == {r.tools : r \in UniqueRows}
<1>1. \A q \in Problems : out[q].steps \in 1 .. MaxSteps
  BY DEF Whole, Outcomes
<1>2. T = {out[q].steps - 1 : q \in Problems}
  <2>1. UniqueRows = {First(q, out[q]) : q \in Problems}
    BY WholeRows
  <2>2. \A q \in Problems : First(q, out[q]).tools = out[q].steps - 1
    BY DEF First, tool_callings
  <2> QED BY <2>1, <2>2
<1>3. T \subseteq Nat /\ MaxSteps \in Nat /\ \A t \in T : t <= MaxSteps
  <2>1. MaxSteps \in Nat
    BY SizesAssumption
  <2>2. ASSUME NEW t \in T PROVE t \in Nat /\ t <= MaxSteps
    <3>1. PICK q \in Problems : t = out[q].steps - 1
      BY <1>2, <2>2
    <3> QED BY <1>1, <2>1, <3>1
  <2> HIDE DEF T
  <2> QED BY <2>1, <2>2
<1>4. ToolsOf(p) \in T
  BY <1>2, WholeRows
<1> HIDE DEF T
<1>5. ToolsOf(p) \in Min(T) .. Max(T)
  BY <1>3, <1>4, WithinExtremes
<1> QED BY <1>5 DEF T

LEMMA PassMeasures ==
  ASSUME PassInv, stage # "off", val_batches = ValBatches
  PROVE  EveryProblemCounts /\ val_metrics.models = {weights["actor"]}
<1>1. PICK out : Whole(out)
  BY ThroughAll DEF PassInv, PassOf, Whole
<1>2. /\ {r.problem : r \in rows} = Problems
      /\ \A r \in rows : r.model = weights["actor"]
      /\ \A p \in Problems : WonBy(p) <=> out[p].won
  BY <1>1, WholeRows
<1>3. /\ val_metrics.tool_mean = <<Cardinality(Units(UniqueRows, "tools")), Cardinality(UniqueRows)>>
      /\ val_metrics.tool_max = Max({r.tools : r \in UniqueRows})
      /\ val_metrics.tool_min = Min({r.tools : r \in UniqueRows})
      /\ val_metrics.models = {r.model : r \in rows}
  BY DEF val_metrics, Mean
<1>4. val_metrics.tool_mean = <<Cardinality(UNION {{p} \X (1 .. ToolsOf(p)) : p \in Problems}), ValSize>>
  BY <1>1, <1>3, EachOnce
<1>5. \A p \in Problems : ToolsOf(p) \in val_metrics.tool_min .. val_metrics.tool_max
  BY <1>1, <1>3, Extremes
<1>6. (\A b \in DOMAIN rates : rates[b][1] = rates[b][2]) <=> \A p \in Problems : WonBy(p)
  BY <1>1, <1>2, RatesSay
<1>7. EveryProblemCounts
  BY <1>2, <1>4, <1>5, <1>6 DEF EveryProblemCounts, ToolsOf, WonBy
<1>8. Problems # {}
  BY SizesAssumption DEF Problems
<1> QED BY <1>2, <1>3, <1>7, <1>8

----------------------------------------------------------------------------
(* What the log says of the steps *)

(* The metrics of a test wait for the log from their pass until the step is *)
(* over, and the last step does not end without them.                       *)
LogInv ==
  /\ stage = "step" => metrics = None
  /\ metrics # None => phase \in SavingPhases /\ metrics.models = {UpdatesBefore("actor", global_steps + 1)}
  /\ LoggedOfItsStep
  /\ phase \in SavingPhases /\ IsLastStep /\ TestFreq > 0 => stage = "step" \/ metrics # None
  /\ phase = "done" /\ TestFreq > 0 => logged # None /\ logged.step = global_steps - 1

LEMMA ActorRole == "actor" \in Roles
<1>1. 1 \in DOMAIN RoleOrder /\ RoleOrder[1] = "actor"
  BY DEF RoleOrder
<1> QED BY <1>1 DEF Roles

LEMMA Somewhat ==
  /\ val_metrics # None
  /\ \A s, m : Entry(s, m) # None /\ Entry(s, m).step = s /\ Entry(s, m).models = m.models
<1>1. DOMAIN None = {}
  BY DEF None
<1>2. "models" \in DOMAIN val_metrics
  BY DEF val_metrics
<1>3. \A s, m : "models" \in DOMAIN Entry(s, m)
  BY DEF Entry
<1>4. \A s, m : Entry(s, m).step = s /\ Entry(s, m).models = m.models
  BY DEF Entry
<1> QED BY <1>1, <1>2, <1>3, <1>4

LEMMA LogInductive ==
  TypeOK /\ UpdatesInv /\ PassInv /\ LogInv /\ [VNext]_vvars => LogInv'
<1> SUFFICES ASSUME TypeOK, UpdatesInv, PassInv, LogInv, [VNext]_vvars PROVE LogInv'
  OBVIOUS
<1>0. global_steps \in Nat
  BY DEF TypeOK
<1>1. CASE VStart
  <2>1. metrics' = None /\ logged' = logged /\ phase' \in {"step", "failed"}
    BY <1>1 DEF VStart, StartFromScratch, StartFromCheckpoint, StartFails
  <2> QED BY <2>1 DEF LogInv, LoggedOfItsStep, SavingPhases
<1>2. CASE VTrainStep
  <2>1. /\ metrics' = metrics /\ logged' = logged /\ phase = "step" /\ phase' \in {"rotate", "next"}
        /\ global_steps' = global_steps
    BY <1>2 DEF VTrainStep, TrainStep, reports
  <2>2. metrics = None
    BY <2>1 DEF LogInv, SavingPhases
  <2>3. IsLastStep' <=> IsLastStep
    BY <2>1 DEF IsLastStep
  <2>4. ASSUME IsLastStep, TestFreq > 0 PROVE stage' = "step"
    BY <1>2, <2>4 DEF VTrainStep, TestNow, Validate
  <2> QED BY <2>1, <2>2, <2>3, <2>4 DEF LogInv, LoggedOfItsStep
<1>3. CASE VSave
  <2>1. /\ metrics' = metrics /\ logged' = logged /\ stage' = stage /\ global_steps' = global_steps
        /\ phase \in SavingPhases /\ phase' \in SavingPhases
    BY <1>3 DEF VSave, Rotate, WriteShard, Saved, SaveData, OpenTracker, WriteTracker, memory, validating, reports,
                SavingPhases
  <2>2. IsLastStep' <=> IsLastStep
    BY <2>1 DEF IsLastStep
  <2> QED BY <2>1, <2>2 DEF LogInv, LoggedOfItsStep, SavingPhases
<1>4. CASE VNextEpoch
  <2>1. /\ metrics' = metrics /\ logged' = logged /\ stage' = stage /\ global_steps' = global_steps
        /\ phase = "step" /\ phase' \in {"step", "exhausted"}
    BY <1>4 DEF VNextEpoch, NextEpoch, validating, reports
  <2> QED BY <2>1 DEF LogInv, LoggedOfItsStep, SavingPhases
<1>5. CASE VEndStep
  <2>1. /\ metrics' = None /\ stage' = "off" /\ stage = "off" /\ phase = "next" /\ phase' \in {"step", "done"}
        /\ phase' = "done" => IsLastStep
        /\ global_steps' = global_steps + 1
        /\ logged' = IF metrics = None THEN logged ELSE Entry(global_steps, metrics)
    BY <1>5 DEF VEndStep, EndStep, Idle
  <2>2. LoggedOfItsStep'
    BY <2>1, Somewhat DEF LogInv, LoggedOfItsStep
  <2>3. ASSUME phase' = "done", TestFreq > 0 PROVE logged' # None /\ logged'.step = global_steps' - 1
    <3>1. metrics # None
      BY <2>1, <2>3 DEF LogInv, SavingPhases
    <3>2. global_steps' - 1 = global_steps
      BY <1>0, <2>1
    <3> QED BY <2>1, <3>1, <3>2, Somewhat
  <2> QED BY <2>1, <2>2, <2>3 DEF LogInv, SavingPhases
<1>6. CASE VCrash
  <2>1. metrics' = None /\ logged' = logged /\ phase' = "down"
    BY <1>6 DEF VCrash, Crash
  <2> QED BY <2>1 DEF LogInv, LoggedOfItsStep, SavingPhases
<1>7. CASE ValidateBatch
  <2>1. UNCHANGED <<metrics, logged, phase, global_steps, stage>>
    BY <1>7 DEF ValidateBatch, vars, memory, reports
  <2> QED BY <2>1 DEF LogInv, LoggedOfItsStep, IsLastStep
<1>8. CASE EndInitialValidation
  <2>1. /\ stage = "before" /\ val_batches = ValBatches /\ stage' = "off" /\ metrics' = metrics
        /\ logged' = Entry(global_steps - 1, val_metrics)
        /\ phase' \in {phase, "down"}
    BY <1>8 DEF EndInitialValidation, Idle, StepBefore, Crash, vars
  <2>2. phase = "step"
    BY <2>1 DEF PassInv
  <2>3. metrics = None
    BY <2>2 DEF LogInv, SavingPhases
  <2>4. val_metrics.models = {UpdatesBefore("actor", global_steps)}
    BY <2>1, <2>2, PassMeasures, ActorRole DEF UpdatesInv
  <2>5. global_steps - 1 + 1 = global_steps
    BY <1>0
  <2>6. LoggedOfItsStep'
    BY <2>1, <2>4, <2>5, Somewhat DEF LoggedOfItsStep
  <2> QED BY <2>1, <2>2, <2>3, <2>6 DEF LogInv, SavingPhases
<1>9. CASE EndTest
  <2>1. /\ stage = "step" /\ val_batches = ValBatches /\ metrics' = val_metrics /\ stage' = "off"
        /\ UNCHANGED <<logged, phase, global_steps>>
    BY <1>9 DEF EndTest, Idle, vars, memory
  <2>2. phase \in {"rotate", "next"}
    BY <2>1 DEF PassInv
  <2>3. val_metrics.models = {UpdatesBefore("actor", global_steps + 1)}
    BY <2>1, <2>2, PassMeasures, ActorRole DEF UpdatesInv, SavingPhases
  <2>4. metrics' # None
    BY <2>1, Somewhat
  <2> QED BY <2>1, <2>2, <2>3, <2>4 DEF LogInv, LoggedOfItsStep, SavingPhases
<1>10. CASE UNCHANGED vvars
  <2>1. UNCHANGED <<metrics, logged, phase, global_steps, stage>>
    BY <1>10 DEF vvars, vars, memory, validating, reports
  <2> QED BY <2>1 DEF LogInv, LoggedOfItsStep, IsLastStep
<1> QED BY <1>1, <1>2, <1>3, <1>4, <1>5, <1>6, <1>7, <1>8, <1>9, <1>10 DEF VNext

(* Resuming automatically: a pass counts every problem of the validation    *)
(* data once, the log has the metrics of a step beside the step whose model *)
(* they were measured on, and when fit returns, the checkpoint that is left *)
(* is the model the last validation measured.                               *)
THEOREM ValidationRight ==
  ASSUME ResumeModes \subseteq {"auto"}
  PROVE  VSpec => []Validated
<1>1. VInit => PassInv /\ LogInv /\ TrackerInv /\ UpdatesInv /\ SavedInv
  BY DEF VInit, Init, PassInv, LogInv, LoggedOfItsStep, TrackerInv, UpdatesInv, SavedInv, SavingPhases, NoTracker
<1>2. Spec => [](TypeOK /\ UpdatesInv /\ SavedInv)
  <2>1. Init => TrackerInv /\ UpdatesInv /\ SavedInv
    BY DEF Init, TrackerInv, UpdatesInv, SavedInv, SavingPhases, NoTracker
  <2> QED BY <2>1, TypeCorrect, TrackerInductive, UpdatesInductive, SavedInductive, PTL DEF Spec
<1>3. VSpec => [](PassInv /\ LogInv)
  BY <1>1, <1>2, ValidationKeepsTraining, PassInductive, LogInductive, PTL DEF VSpec
<1>4. TypeOK /\ UpdatesInv /\ SavedInv /\ PassInv /\ LogInv => Validated
  <2> SUFFICES ASSUME TypeOK, UpdatesInv, SavedInv, PassInv, LogInv PROVE Validated
    OBVIOUS
  <2>1. EveryProblemCounts
    <3>1. CASE stage # "off" /\ val_batches = ValBatches
      BY <3>1, PassMeasures
    <3>2. CASE ~(stage # "off" /\ val_batches = ValBatches)
      BY <3>2 DEF EveryProblemCounts
    <3> QED BY <3>1, <3>2
  <2>2. LoggedOfItsStep
    BY DEF LogInv
  <2>3. LastModelValidated
    <3> SUFFICES ASSUME phase = "done", TestFreq > 0, NEW k \in Ranks, NEW f \in ShardsOf("actor", tracker, k)
                 PROVE  logged # None /\ logged.step = tracker /\ {f.weights} = logged.models
      <4>1. ASSUME phase = "done", TestFreq > 0 PROVE logged # None /\ logged.step = tracker
        BY <4>1 DEF LogInv, SavedInv
      <4> QED BY <4>1 DEF LastModelValidated
    <3>1. logged # None /\ logged.step = tracker
      BY DEF LogInv, SavedInv
    <3>2. f.weights = UpdatesBefore("actor", tracker + 1)
      BY DEF ShardsOf, UpdatesInv
    <3>3. logged.models = {UpdatesBefore("actor", tracker + 1)}
      BY <3>1 DEF LogInv, LoggedOfItsStep
    <3> QED BY <3>1, <3>2, <3>3
  <2> QED BY <2>1, <2>2, <2>3 DEF Validated
<1> QED BY <1>2, <1>3, <1>4, ValidationKeepsTraining, PTL
=============================================================================
