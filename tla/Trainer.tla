------------------------------- MODULE Trainer -------------------------------
(***************************************************************************)
(* RayPPOTrainer.fit with its checkpoints: the training loop over epochs   *)
(* and batches, _save_checkpoint with the ranks' FSDPCheckpointManagers    *)
(* and their rotation of old checkpoints, _load_checkpoint, and a process  *)
(* that can crash between any two of their effects and be started again.   *)
(*                                                                         *)
(* A shard file is a record of the run that wrote it and of the number of  *)
(* updates its weights had; what else a file holds is left out.            *)
(***************************************************************************)
EXTENDS Integers, Sequences, FiniteSets

CONSTANTS
  Ranks,         \* the FSDP ranks of a worker group
  UseCritic,     \* use_critic
  KeepActor, KeepCritic,   \* max_actor_ckpt_to_keep, ...critic...; 0 for null
  ResumeModes,   \* what trainer.resume_mode is set to at some start
  SaveFreq,      \* trainer.save_freq
  TotalSteps,    \* total_training_steps
  TotalEpochs,   \* trainer.total_epochs
  BatchesPerEpoch,  \* len(train_dataloader)
  CriticWarmup,  \* trainer.critic_warmup
  MaxRuns        \* bound: times the program is started

ASSUME RanksAssumption == IsFiniteSet(Ranks) /\ Ranks # {}

ASSUME ConfigAssumption ==
  /\ UseCritic \in BOOLEAN
  /\ KeepActor \in Nat /\ KeepCritic \in Nat /\ CriticWarmup \in Nat /\ MaxRuns \in Nat
  /\ ResumeModes \subseteq {"auto", "disable"}
  /\ SaveFreq \in Nat \ {0} /\ TotalSteps \in Nat \ {0}
  /\ TotalEpochs \in Nat \ {0} /\ BatchesPerEpoch \in Nat \ {0}

(* The worker groups in the order they are saved. *)
RoleOrder == IF UseCritic THEN <<"actor", "critic">> ELSE <<"actor">>
Roles == {RoleOrder[i] : i \in DOMAIN RoleOrder}
Keep(role) == IF role = "actor" THEN KeepActor ELSE KeepCritic

NoTracker == 0
Torn == -1      \* the tracker file exists and is empty

VARIABLES
  phase,
  global_steps, epoch, pos,  \* pos: batches the dataloader has yielded in this epoch
  weights,                   \* updates each role's model has had
  previous_saved_paths,      \* per role, in memory
  ri, written,               \* the role being saved, and the ranks past torch.save
  run,                       \* times the program was started
  files, data, tracker       \* on disk

memory == <<global_steps, epoch, pos, weights, previous_saved_paths>>
saving == <<ri, written>>
disk == <<files, data, tracker>>
vars == <<phase, memory, saving, run, disk>>

Init ==
  /\ phase = "down"
  /\ global_steps = 0 /\ epoch = 0 /\ pos = 0
  /\ weights = [role \in Roles |-> 0]
  /\ previous_saved_paths = [role \in Roles |-> <<>>]
  /\ ri = 1 /\ written = {}
  /\ run = 0
  /\ files = {} /\ data = {} /\ tracker = NoTracker

----------------------------------------------------------------------------
(* _load_checkpoint and the start of fit *)

ShardsOf(role, s, k) == {f \in files : f.role = role /\ f.step = s /\ f.rank = k}

Loadable(s) == \A role \in Roles : \A k \in Ranks : ShardsOf(role, s, k) # {}

(* A new process: nothing of the old one's memory is left. *)
FreshProcess ==
  /\ run < MaxRuns
  /\ run' = run + 1
  /\ previous_saved_paths' = [role \in Roles |-> <<>>]
  /\ epoch' = 0
  /\ ri' = 1 /\ written' = {}
  /\ UNCHANGED disk

StartFromScratch(mode) ==
  /\ phase \in {"down", "done", "exhausted"}
  /\ mode = "auto" => tracker = NoTracker
  /\ FreshProcess
  /\ phase' = "step"
  /\ global_steps' = 1
  /\ pos' = 0
  /\ weights' = [role \in Roles |-> 0]

(* Mutant: the step counter restarts at the step that was saved. *)
ResumeAt(s) == global_steps' = s

(* global_steps comes from the folder's name, fit adds one. *)
NextStepAfter(s) == global_steps' = s + 1

DataSaved(s) == {d \in data : d.step = s}

(* data.pt gives the position; without it the dataloader starts over. *)
LoadedPositions(s) == IF DataSaved(s) = {} THEN {0} ELSE {d.pos : d \in DataSaved(s)}

StartFromCheckpoint(mode) ==
  /\ phase \in {"down", "done", "exhausted"}
  /\ mode = "auto" /\ tracker \notin {NoTracker, Torn}
  /\ Loadable(tracker)
  /\ FreshProcess
  /\ phase' = "step"
  /\ NextStepAfter(tracker)
  /\ \E chosen \in [Roles -> files] :
       /\ \A role \in Roles : \E k \in Ranks : chosen[role] \in ShardsOf(role, tracker, k)
       /\ weights' = [role \in Roles |-> chosen[role].weights]
  /\ pos' \in LoadedPositions(tracker)

(* int('') or a missing shard raises, at every later start too. *)
StartFails(mode) ==
  /\ phase \in {"down", "done", "exhausted"}
  /\ mode = "auto" /\ tracker # NoTracker
  /\ tracker = Torn \/ ~Loadable(tracker)
  /\ FreshProcess
  /\ phase' = "failed"
  /\ UNCHANGED <<global_steps, pos, weights>>

----------------------------------------------------------------------------
(* fit *)

IsLastStep == global_steps >= TotalSteps

(* Mutant: "and" for "or". *)
SaveOnlyLast == IsLastStep /\ global_steps % SaveFreq = 0

SaveNow == IsLastStep \/ global_steps % SaveFreq = 0

(* critic_warmup: until then only the critic is updated. *)
Updates(role, s) == role = "critic" \/ CriticWarmup <= s

(* The next batch: rollout, advantages, the critic's and the actor's update. *)
TrainStep ==
  /\ phase = "step"
  /\ pos < BatchesPerEpoch
  /\ pos' = pos + 1
  /\ weights' = [role \in Roles |-> weights[role] + (IF Updates(role, global_steps) THEN 1 ELSE 0)]
  /\ phase' = IF SaveNow THEN "rotate" ELSE "next"
  /\ ri' = 1
  /\ UNCHANGED <<global_steps, epoch, previous_saved_paths, written, run, disk>>

(* global_steps += 1, and return after the last step. *)
EndStep ==
  /\ phase = "next"
  /\ global_steps' = global_steps + 1
  /\ phase' = IF IsLastStep THEN "done" ELSE "step"
  /\ UNCHANGED <<epoch, pos, weights, previous_saved_paths, saving, run, disk>>

(* The dataloader is exhausted: the next epoch, or the end of fit. *)
NextEpoch ==
  /\ phase = "step"
  /\ pos = BatchesPerEpoch
  /\ epoch' = epoch + 1
  /\ \/ epoch' < TotalEpochs /\ pos' = 0 /\ phase' = "step"
     \/ epoch' = TotalEpochs /\ pos' = pos /\ phase' = "exhausted"
  /\ UNCHANGED <<global_steps, weights, previous_saved_paths, saving, run, disk>>

----------------------------------------------------------------------------
(* _save_checkpoint *)

Role == RoleOrder[ri]

LastRole == ri = Len(RoleOrder)

(* Mutant: one path too many is removed. *)
RemoveOneMore(role) ==
  IF Keep(role) > 0 /\ Len(previous_saved_paths[role]) >= Keep(role)
  THEN Len(previous_saved_paths[role]) - Keep(role) + 2
  ELSE 0

(* How many of the oldest paths go: keep_start, or none. *)
KeepStart(role) ==
  IF Keep(role) > 0 /\ Len(previous_saved_paths[role]) >= Keep(role)
  THEN Len(previous_saved_paths[role]) - Keep(role) + 1
  ELSE 0

Removed(role) == {previous_saved_paths[role][i] : i \in 1 .. KeepStart(role)}

(* Every rank removes the same directories, before the first barrier. *)
Rotate ==
  /\ phase = "rotate"
  /\ files' = {f \in files : ~(f.role = Role /\ f.step \in Removed(Role))}
  /\ previous_saved_paths' =
       [previous_saved_paths EXCEPT ![Role] = SubSeq(@, KeepStart(Role) + 1, Len(@))]
  /\ phase' = "shards"
  /\ written' = {}
  /\ UNCHANGED <<global_steps, epoch, pos, weights, ri, run, data, tracker>>

Shard(k) ==
  [role |-> Role, step |-> global_steps, rank |-> k, run |-> run, weights |-> weights[Role]]

(* torch.save of one rank, over what an earlier run may have left there. *)
WriteShard(k) ==
  /\ phase = "shards"
  /\ k \notin written
  /\ written' = written \cup {k}
  /\ files' = (files \ ShardsOf(Role, global_steps, k)) \cup {Shard(k)}
  /\ UNCHANGED <<phase, memory, ri, run, data, tracker>>

AllWritten == written = Ranks

(* The last barrier; the path is recorded and the next role is saved. *)
Saved ==
  /\ phase = "shards"
  /\ AllWritten
  /\ previous_saved_paths' = [previous_saved_paths EXCEPT ![Role] = Append(@, global_steps)]
  /\ \/ ~LastRole /\ ri' = ri + 1 /\ phase' = "rotate"
     \/ LastRole /\ ri' = ri /\ phase' = "data"
  /\ UNCHANGED <<global_steps, epoch, pos, weights, written, run, disk>>

SaveData ==
  /\ phase = "data"
  /\ data' = (data \ DataSaved(global_steps)) \cup {[step |-> global_steps, run |-> run, pos |-> pos]}
  /\ phase' = "open"
  /\ UNCHANGED <<memory, saving, run, files, tracker>>

(* open(..., "w") truncates the tracker ... *)
OpenTracker ==
  /\ phase = "open"
  /\ tracker' = Torn
  /\ phase' = "write"
  /\ UNCHANGED <<memory, saving, run, files, data>>

(* ... and the step is in it once the file is closed. *)
WriteTracker ==
  /\ phase = "write"
  /\ tracker' = global_steps
  /\ phase' = "next"
  /\ UNCHANGED <<memory, saving, run, files, data>>

----------------------------------------------------------------------------
(* The process dies, at any point. *)
Crash ==
  /\ phase \notin {"down", "failed", "done", "exhausted"}
  /\ phase' = "down"
  /\ UNCHANGED <<memory, saving, run, disk>>

Next ==
  \/ \E mode \in ResumeModes :
       StartFromScratch(mode) \/ StartFromCheckpoint(mode) \/ StartFails(mode)
  \/ TrainStep \/ EndStep \/ NextEpoch
  \/ Rotate \/ (\E k \in Ranks : WriteShard(k)) \/ Saved \/ SaveData \/ OpenTracker \/ WriteTracker
  \/ Crash

Spec == Init /\ [][Next]_vars
----------------------------------------------------------------------------
(* Properties *)

Files == [role : Roles, step : Nat, rank : Ranks, run : Nat, weights : Nat]

TypeOK ==
  /\ phase \in {"down", "step", "next", "rotate", "shards", "data", "open", "write",
                "done", "exhausted", "failed"}
  /\ global_steps \in Nat /\ epoch \in 0 .. TotalEpochs /\ pos \in 0 .. BatchesPerEpoch
  /\ weights \in [Roles -> Nat]
  /\ previous_saved_paths \in [Roles -> Seq(Nat)]
  /\ ri \in DOMAIN RoleOrder /\ written \subseteq Ranks
  /\ run \in 0 .. MaxRuns
  /\ files \subseteq Files
  /\ data \subseteq [step : Nat, run : Nat, pos : 0 .. BatchesPerEpoch]
  /\ tracker \in Nat \cup {Torn}

(* Step s is on disk whole: every role's shard of every rank and the        *)
(* dataloader's state, all written by the same run.                         *)
Complete(s) ==
  \E r \in 1 .. run :
    /\ \A role \in Roles : \A k \in Ranks :
         ShardsOf(role, s, k) # {} /\ \A f \in ShardsOf(role, s, k) : f.run = r
    /\ DataSaved(s) # {} /\ \A d \in DataSaved(s) : d.run = r

(* Whenever the process dies, the checkpoint the tracker names is whole.    *)
(* Rotation deletes before the new checkpoint is written and the tracker is *)
(* written last, so this needs a checkpoint more than the one being made.   *)
Recoverable == tracker \notin {NoTracker, Torn} => Complete(tracker)

UpdatesBefore(role, s) == Cardinality({t \in 1 .. s - 1 : Updates(role, t)})

(* However often training was interrupted, step s starts from weights with  *)
(* the updates of the steps before s, and from batch s of the data.         *)
ResumesWhereItStopped ==
  phase = "step" =>
    /\ \A role \in Roles : weights[role] = UpdatesBefore(role, global_steps)
    /\ pos % BatchesPerEpoch = (global_steps - 1) % BatchesPerEpoch

(* A crash costs at most SaveFreq steps. *)
LossBounded ==
  phase \in {"step", "rotate", "shards", "data", "open"} /\ tracker # Torn =>
    global_steps - tracker <= SaveFreq

(* fit returns after its last step only with that step saved. *)
FinishedMeansSaved == phase = "done" => tracker = global_steps - 1

(* Steps whose updates are in memory: none of its own once the process died. *)
Completed ==
  IF phase \in {"down", "failed"} THEN tracker
  ELSE IF phase \in {"step", "done", "exhausted"} THEN global_steps - 1
  ELSE global_steps

(* Training with crashes implements durable progress. *)
D == INSTANCE DurableProgress WITH Unreadable <- Torn, durable <- tracker, volatile <- Completed

Durable == D!DurableSpec

(* A crash costs at most SaveFreq steps, and a run that ends well none.     *)
SavedInTime == LossBounded /\ FinishedMeansSaved

(* An interrupted run goes on from exactly the step, the weights and the    *)
(* data its checkpoint has, and that was at most SaveFreq steps ago.        *)
NothingLost == ResumesWhereItStopped /\ SavedInTime
=============================================================================
