---------------------------- MODULE HybridWorker ----------------------------
(***************************************************************************)
(* The process of one GPU, in which the actor, the critic and the          *)
(* reference model and the inference engine are colocated, under the calls *)
(* the trainer makes in a run: how the memory of the GPU, the weights of   *)
(* the engine, the random state and the sequence-parallel group are handed *)
(* from call to call.  All GPUs do the same, so one of each generation     *)
(* group stands for its group; the groups differ in their random state.    *)
(*                                                                         *)
(* Weights are [base, adapter], each the number of updates it has seen; a  *)
(* base of NoWeights is one the engine drew at random.  A random state is  *)
(* [stream, drawn].                                                        *)
(***************************************************************************)
EXTENDS Integers

CONSTANTS
  GenerationGroups, \* groups of GPUs that generate together: their dp ranks
  MaxUpdates,    \* bound: updates of the actor
  MaxGenerations,\* bound: generations since a start
  MaxRestarts    \* bound: restarts

ASSUME GroupsAssumption == GenerationGroups \subseteq Nat
ASSUME BoundsAssumption == MaxUpdates \in Nat /\ MaxGenerations \in Nat /\ MaxRestarts \in Nat

NoWeights == -1

Models == {"actor", "critic", "ref"}

VARIABLES
  config,    \* backend, engine, offload flags, LoRA, load format, Ulysses
  last,      \* the call that returned last
  call,      \* the call being served
  activity,  \* "idle", "syncing", "waking", "generating", "computing", "leaving"
  place,     \* of the parts of each model
  weights,   \* the actor's
  saved,     \* the actor's, in the last checkpoint; base NoWeights: none
  saved_rng, \* the random state in it
  engine,    \* what of the engine is on the GPU: "asleep", "weights", "awake"
  loaded,    \* the engine's weights
  base_sync_done,
  rng,       \* of a group: its GPUs' random state
  torch_random_states, gen_random_states,
  sp_group,  \* the process's sequence-parallel group
  prev_sp_group,
  generations, \* history: generations since the start,
  draws,       \* training draws of the run the checkpoints carry on,
  saved_draws, \* those made before the last one
  restarts

workerVars == <<config, last, call, activity, place, weights, saved, saved_rng, saved_draws, engine, loaded, base_sync_done, rng,
          torch_random_states, gen_random_states, sp_group, prev_sp_group, generations, draws, restarts>>

savedVars == <<saved, saved_rng, saved_draws>>
randomVars == <<rng, torch_random_states, gen_random_states, generations, draws>>
engineVars == <<engine, loaded, base_sync_done>>
groupVars == <<sp_group, prev_sp_group>>

(* Ulysses and LoRA are FSDP's; LoRA needs the current vLLM. *)
Configs ==
  {c \in [backend : {"fsdp", "megatron"}, engine : {"vllm", "vllm_0_6_3", "sglang"}, param_offload : BOOLEAN,
          optimizer_offload : BOOLEAN, lora : BOOLEAN, dummy : BOOLEAN, ulysses : SUBSET {"actor", "critic"}] :
     /\ c.lora => c.backend = "fsdp" /\ c.engine = "vllm"
     /\ c.backend = "megatron" => c.ulysses = {}}

Fsdp == config.backend = "fsdp"
----------------------------------------------------------------------------
(* Where the parts of one model lie, and what the offload and load helpers  *)
(* of the two training backends do to them.  A model has parameters, the    *)
(* gradient buffers of Megatron, which an offload frees (FSDP's gradients   *)
(* end with the update), and the optimizer's state, "none" before its first *)
(* step.                                                                    *)

Places == [params : {"gpu", "cpu"}, grads : {"none", "gpu"}, optim : {"none", "gpu", "cpu"}]

OffloadFsdpModel(p) == [p EXCEPT !.params = "cpu"]

LoadFsdpModel(p) == [p EXCEPT !.params = "gpu"]

OffloadFsdpOptimizer(p) == IF p.optim = "none" THEN p ELSE [p EXCEPT !.optim = "cpu"]

LoadFsdpOptimizer(p) == IF p.optim = "none" THEN p ELSE [p EXCEPT !.optim = "gpu"]

(* The storages are resized to nothing, the gradients' without a copy. *)
OffloadMegatronModel(p) == [p EXCEPT !.params = "cpu", !.grads = "none"]

LoadMegatronModel(p, load_grad) ==
  [p EXCEPT !.params = "gpu", !.grads = IF load_grad THEN "gpu" ELSE p.grads]

OffloadMegatronOptimizer(p) == IF p.optim = "none" THEN p ELSE [p EXCEPT !.optim = "cpu"]

LoadMegatronOptimizer(p) == IF p.optim = "none" THEN p ELSE [p EXCEPT !.optim = "gpu"]
----------------------------------------------------------------------------
(* The handlers: the model a call is about, whether its optimizer and, with *)
(* Megatron, its gradients are loaded for it.                               *)

Handler(m, optim, grads) == [model |-> m, optim |-> optim, grads |-> grads]

fsdp_update_actor == Handler("actor", TRUE, FALSE)
fsdp_compute_log_prob == Handler("actor", FALSE, FALSE)
(* With LoRA the actor without its adapter is the reference. *)
fsdp_compute_ref_log_prob == IF config.lora THEN fsdp_compute_log_prob ELSE Handler("ref", FALSE, FALSE)
fsdp_compute_values == Handler("critic", FALSE, FALSE)
fsdp_update_critic == Handler("critic", TRUE, FALSE)
fsdp_save_actor == Handler("actor", FALSE, FALSE)
fsdp_load_actor == Handler("actor", FALSE, FALSE)
fsdp_save_critic == Handler("critic", FALSE, FALSE)
fsdp_load_critic == Handler("critic", FALSE, FALSE)

megatron_update_actor == Handler("actor", TRUE, TRUE)
megatron_compute_log_prob == Handler("actor", FALSE, FALSE)
megatron_compute_ref_log_prob == Handler("ref", FALSE, FALSE)
megatron_compute_values == Handler("critic", FALSE, TRUE)
megatron_update_critic == Handler("critic", TRUE, TRUE)
megatron_save_actor == Handler("actor", FALSE, TRUE)
megatron_load_actor == Handler("actor", FALSE, TRUE)
megatron_save_critic == Handler("critic", FALSE, TRUE)
megatron_load_critic == Handler("critic", FALSE, TRUE)

Handlers ==
  [update_actor |-> IF Fsdp THEN fsdp_update_actor ELSE megatron_update_actor,
   compute_log_prob |-> IF Fsdp THEN fsdp_compute_log_prob ELSE megatron_compute_log_prob,
   compute_ref_log_prob |-> IF Fsdp THEN fsdp_compute_ref_log_prob ELSE megatron_compute_ref_log_prob,
   compute_values |-> IF Fsdp THEN fsdp_compute_values ELSE megatron_compute_values,
   update_critic |-> IF Fsdp THEN fsdp_update_critic ELSE megatron_update_critic,
   save_actor |-> IF Fsdp THEN fsdp_save_actor ELSE megatron_save_actor,
   load_actor |-> IF Fsdp THEN fsdp_load_actor ELSE megatron_load_actor,
   save_critic |-> IF Fsdp THEN fsdp_save_critic ELSE megatron_save_critic,
   load_critic |-> IF Fsdp THEN fsdp_load_critic ELSE megatron_load_critic]

Generating == {"generate_sequences", "validate"}
Updating == {"update_actor", "update_critic"}
Passing == {"compute_log_prob", "compute_ref_log_prob", "compute_values"} \cup Updating
Loading == {"load_actor", "load_critic"}

(* The reference model is loaded by FSDP itself, layer by layer. *)
Offloads(m) == config.param_offload /\ (m = "ref" => ~Fsdp)

LoadModel(p, grads) == IF Fsdp THEN LoadFsdpModel(p) ELSE LoadMegatronModel(p, grads)
OffloadModel(m, p) ==
  IF Fsdp THEN OffloadFsdpModel(p)
  ELSE IF m = "ref" THEN [p EXCEPT !.params = "cpu"] ELSE OffloadMegatronModel(p)
LoadOptimizer(p) == IF Fsdp THEN LoadFsdpOptimizer(p) ELSE LoadMegatronOptimizer(p)
OffloadOptimizer(p) == IF Fsdp THEN OffloadFsdpOptimizer(p) ELSE OffloadMegatronOptimizer(p)
----------------------------------------------------------------------------
(* A start: the constructors and init_model of all workers. *)

BuiltFsdp(m, c) ==
  [params |-> IF c.param_offload \/ m = "ref" THEN "cpu" ELSE "gpu", grads |-> "none", optim |-> "none"]

(* The gradient buffers come with the model and go with its first offload. *)
BuiltMegatron(m, c) ==
  [params |-> IF c.param_offload THEN "cpu" ELSE "gpu",
   grads |-> IF m = "ref" \/ c.param_offload THEN "none" ELSE "gpu", optim |-> "none"]

Built(c) == [m \in Models |-> IF c.backend = "fsdp" THEN BuiltFsdp(m, c) ELSE BuiltMegatron(m, c)]

FirstWeights == [base |-> 0, adapter |-> 0]

(* The engine is asleep when its constructor returns; a dummy load format   *)
(* gives it random weights.                                                 *)
BuiltEngine(c) == [base |-> IF c.dummy THEN NoWeights ELSE 0, adapter |-> 0]

Seeded == [g \in GenerationGroups |-> [stream |-> g, drawn |-> 0]]
TrainSeeded == [g \in GenerationGroups |-> [stream |-> NoWeights, drawn |-> 0]]

WorkerInit ==
  /\ config \in Configs
  /\ last = "init_model" /\ call = "init_model" /\ activity = "idle"
  /\ place = Built(config)
  /\ weights = FirstWeights /\ saved = [base |-> NoWeights, adapter |-> 0]
  /\ saved_rng = TrainSeeded /\ saved_draws = 0
  /\ engine = "asleep" /\ loaded = BuiltEngine(config) /\ base_sync_done = ~config.dummy
  /\ rng = TrainSeeded /\ torch_random_states = TrainSeeded /\ gen_random_states = Seeded
  /\ sp_group = "none" /\ prev_sp_group = "none"
  /\ generations = 0 /\ draws = 0 /\ restarts = 0

(* The job is started again, with the last checkpoint: the trainer lost all *)
(* its processes.                                                           *)
Restart ==
  /\ restarts < MaxRestarts
  /\ restarts' = restarts + 1
  /\ last' = "init_model" /\ call' = "init_model" /\ activity' = "idle"
  /\ place' = Built(config) /\ weights' = FirstWeights
  /\ engine' = "asleep" /\ loaded' = BuiltEngine(config) /\ base_sync_done' = ~config.dummy
  /\ rng' = TrainSeeded /\ torch_random_states' = TrainSeeded /\ gen_random_states' = Seeded
  /\ sp_group' = "none" /\ prev_sp_group' = "none"
  /\ generations' = 0 /\ draws' = 0
  /\ UNCHANGED <<config, savedVars>>

(* The calls fit may make after another: a rollout generates turn by turn,  *)
(* the actor is left out while the critic warms up, validation and saving   *)
(* are every so many steps.                                                 *)
AfterStep == {"generate_sequences", "validate", "save_actor"}

After(c) ==
  CASE c = "init_model" -> IF saved.base = NoWeights THEN Generating ELSE {"load_actor"}
    [] c = "load_actor" -> {"load_critic"}
    [] c = "load_critic" -> Generating
    [] c = "generate_sequences" -> {"generate_sequences", "compute_log_prob"}
    [] c = "compute_log_prob" -> {"compute_ref_log_prob"}
    [] c = "compute_ref_log_prob" -> {"compute_values"}
    [] c = "compute_values" -> {"update_critic"}
    [] c = "update_critic" -> {"update_actor"} \cup AfterStep
    [] c = "update_actor" -> AfterStep
    [] c = "validate" -> AfterStep
    [] c = "save_actor" -> {"save_critic"}
    [] c = "save_critic" -> {"generate_sequences"}
----------------------------------------------------------------------------
(* Generation *)

(* FSDP's manager loads the parameters as it is entered, Megatron's worker  *)
(* before it enters its manager.                                            *)
EnterGeneration(c) ==
  /\ activity = "idle" /\ c \in After(last) \cap Generating /\ generations < MaxGenerations
  /\ call' = c /\ activity' = "syncing"
  /\ place' = IF config.param_offload
              THEN [place EXCEPT !["actor"] = LoadModel(place["actor"], TRUE)] ELSE place
  /\ UNCHANGED <<config, last, weights, savedVars, engineVars, randomVars, groupVars, restarts>>

(* The sharding managers, one for each backend and engine: what of the      *)
(* engine is on the GPU when the weights go in (the old vLLM and SGLang     *)
(* wake up whole), whether entering and leaving swap the random state, and  *)
(* whether entering offloads the actor's parameters again.                  *)
fsdp_vllm == [woken |-> "weights", swaps |-> TRUE, offloads |-> TRUE]
fsdp_vllm_0_6_3 == [woken |-> "awake", swaps |-> TRUE, offloads |-> FALSE]
fsdp_sglang == [woken |-> "awake", swaps |-> TRUE, offloads |-> TRUE]
megatron_vllm == [woken |-> "weights", swaps |-> FALSE, offloads |-> FALSE]
megatron_vllm_0_6_3 == [woken |-> "awake", swaps |-> FALSE, offloads |-> FALSE]
megatron_sglang == [woken |-> "awake", swaps |-> TRUE, offloads |-> FALSE]

Manager ==
  CASE config.engine = "vllm" -> IF Fsdp THEN fsdp_vllm ELSE megatron_vllm
    [] config.engine = "vllm_0_6_3" -> IF Fsdp THEN fsdp_vllm_0_6_3 ELSE megatron_vllm_0_6_3
    [] config.engine = "sglang" -> IF Fsdp THEN fsdp_sglang ELSE megatron_sglang

(* Mutant: a base the engine has once been given is not given again. *)
SyncedOnce ==
  IF base_sync_done THEN [loaded EXCEPT !.adapter = weights.adapter] ELSE [base |-> weights.base, adapter |-> 0]

(* update_params: with LoRA the adapter alone once the engine has the base, *)
(* the base without adapter before; else all weights.                       *)
Synced ==
  CASE config.lora /\ base_sync_done -> [loaded EXCEPT !.adapter = weights.adapter]
    [] config.lora /\ ~base_sync_done -> [base |-> weights.base, adapter |-> 0]
    [] ~config.lora -> weights

SyncWeights ==
  /\ activity = "syncing"
  /\ engine' = Manager.woken
  /\ loaded' = Synced
  /\ base_sync_done' = TRUE
  /\ activity' = "waking"
  /\ UNCHANGED <<config, last, call, place, weights, savedVars, randomVars, groupVars, restarts>>

(* The actor's parameters are offloaded by its manager or, with Megatron,   *)
(* by its worker, which looks after the optimizer too.                      *)
MakeRoom ==
  LET actor == place["actor"]
      rest == IF config.param_offload /\ (Manager.offloads \/ ~Fsdp) THEN OffloadModel("actor", actor) ELSE actor
  IN  [place EXCEPT !["actor"] = IF ~Fsdp /\ config.optimizer_offload THEN OffloadOptimizer(rest) ELSE rest]

(* The parameters go, the KV cache comes, and the random state is the       *)
(* generation's.  (Megatron's worker offloads when its manager is entered,  *)
(* that is after the KV cache has come.)                                    *)
WakeUp ==
  /\ activity = "waking"
  /\ place' = MakeRoom
  /\ engine' = "awake"
  /\ IF Manager.swaps THEN torch_random_states' = rng /\ rng' = gen_random_states
              ELSE UNCHANGED <<torch_random_states, rng>>
  /\ activity' = "generating"
  /\ UNCHANGED <<config, last, call, weights, savedVars, loaded, base_sync_done, gen_random_states, groupVars,
                 generations, draws, restarts>>

Drawn(r) == [g \in GenerationGroups |-> [r[g] EXCEPT !.drawn = @ + 1]]

Generate ==
  /\ activity = "generating"
  /\ rng' = Drawn(rng) /\ generations' = generations + 1
  /\ activity' = "leaving"
  /\ UNCHANGED <<config, last, call, place, weights, savedVars, engineVars, torch_random_states, gen_random_states,
                 groupVars, draws, restarts>>

(* Mutant: the generation's random state is not kept. *)
NotKept == gen_random_states

KeptState == IF Manager.swaps THEN rng ELSE gen_random_states

(* __exit__ of the manager: the engine sleeps, the random states change     *)
(* back; the handler returns.                                               *)
LeaveGeneration ==
  /\ activity = "leaving" /\ call \in Generating
  /\ engine' = "asleep"
  /\ gen_random_states' = KeptState
  /\ rng' = IF Manager.swaps THEN torch_random_states ELSE rng
  /\ activity' = "idle" /\ last' = call
  /\ UNCHANGED <<config, call, place, weights, savedVars, loaded, base_sync_done, torch_random_states, groupVars,
                 generations, draws, restarts>>
----------------------------------------------------------------------------
(* All other calls *)

(* The group a call computes in, or "none": of the reference model, the     *)
(* actor's, for they are workers of one class and configuration.            *)
GroupFor(m) == IF m = "critic" THEN m ELSE "actor"

LoadedFor(c) ==
  LET h == Handlers[c] m == h.model
      model == IF Offloads(m) THEN LoadModel(place[m], h.grads) ELSE place[m]
  IN  [place EXCEPT ![m] = IF h.optim /\ config.optimizer_offload THEN LoadOptimizer(model) ELSE model]

EnterGroup(c) ==
  IF c \in Passing /\ GroupFor(Handlers[c].model) \in config.ulysses
  THEN prev_sp_group' = sp_group /\ sp_group' = GroupFor(Handlers[c].model)
  ELSE UNCHANGED groupVars

Begin(c) ==
  /\ activity = "idle" /\ c \in After(last) \cap DOMAIN Handlers
  /\ c = "update_actor" => weights.base + weights.adapter < MaxUpdates
  /\ call' = c /\ activity' = "computing"
  /\ place' = LoadedFor(c)
  /\ EnterGroup(c)
  /\ UNCHANGED <<config, last, weights, savedVars, engineVars, randomVars, restarts>>

Trained == IF config.lora THEN [weights EXCEPT !.adapter = @ + 1] ELSE [weights EXCEPT !.base = @ + 1]

(* Mutant: the random state of the checkpoint is left aside. *)
NotRestored == rng

(* What a load leaves of the random state: the one of the checkpoint.  The  *)
(* actor's and the critic's hold the same one, for they are saved one after *)
(* the other by one process; the generation's own is in neither.            *)
RestoredRng == saved_rng

(* The optimizer makes its state in its first step, beside the parameters;  *)
(* a step whose gradients are not finite is skipped.  Loading a checkpoint  *)
(* fills the state too.                                                     *)
Compute ==
  /\ activity = "computing"
  /\ LET m == Handlers[call].model IN
     \E finite \in BOOLEAN :
       /\ call \notin Updating => finite
       /\ weights' = CASE call = "update_actor" /\ finite -> Trained
                       [] call = "load_actor" -> saved
                       [] OTHER -> weights
       /\ place' = IF call \in Loading \/ (call \in Updating /\ finite)
                   THEN [place EXCEPT ![m].optim = IF @ = "none" \/ call \in Loading THEN "gpu" ELSE @]
                   ELSE place
  /\ IF call = "save_critic" THEN saved' = weights /\ saved_rng' = rng /\ saved_draws' = draws
                             ELSE UNCHANGED savedVars
  /\ CASE call \in Passing -> rng' = Drawn(rng) /\ draws' = draws + 1
       [] call \in Loading -> rng' = RestoredRng /\ draws' = saved_draws
       [] OTHER -> UNCHANGED <<rng, draws>>
  /\ activity' = "leaving"
  /\ UNCHANGED <<config, last, call, engineVars, torch_random_states, gen_random_states, groupVars,
                 generations, restarts>>

(* Mutant: the optimizer stays where it was loaded. *)
OffloadedModelOnly(c) ==
  LET m == Handlers[c].model IN [place EXCEPT ![m] = IF Offloads(m) THEN OffloadModel(m, place[m]) ELSE place[m]]

OffloadedAfter(c) ==
  LET m == Handlers[c].model
      model == IF Offloads(m) THEN OffloadModel(m, place[m]) ELSE place[m]
  IN  [place EXCEPT ![m] = IF (Handlers[c].optim \/ c \in Loading) /\ config.optimizer_offload
                           THEN OffloadOptimizer(model) ELSE model]

LeaveGroup(c) ==
  IF c \in Passing /\ GroupFor(Handlers[c].model) \in config.ulysses
  THEN sp_group' = prev_sp_group /\ UNCHANGED prev_sp_group ELSE UNCHANGED groupVars

End ==
  /\ activity = "leaving" /\ call \notin Generating
  /\ place' = OffloadedAfter(call)
  /\ LeaveGroup(call)
  /\ activity' = "idle" /\ last' = call
  /\ UNCHANGED <<config, call, weights, savedVars, engineVars, randomVars, restarts>>

WorkerNext ==
  \/ \E c \in Generating : EnterGeneration(c)
  \/ SyncWeights \/ WakeUp \/ Generate \/ LeaveGeneration
  \/ \E c \in DOMAIN Handlers : Begin(c)
  \/ Compute \/ End
  \/ Restart

WorkerSpec == WorkerInit /\ [][WorkerNext]_workerVars
----------------------------------------------------------------------------
(* Properties *)

Counts == 0 .. MaxUpdates
RandomStates == [GenerationGroups -> [stream : GenerationGroups \cup {NoWeights}, drawn : Nat]]

(* Types; an adapter is trained with LoRA only, a base without it only, and *)
(* no optimizer has a state before a step or a checkpoint gives it one.     *)
WorkerTypeOK ==
  /\ config \in Configs /\ activity \in {"idle", "syncing", "waking", "generating", "computing", "leaving"}
  /\ last \in Generating \cup DOMAIN Handlers \cup {"init_model"}
  /\ call \in Generating \cup DOMAIN Handlers \cup {"init_model"}
  /\ place \in [Models -> Places]
  /\ weights \in [base : Counts, adapter : Counts]
  /\ IF config.lora THEN weights.base = 0 ELSE weights.adapter = 0
  /\ saved \in [base : Counts \cup {NoWeights}, adapter : Counts]
  /\ loaded \in [base : Counts \cup {NoWeights}, adapter : Counts]
  /\ engine \in {"asleep", "weights", "awake"} /\ base_sync_done \in BOOLEAN
  /\ saved_rng \in RandomStates /\ saved_draws \in Nat
  /\ rng \in RandomStates /\ torch_random_states \in RandomStates /\ gen_random_states \in RandomStates
  /\ sp_group \in {"none", "actor", "critic"} /\ prev_sp_group \in {"none", "actor", "critic"}
  /\ generations \in 0 .. MaxGenerations /\ draws \in Nat /\ restarts \in 0 .. MaxRestarts

(* The first generation of a LoRA run with a dummy load format syncs the    *)
(* base alone.                                                              *)
BaseOnly == config.lora /\ config.dummy /\ generations = 0

(* A response is generated with the weights of the last update, or of the   *)
(* checkpoint the run resumed from.  (When BaseOnly holds it is generated   *)
(* without the adapter, trained or not.)                                    *)
GeneratesWithLatest ==
  activity = "generating" => loaded = IF BaseOnly THEN [weights EXCEPT !.adapter = 0] ELSE weights

OnGpu(m) == place[m].params = "gpu" \/ place[m].grads = "gpu"

(* The models and the engine take turns: what is to be offloaded is off the *)
(* GPU while the engine generates, and the engine is asleep while a model   *)
(* computes.  (FSDP's manager for vLLM 0.6.3 keeps the actor's parameters.) *)
GpuShared ==
  /\ activity = "generating" /\ config.param_offload =>
       \A m \in Models : OnGpu(m) => m = "actor" /\ Fsdp /\ config.engine = "vllm_0_6_3"
  /\ activity = "generating" /\ config.optimizer_offload => \A m \in Models : place[m].optim # "gpu"
  /\ activity = "computing" => engine = "asleep"

(* A model computes on parameters, and the optimizer steps on a state and   *)
(* Megatron on gradients, that are on the GPU.                              *)
ComputesOnGpu ==
  activity = "computing" =>
    LET m == Handlers[call].model IN
    /\ place[m].params = "gpu" \/ (m = "ref" /\ Fsdp)
    /\ call \in Updating => place[m].optim # "cpu" /\ (~Fsdp => place[m].grads = "gpu")

(* Since a start a generation never repeats random numbers of an earlier    *)
(* one or of another group, and takes none from the training; training goes *)
(* on with its own, after a resume from where the checkpoint left them.     *)
(* (Not where the manager does not swap: there they are one.)               *)
RandomApart ==
  Manager.swaps =>
    \A g \in GenerationGroups :
      IF activity = "generating" \/ (activity = "leaving" /\ call \in Generating)
      THEN rng[g] = [stream |-> g, drawn |-> generations]
      ELSE rng[g] = [stream |-> NoWeights, drawn |-> draws]

(* Each model computes in its own sequence-parallel group, and none is left *)
(* set for the next.                                                        *)
RightGroup ==
  /\ activity = "idle" => sp_group = "none"
  /\ activity = "computing" /\ call \in Passing =>
       sp_group = IF GroupFor(Handlers[call].model) \in config.ulysses THEN GroupFor(Handlers[call].model) ELSE "none"

(* What the engine and the models use by turns, each finds as it needs it:  *)
(* the GPU's memory free of the others and holding its own, and its random  *)
(* numbers and its sequence-parallel group as it left them.                 *)
TurnsKeptApart == WorkerTypeOK /\ GpuShared /\ ComputesOnGpu /\ RandomApart /\ RightGroup
=============================================================================
