# Verification of active-spatial-reasoning

The program trains and evaluates an agent that answers spatial questions about
a scene by asking for views of it and by building a cognitive map. It has two
halves. `src/agent_system` holds the environment, the loop that plays episodes
with a batch of environments, and the sampling around it. `src/verl` is the
reinforcement-learning framework: the driver's training loop with its
checkpoints, the distributed workers and what they compute, and the inference
servers with the tools and the scoring around them.

This directory holds TLA+ models of the parts whose control is worth checking,
the TLC configurations that check them, and TLAPS proofs of the main properties
for every value of the constants. `PROJECT.json` lists the components, the runs,
the source lines of every definition, the mutants, the hazards and the theorems.

Contents: [inventory](#inventory), [how the parts interact](#how-the-parts-interact),
[the modules](#the-modules), [runs](#runs), [bounds](#bounds),
[fairness](#fairness), [proofs](#proofs),
[what the models say of the code](#what-the-models-say-of-the-code),
[not modelled](#not-modelled), [plan](#plan).

## Inventory

Paths are below `src/`. "Hard" names the behaviour that a test would hardly reach.

| Component | State | Operations | Hard | Correct when | Modules |
|---|---|---|---|---|---|
| Spatial environment: `agent_system/environments/env_package/mind/envs.py` | cognitive map, stage, `is_done`, `pred_answer`, counters, the image to show, step number | `parse`, `execute`, `answer`, `retrieve`, `update_cogmap`, `invalid`, `evaluate`, `step`, `reset` | calls that fail half-way, being stepped after the end, a limit that ends an episode with old state | the report can be read, wins are honest, the prompt fits the last step, the map stays on its grid and only grows | MindEnv, EnvWorker, EnvReport |
| Projection and manager: `.../mind/projection.py`, `environments/env_manager.py`, `prompts/mind.py` | the last prompt, the codes of the episode | `mind_projection`, `step`, `build_obs` | malformed responses; what the prompt offers is computed by other code than what checks the call | an agent that obeys is never refused | EnvManager |
| Evaluation: `src/evaluate.py`, `RayPPOTrainer.inference` | the record of an episode, a second environment | record, replay, count | the replay has no worker and another strategy | it finds the map and the wins of the episode | Evaluation |
| Spatial algebra: `.../mind/context.py` | none | turns, steps, `is_front`/`back`/`left`/`right` | sixteen hand-written comparisons on axes of which one points down | relations agree with turns and walking | Spatial |
| Rollout loop: `multi_turn_rollout/*` | `is_done`, rewards, lengths, logs, the collected batch | the three loops, `filter_group_data`, `gather_rollout_data` | finished environments are stepped on; masks before and after the step; tries that keep nothing | every episode is counted once, groups stay whole, sampling ends with enough | Rollout, Episodes |
| Trainer: `verl/trainer/ppo/ray_trainer.py`, `utils/checkpoint/*` | step, epoch, data position, files, tracker, validation's lists | `fit`, `_validate`, `_save_checkpoint`, `_load_checkpoint`, rotation | crashes between file effects, restarts, a validation between update and save | the tracker's checkpoint is whole, training resumes where it stopped, what is logged is of the step it is logged at | Trainer, Validation, DurableProgress |
| A training step: `ray_trainer.py`, `core_algos.py`, actors, critics, `seqlen_balancing.py` | rows on the driver and on the ranks, mini- and micro-batches | balance, adjust, cut, compute, collect, estimate, update | sizes that do not divide, ranks with different numbers of micro-batches | rows keep their numbers and weight, the ranks join the same collectives | TrainStep, BatchSizes, SeqlenBalancing, Advantages |
| Rows and forward passes: `rollout_loop.py`, `torch_functional.py`, the rollouts, `dp_actor.py`, `ulysses.py`, `mcore/util.py` | a padded row, its mask and positions, a rank's slice | prompts, generation, unpad, slice, gather, loss | padding on both sides, cut prompts, rolled labels, several ranks per row | the model is trained on what was generated, each output belongs to its token | PromptRows, Prompting, PackedForward |
| Worker groups: `single_controller/**`, `protocol.py` | resource pools, register center, calls and their parts of a batch | placement, creation, dispatch, collect, padding | ranks wait for what rank 0 publishes; batches that do not divide | calls find the group complete, one result per row in order | Deployment, WorkerGroup, Dispatch, RemoteCall |
| Hybrid workers, sharding managers: `verl/workers/*` | where parameters, gradients and optimizer are, the engine's memory and weights, random state | enter and exit around generation, load and offload around calls | nesting and order over calls and restarts | generation with the latest weights, nothing in the other's way | HybridWorker |
| Megatron weights: `models/mcore/*`, `megatron_utils.py`, Megatron's checkpoint manager | the shards of every rank, files | load, export, merge, save, resume | cuts in five dimensions, fused and grouped tensors | every rank has its part; what is exported and saved is the model | WeightLayout, MegatronWeights |
| Chat scheduler and servers: `workers/rollout/async_server.py` | heap, LRU cache, addresses, ports, actors, a thread | `submit_chat_completions`, start and restart of servers | interleaved sessions, eviction, ports taken | sessions stay with their server, start ends with every rank served | ChatScheduler, ServerStart, Serving |
| Multi-turn rollout and tools: `rollout/sglang_rollout`, `schemas.py`, `tools/*` | requests, tool instances, workers, a token bucket | pending, running, tool calling, completed; create, execute, release | limits on turns and tokens, tools that fail, retries | rows and masks come out right, tokens and instances come back, batches end | Requests, ToolPool |
| Scoring: `reward_manager/*`, `reward_score/sandbox_fusion/*` | processes, threads, a semaphore | cases with retries under time limits | timeouts, dying processes, results in any order | the score is that of the answer's own cases | Scoring |
| Memory, rendezvous, activation offload, file systems, vendored engines | | | | see [not modelled](#not-modelled) | |

## How the parts interact

```
 fit (Trainer, Validation) -- multi_turn_loop (Rollout) -- MindEnvs.step -- manager (EnvManager) -- worker (MindEnv)
   |                              |       \                                                          |
   |                              |        prompt rows (PromptRows, Prompting)         eval with context.py (Spatial)
   |                              v
   |                    worker group (Deployment, WorkerGroup, RemoteCall, Dispatch)
   |                              |
   |     process of a GPU (HybridWorker): engine <-> models, weights handed over (MegatronWeights)
   |                              |                 \
   |     engine rollouts, requests with tools        forward passes (PackedForward)
   |     (Requests, ToolPool; ChatScheduler, ServerStart)
   v
 scoring (Scoring) -> a step's rows (BatchSizes, TrainStep, SeqlenBalancing, Advantages)
   -> _save_checkpoint -> checkpoint managers of every rank -> disk; evaluate.py (Evaluation) on what inference wrote
```

* The driver calls the rollout loop synchronously; the loop calls the workers of
  all environments at once (Ray actors) and waits for all of them. Inside a
  batch there is therefore no interleaving: the environments move in lock step,
  and what is hard is what a finished environment does while the others go on.
* An environment speaks to the loop only through the report of `step`. The
  contract is the module EnvReport, used from both sides: MindEnv is shown to
  satisfy it, Rollout is checked against everything it permits.
* A call of a worker group goes to every rank and returns when all have; the
  ranks meet in collectives. Where a property is about the meeting (`step`,
  `group`) the ranks move by themselves; where it is about what they hold
  (`sequences`, `weights`) a collective is one step of its group.
* Driver and disk interact through files; the process may die between any two
  effects on them. The ranks write concurrently between two barriers.
* Chat sessions, requests of a batch and scoring tasks are coroutines of one
  event loop: each runs without interruption up to its next `await`. Threads and
  processes behind them (tools, cases, servers) interleave freely.

## The modules

A definition carries the name of what it models where TLA+ allows it. A comment
`Mutant:` before a definition marks a plausible wrong version of the one that
follows it; `PROJECT.json` says which property notices it. Modules whose name
ends in `_proofs` hold theorems; modules that begin with `MC` give small instances
to TLC.

### The environment: MindEnv, EnvWorker, EnvReport, EnvManager, Evaluation

MindEnv is one episode. One step of the model is one call of `MindWorker.step`
as a whole: `execute` with the parser and the call's handler, the step counter,
the decision that the episode is over and the info dictionary.

| Action | Code |
|---|---|
| `ParseFailure` | `parse` raises: malformed code, no counted call or more than one |
| `LeadingMove` | the chain begins with `goto` or `face`, which have no handler; the counter of the counted call has already moved |
| `Answer` | `answer`, also followed by a call that fails |
| `Retrieve` | `retrieve` under the three strategies, with the clamped number, gaps in the images, repeats |
| `UpdateCogmap` | `update_cogmap`: first payload entry of a new name wins, clipping, normalised names, a `TypeError` at an entry after others were stored |

A response is abstracted to its code: well formed or not, the chain of calls,
the method names its text mentions. A payload entry keeps what decides whether
it is recognised, stored and accepted. One coordinate stands for a position:
both are clipped by the same rule.

EnvManager goes around it: the projection of a response to codes (strict form,
fallback, the correction of an answer by the marked letter), the reward of a
finished episode with the terms for reasoning and map, and the prompt that
`build_obs` makes of the state. A reasoning code keeps the view variable it
uses, what it says of the view's facing and whether it is constant. `strayed`
is a history variable: how long ago the model stopped doing what it was asked.
Evaluation adds the record that inference writes and the second environment in
which `evaluate.py` executes it.

`EnvReport` says what a report may be: done at the limit, won only when done.
`EnvWorker` is the machine that counts its steps and reports so; `IsWorker`
says MindEnv implements it.

### The loop: Rollout, Episodes

The three loops of `TrajectoryCollector`. `Reset` begins a try, `Turn` is one
iteration over all environments (with any reports EnvReport permits, from
finished environments too), `Evaluate` is `success_evaluator`, `filter_group_data`
and the bookkeeping after it, `Finish` leaves the loop. `mode` is which loop
was called. `Episodes` is the abstract promise: an episode ends once, with the
reward of the step that ended it, and nothing changes it until all start afresh.

### Training: Trainer, DurableProgress, Validation

`fit` (`TrainStep`, `EndStep`, `NextEpoch`), `_save_checkpoint` split at each
effect on the disk (`Rotate`, one `WriteShard` per rank, `Saved` at the last
barrier, `SaveData`, `OpenTracker`, `WriteTracker`), `_load_checkpoint`
(`StartFromScratch`, `StartFromCheckpoint`, `StartFails`) and `Crash`, which is
possible between any two of them. A shard is the run that wrote it and the
number of updates in its weights. `DurableProgress` is the abstract promise:
what a crash leaves is what was committed last.

Validation is Trainer with the passes over the validation data that `_validate`
makes before training and after a tested step, batch by batch, the lists it
gathers row by row, the metrics it makes of them and the log. A mean is kept in
units, the rewards times the number of rows, so that it is a whole number
(`Units`, `Mean`). The theorem `ValidationKeepsTraining` of Trainer_proofs carries
everything proved of Trainer over to it.

### A training step: TrainStep, BatchSizes, SeqlenBalancing, Advantages

BatchSizes are the sizes as `_validate_config` accepts them and every worker
divides them. TrainStep is one step from the collected rows on: `adjust_batch`,
`_balance_batch`, the calls in their order (old log-probs, reference, values,
the updates), and in each of them every rank by itself: gathered over its
Ulysses group, cut into mini- and micro-batches, fixed or by tokens, joining a
collective for each. The collectives a rank has joined are its `log`. A row's
result is its own number, so a swap shows. SeqlenBalancing is
`seqlen_balancing.py` as functions (a sorted list is given by the places its members
take, a heap by the set of its states, of which the first is taken), with the
assertions before and after a partition as `CanPartition` and `Partitioned`: a step
raises if one fails. `StepAssumption` has what the configuration gives: Ulysses groups
divide the ranks, a virtual pipeline is Megatron's, a response fits a micro-batch. In an
update every row collects its weight in the loss (`trained`): `agg_loss` makes the loss
of a micro-batch of its tokens in the configured way (a mean over tokens, the default;
two means over rows; a sum), `FsdpWeight` and `MegatronWeight` scale it. Advantages has
every estimator of `core_algos.py` in whole numbers: a mean is taken times the number
of what it is of, whitening (`masked_whiten`) takes the mean over all tokens of the batch
away, and its division by the deviation is left out.

### Rows and forward passes: PromptRows, Prompting, PackedForward

A token is named by the prompt, sample and place it comes from. PromptRows has
what makes rows (padding left, cutting, position ids of text and of images,
masks, loss masks of the supervised data), Prompting the batch: preprocessing one
observation after the other and the answers of five rollouts (the two vLLM
ones, SGLang in batches and by requests, HuggingFace). PackedForward takes the
rows through a model: without padding and dealt to Ulysses ranks, where attention
exchanges heads for sequence; packed for Megatron with context parallelism; or
padded. The rows of the supervised dataset are cut left or right, or raise. Every value carries the set of keys it attended to, so an output of a
wrong place, a missing key or a gradient counted twice shows.

### Worker groups: Deployment, WorkerGroup, Dispatch, RemoteCall

Deployment is what `init_workers` decides: pool, placement groups and their
nodes, the colocated class and the names of its methods, the order in which
models are built. WorkerGroup is the start: actors, the register center, the
process group, whose port another program may take. Dispatch has the functions
that cut and join batches; RemoteCall the calls, from `init_model` on, in every
mode of dispatch, with a worker's part, its padding and its output.

### The process of a GPU: HybridWorker

The calls that the trainer makes in one run (`Handlers`), and around each what
the decorators and sharding managers do: `EnterGeneration`, `SyncWeights`,
`WakeUp`, `Generate`, `LeaveGeneration`; `Begin`, `Compute`, `End`; `Restart`.
Backend (FSDP, Megatron), engine (vLLM 0.6.3, newer vLLM, SGLang), offload flags,
LoRA, dummy weights and Ulysses are one `config`. `place` is where parameters,
gradients and optimizer state of each model are. `rng` and `draws` are the training's
random numbers: seeded at a start, kept with a checkpoint (`saved_rng`,
`saved_draws`) and restored when it is loaded, while the generation's begin anew.

### Weights of Megatron models: WeightLayout, MegatronWeights

WeightLayout cuts a model: which rows of which tensor a rank (tensor, data,
pipeline, with virtual stages and experts) computes with, and how the loaders
and savers cut and join the fused and grouped ones. MegatronWeights is a job:
loading by the registered loader (tensor by tensor, in the loader's order, or from
a distributed checkpoint), training, the generator that gives the engine whole
tensors, the save of shards and of the HuggingFace copy, a crash, and the
start after it. Mixtures of experts take all of it but the HuggingFace copy, for
which the code has no implementation. Their shards are written by data-parallel
rank 0 under names with the expert rank, so with more than one expert rank a
start does not find its file and fails (phase `failed`).

### Servers: ChatScheduler, ServerStart, Serving

ChatScheduler is `submit_chat_completions` for many sessions: `FirstRequest` (heap),
`FollowUp` (cache), `LateFollowUp` (the cache has lost the entry: `KeyError`),
`CallBack`, `Leave` (the caller stops; the scheduler is not told). The heap is
abstracted to its root; the LRU cache to a set whose oldest entry goes, since
only `pop` reads it. ServerStart is the constructor of `AsyncLLMServerManager`
with the server actors, their ports, the programs that take ports too and the
scheduler's thread. Serving composes both: requests come once the constructor
has returned.

### Tools: Requests, ToolPool

Requests is the SGLang rollout of a batch, request by request as a coroutine:
pending (create the tools), running (generate, look for calls), tool calling
(all calls of a turn at once), completed (release, finalize, truncate). A row is
a sequence of segments with their lengths and authors. ToolPool is behind it:
the pools of workers, the token bucket and the services with their retries. The
two pools share the bucket by its name.

### Scoring

The first part is `check_correctness` for one answer: a thread per case under a
semaphore shared by all processes, finishing in any order. The second is the prime
manager: a process pool, a time limit per row, the pool that breaks, processes
that are terminated, batch after batch.

### Spatial

The functions of `context.py` as operators with the code's names, and scenes of
one view, a source and a target in which the view turns and walks.

## Runs

All runs pass. Each property has at least one mutant, a plausible bug in a mapped
definition, under which the run's configuration finds it violated.

| Run | Instance | Properties | States |
|---|---|---|---|
| `env` | one environment, its manager and its evaluation, under 30 kinds of response | `ReportsRight`, `WonByAnsweringNow`, `ObeyingSucceeds`, `WinsCount`, `CallsKeepTheMap`, `IsWorker` | 1,290,136 |
| `rollout` | two groups of two environments, three loops | `GroupsUsable`, `TargetMet`, `Terminates`, `EndsOnce` | 61,491 |
| `trainer` | training and validation with crashes and three starts | `Recoverable`, `NothingLost`, `Validated`, `Durable` | 58,084 |
| `spatial` | every scene of a 3x3 grid | `DepthIsFromTheView` | 2,916 |
| `serving` | three servers on two nodes, three sessions | `EveryRankServed`, `LiveSessionsRoutable`, `Starts`, `SessionsStay` | 616,814 |
| `group` | one to four roles on two nodes of two GPUs | `CallsFindTheGroup`, `RowsComeBack`, `CallsEnd` | 152,604 |
| `workers` | one process of each of two generation groups, every configuration | `GeneratesWithLatest`, `TurnsKeptApart` | 3,530,232 |
| `requests` | two requests in two batches, two tools, one token | `ToolsComeBack`, `RowsComeOutRight`, `BatchEnds` | 176,784 |
| `scoring` | two answers of three cases in two batches | `ScoreOfItsCases`, `PermitsReturned`, `EveryBatchScored` | 477,916 |
| `step` | a training step of one to six rows on two ranks | `BalancedRight`, `InStep`, `WeighedRight`, `AdvantagesRight` | 244,906 |
| `weights` | fifteen models and layouts | `EveryRankHasItsPart`, `EngineGetsTheModel`, `SavedModelIsTheModel` | 289,031 |
| `sequences` | short batches through five rollouts and six forward passes | `TrainedAsGenerated`, `OutputsBelong`, `GradientsWhole` | 54,228 |

What they show:

* `env`. `ReportsRight`: the keys the loop reads are always there, the image a
  prompt shows is the one the last call retrieved, the counters account for
  every step, the map stays on its grid. `WonByAnsweringNow`: no kept answer is
  won by the step limit, although `retrieve` after `answer` clears `is_done` and
  keeps `pred_answer`. `CallsKeepTheMap`: nothing stored is lost or moved, also
  when an update fails half-way, and greedy and random retrieval never show what
  is known while something is not. `ObeyingSucceeds`: what prompts offer, what
  the checks accept and the limits fit together. `WinsCount`: a win is worth more
  than a loss, and `evaluate.py` finds the same map and the same wins from the
  record, although it has another strategy. `IsWorker`: the contract with the loop.
* `rollout`. `GroupsUsable`: a uid keeps all its trajectories or none, from a
  try that could be repeated with two different rewards, with the rows it
  reports; the lists of `success_evaluator` have one entry per trajectory.
  `TargetMet`, `Terminates`: sampling ends with the target and less than one batch
  over. `EndsOnce`: a finished environment that reports a live step or a second
  win changes nothing.
* `trainer`. `Recoverable`: whenever the process dies, the checkpoint named by a
  readable tracker is whole, from one run. `NothingLost`: step s starts from the
  updates of the steps before it and from its batch of data, a crash costs at
  most `save_freq` steps, and a run that returns has saved its last step.
  `Validated`: a pass counts every problem once whatever its batches, what is
  logged is of that step's model, and the last validation is of the model that
  is kept. `Durable`: the refinement.
* `serving`. `EveryRankServed`: the scheduler is given one listening server per
  rank. `Starts`: the constructor ends, unless the scheduler's thread died
  before it set its event. `SessionsStay`; `LiveSessionsRoutable`: the cache can
  lose a session only when as many other sessions as the cache has places have
  submitted something since.
* `group`. `CallsFindTheGroup` joins what a call relies on: the center is there
  before the ranks, all have registered, ranks that share a shard have the same
  rows, a method reaches its own role's class, models are built in order, ranks
  keep their nodes over restarts, engines have their own devices on nodes used
  alike. `RowsComeBack`: one result per row, in order, in every mode but
  `pp_as_dp` over several dimensions. `CallsEnd`.
* `workers`. `GeneratesWithLatest`: never with old weights. `TurnsKeptApart`:
  memory, random numbers and Ulysses groups are found as they were left, the
  random numbers also by a run that resumes.
* `requests`. `RowsComeOutRight`: a row holds the conversation that fits it and
  is trained on the model's own words only. `ToolsComeBack`: the bucket has at most
  its tokens in use and instances are released. `BatchEnds`.
* `scoring`. `ScoreOfItsCases`: an answer has its own cases' score whatever
  the order. `PermitsReturned`: only a terminated process loses a permit.
  `EveryBatchScored`: also with no permit left.
* `step`. `BalancedRight`: balancing moves rows and nothing else, two ranks' tokens
  differ by at most `WorldSize - 1` gaps between neighbouring lengths, and a
  micro-batch exceeds `max_token_len` by less than its longest row.
  `InStep`: the ranks join the same collectives, and text rows fail no assertion.
  `WeighedRight` has three parts. `RowsWeighAlike`: where the loss is a mean over rows,
  every row has one weight in an update, a row of text its share of a full
  mini-batch. `MicroBatchesWeigh` and `RanksWeighAlike`: with
  the mean over tokens too, where a row's weight depends on what it shares its
  micro-batch with, a micro-batch and a rank have the weight of as many rows as
  they hold. `AdvantagesRight`: advantages of a prompt cancel with the estimators
  that center and do not whiten, returns are the row's own outcome.
* `weights`. After loading every rank has exactly the rows it computes with; the
  engine and the saved copy are given the model; after a crash every rank goes
  on from the tracker's step, or, with several expert ranks only, the start fails.
* `sequences`. What is trained on is what was read and answered, at the positions
  it had; each output is compared with the token it predicts; an update has the
  gradient of every output before a token of an answer once and of no other, the
  exceptions named in the property (`Wanted`) aside.
* `spatial`. A view on either side of the source has its own side in front. Level
  with the source it has one side too: nothing is both in front and behind, what
  is off its line is one of them, and turning around does not change which.

`CHECK_DEADLOCK FALSE` is set where the system does stop: an episode at its
bound, a rollout that is done, training that finished or used up its starts,
sessions and requests that are all over, a driver whose call raised.
`step`, `weights` and `sequences` have a last step that stutters (`Over`,
`Finished`), so there a rank that waits for ever is a deadlock, and `spatial`
never stops.

## Bounds

* `env`: `MaxInteractions` 5 and `MaxSteps` 6, so that an environment can build,
  retrieve twice (`MaxRetrieve` 2), answer, and is stepped once past its limit;
  `MaxStray` 3 steps after an episode or against its prompts, which reach every
  combination of `retrieved`, `pred_answer`, map and counters that a step reads.
  Two images, two objects, view numbers 1, 2, 3 and 12 (which contains 1), a grid
  of two columns with positions on both sides of it. The responses
  (`MCResponses`) have every form, every kind of call, two counted calls, moves
  before and after, both spellings of a view, refused entries first and second.
* `rollout`: two groups of two is the least with a group to keep and one to
  drop; two tries the least with a last and an earlier one; `MaxInteractions` 2
  lets environments end in different turns; `MaxSteps` is one more than that,
  as in practice (`env.max_steps` is 15 in `train.sh` and `inference.sh`, 50 in
  `ppo_trainer.yaml`, and `make_envs` leaves `max_interactions` at 10). If
  `max_steps` were smaller the turns would run out first and the lists of
  `success_evaluator` could have different lengths: `StepsAssumption` states
  what the configurations give.
* `trainer`: two ranks (a crash between their writes), actor and critic (a crash
  between the roles), two checkpoints kept, a save every second of five steps so
  that the last step is saved off the rhythm, three batches per epoch so that an
  epoch ends between saves, three starts so that a crash during recovery is
  included and a finished run is started again; a test every third step, off
  the rhythm of the saves; three problems in batches of two so that the last
  batch is smaller, episodes of one or two steps so that rows outnumber episodes.
* `serving`: nodes of two for three ranks, so that two servers share a node;
  three ports there, of which another program takes one; three sessions, a
  cache of two and five requests, so that two sessions can overtake a third.
* `group`: two nodes of two GPUs, free or not; one to five rows, below, at and
  above the four ranks; every layout of four ranks in four dimensions.
* `workers`: two groups (random streams could be mixed up), two updates, three
  generations, one restart: generate, update, generate again, before and after.
* `requests`: a request with two calls in a turn, one with one, two pools of two
  workers and one token, so that calls wait for each other in either order; a
  response of 8 words that a conversation of two turns can fill or not; a second
  batch to find what the first left.
* `scoring`: three cases of which two count, two permits, a second batch.
* `step`: all batches of up to three rows of three kinds and one each of four to
  six, on two ranks: more and fewer rows than mini-batches, ranks with unequal
  micro-batches, a group of one; forty rows of images whose mini-batches are uneven;
  every `loss_agg_mode` with fixed and dynamic sizes.
  `Unit` 2520 divides by every number of rows or tokens that occurs in a micro-batch.
* `weights`: the dimensions 1 and 2 (pipelines up to 3, virtual stages 2), heads
  above and at the number of ranks, with each loader, saver and family that the
  registry has; one crash. Mixtures have two expert ranks, or one with the whole
  of saving and resuming in it.
* `sequences`: prompts below, at and above seven tokens, with none, one and two
  images; groups of one, two and four ranks; two samples. Supervised rows of up to
  eleven tokens in nine columns, with each truncation: a prompt that fills the row
  leaves no token of the response on the right and none counted on the left, one
  shorter by a token leaves one.
* `spatial`: coordinates 0..2 have a place before, level with and behind
  another on each axis; the theorems remove the bound.

Unbounded counters are bounded by `MaxSteps` (steps of an environment), `MaxRuns`
(starts), `MaxRequests`, `MaxCalls`, `MaxUpdates`, `MaxGenerations`, `MaxRestarts`,
`MaxBatches`, `MaxCrashes` and `MaxTaken` (ports others take).

## Fairness

* `Terminates`: `WF_vars(Next)` of Rollout: straight-line code in the driver's
  process goes on. It does not say which outcome an environment reports.
* `Starts`: weak fairness of the constructor, of each server's process and of the
  scheduler's thread, each of which is straight-line code; not of `TakePort`.
* `CallsEnd`: of the driver, of each worker and of the creation of the center by
  rank 0; not of what other programs do or of the timeout.
* `BatchEnds`: of each request's coroutine (the event loop takes up what is ready),
  of the bucket serving its messages and of each tool call's thread.
* `EveryBatchScored`: of each row's time limit and of the end of a batch alone;
  a sandbox need never answer.

None of training: it may crash and never be restarted.

## Proofs

About 29,300 obligations, all checked by tlapm. All theorems are about the
specification of the module, for every value of its constants that satisfies
the module's assumptions and those named below.

* `MindEnv_proofs`, an episode: `TypeCorrect`, `ReportsReadable`, `NoStaleWin`
  (`WonByAnsweringNow`), `PromptConsistent`, `EveryReportRight` (`ReportsRight`),
  `CallsKeep` (`CallsKeepTheMap`) and `ImplementsWorker` (`IsWorker`). The
  properties are not inductive alone: a report depends on the stage, and the stage
  on how the call ended. `Outcome` lists the four ways a step can end (the lemma
  `StepOutcome` has a case per action), `Reported` ties the info dictionary to
  them; together with `TypeOK` they are the invariant. Around the environment:
  `ManagerKeepsEnvironment` (a step of EnvManager is one of MindEnv, so that what is
  proved of the one holds in the other), `WinningPays` (`WinsPay`) and
  `ObeyingIsEnough` (`ObeyingSucceeds`), the latter from the hypothesis `LimitsFit`:
  views are numbered without a gap and the limit of interactions leaves two for
  every view that is offered (the configured limits are 4 of 10); and
  `EvaluationKeepsEpisode` and `EvaluationAgrees` (`WinsCount`): the environment in
  which `evaluate.py` executes a record follows the one that wrote it, report by
  report, so that the last one decides alike.
* `Rollout_proofs`, the loop: `TypeCorrect`, `OneEpisode`, `ImplementsEpisodes` (`EndsOnce`),
  `CollectsTarget` (`TargetMet`), `HandsOverUsableGroups` (`GroupsUsable`).
  `Episode(i)` relates one environment's log, length, reward and mask; a turn
  touches each environment alone, so the step is proved for one (`TurnEpisode`). `SizeInv` bounds what is collected: fewer than
  the target before a try, at most a whole batch more after it, and on the last
  try exactly a whole batch. `EndInv` says that the environments' limit ends every
  episode before the turns run out. `UsableInv` describes the entries collected:
  those of an earlier try have another uid, those of this try are the places of the
  environments kept (`Placed`: `Nth` counts a finite set through, each element
  once), so that a uid's entries correspond one to one to its group (`NewGroup`).
* `Trainer_proofs`: `TypeCorrect`, `DurableTraining` (`Durable`),
  `CheckpointRecoverable` (`Recoverable`), `NothingIsLost` (`NothingLost`). For the
  checkpoint the invariant is `TypeOK`, `TrackerInv` (what the tracker is in each
  phase), `PathsInv` (the remembered paths increase and end with the checkpoint the
  tracker names, so that rotation that keeps two stops short of it), `ShardsInv`
  (what has been written of the checkpoint in progress, all by this run) and
  `Recoverable` itself. For what a run goes on from it is `UpdatesInv` (files and
  memory have the updates of the steps before), `PosInv` (the place in the data
  goes with the step, modulo the epoch) and `SavedInv` (no step that is to be
  saved lies between the tracker's and this one), with lemmas on remainders. All
  but the first assume that every start resumes automatically, and
  `CheckpointRecoverable` also that neither role keeps exactly one checkpoint:
  both assumptions are needed, see below. `ValidationKeepsTraining` is VSpec =>
  Spec. `ValidationRight` (`Validated`) says that what is logged is of the whole
  data and of its step; its invariant, `PassInv`, has for each pass the outcomes of
  the problems of its batches so far, each in one batch. It too assumes automatic
  resumption.
* `Rollout_proofs`, the process of a GPU: `LatestWeights` (`GeneratesWithLatest`), `TakeTurns`
  (`TurnsKeptApart`). The invariant has a conjunct per thing that is handed over:
  `WeightsInv` and `LoadedInv` (what the engine has, by phase), `PlaceInv` (where
  each model's parts are between and in calls), `EngineInv`, `RandomInv`,
  `GroupInv`, with `PhaseInv`. One lemma per conjunct, one step per action.
* `Serving_proofs`, servers and sessions: `Served` (`EveryRankServed`), `Names`
  (`NamesFree`) and `AnsweredKept` (`AnsweredStay`), for the manager asks only ranks
  without an address, and two servers of a node never hold one port; `SameServer`
  (`SessionsStay`), `Routable` (`LiveSessionsRoutable`) and `Balanced`
  (`FirstRequestsBalanced`) for the scheduler. `SessionInv` says that
  each name in the cache is the last one of exactly one session and has that
  session's address. `Routable` is a counting argument: if the entry of a live
  session is evicted, each of the `MaxCache` entries that remain has a later name
  and a session of its own, which has submitted since (pigeonhole). `ServingCorrect`
  carries the three over to the composition, in which sessions begin when the
  manager runs.
* `Requests_proofs`: `ToolsReturn` (`ToolsComeBack`) and `RowsRight`
  (`RowsComeOutRight`). The invariant is `PoolTypeOK` with `RowsInv` (a row is
  `Sound`: its mask marks what the model wrote, its positions count what is attended
  to, it ends as its state says), `LentInv` (the instances of the tools are those of
  the unfinished requests), `CallsInv` (a call under way is of a request at its
  tools), `LineInv` (the bucket's messages are of waiting calls, one for each) and
  `TokenInv` (the tokens free, coming back and in use are the limit). The responses of several tools are added by a
  recursive function; what it gives is proved by taking the least number of
  responses for which it would be wrong.
* `Serving_proofs`, scoring: `ScoresRight` (`ScoreOfItsCases`), `PermitsComeBack`
  (`PermitsReturned`). `ScoreInv` gives a finished row the score of its own cases,
  `PermitInv` counts the permits of the calls in living processes: none is returned
  twice, and none lost unless a process was terminated.
* `RemoteCall_proofs`, a worker group and the calls to it: `RowsReturn`
  (`RowsComeBack`) and `CallsAlwaysFindTheGroup` (`CallsFindTheGroup`). The invariant
  `GroupInv` has a part per thing that a later step relies on. `RowInv`: what each
  rank was sent, what it has computed, and that the driver's result is right once
  the call is over. `PoolInv`: where the placement groups are. `CenterInv`: no rank but
  the first is created before the register center answers. `InfoInv` and `UpInv`: a
  worker past its constructor is registered, and one in a method is up, so that a
  call that returned has found every rank. `BuiltInv`: the first calls build the
  models in the order of `init_workers`, so that each later call finds its own
  (`OrderIs`: every role has exactly one place in that order, the one with the engine the
  last). The rest is arithmetic on ranks and rows. A batch is a sequence of row
  numbers: chunks of it follow each other (`ChunkCut`), parts that ranks have in their
  own order give the whole (`CollectInOrder`), and each mode deals its parts so
  (`ReplicasDealt`, `ShardsDealt`, `StagesInOrder` with one dimension; `StagesDealt`
  for several, where only the set of rows is kept). Ranks that generate together
  gather and cut again, and what they take back is their own part of the whole batch
  (`GroupsCut`). For the names, `NamesApart`: no two roles' methods meet under the prefixes
  of the shared class. For the placement, `SameSort`: how sorted groups are
  numbered depends only on how many each node has, so ranks stay on their nodes; and
  `EngineFits`, with `ProcessWithin` and `ProcessOver`: on evenly used nodes, a server
  within a node or over whole nodes has exactly the devices of its ranks. Recursive
  functions (`Concat`) and counting (`CountingUp`) are again reasoned about by the least
  number for which a claim would fail.
* `SeqlenBalancing_proofs`: `BatchParted` and `RowsParted`, what
  `get_seqlen_balanced_partitions` finds for any list of lengths. `IsState` says of a
  state on the heap that its sets share no row, have all a row or none more than
  one, are of one length where that is asked for, fall in their tokens, and differ
  by at most `b`. Merging
  the heaviest of one with the lightest of another keeps `b` (`Crosswise`), sorting the
  sets keeps everything, and the heap (`IsHeap`) has one state fewer after each of the
  merges, with the same rows, until one is left (`Differencing`). At the start `b` is
  the longest row or, with blocks of `k` rows taken in order, the sum of `k - 1` gaps
  (`Blocks`). Tokens are folds of the community modules; they are shown to be the sum
  of a function on numbers, about which the lemmas on sums are.
* `TrainStep_proofs`: `StepInduction` and `StepInStep` (`InStep`), `StepBounded`
  (`MicroBatchesBounded`), `StepRanksBalanced` (`RanksBalanced`), `StepBalanced`
  (`BalancedRight`), `StepWeighs` (`RowsWeighAlike`, for the means over rows) and
  `StepShares` (`MicroBatchesWeigh`, for every mode). `Running` is the inductive
  invariant. A call has a `Course`, a function of the configuration and of all
  ranks' rows: the mini-batches, the micro-batches of each, and how many collectives
  have been joined before each. `AtRank` says that what a rank has joined is the
  beginning of the course, as long as its stage, the mini-batches left and the
  micro-batches run say; so two ranks have joined the same as far as both have got,
  and one that has returned has joined the most. The step needs that no rank passes
  a collective before all have joined it (`Synced`), which is why the settled number
  is that of the course: all owns are in the logs when it is read. With this the
  partition of `RowsParted` exists, no assertion fails, and `AdjustBatch` has made
  the sizes divide (`SizeDivisor`). For the balance, `Bounded` is about the plans
  and `Even` about the batch until the advantages are there. For the numbers,
  `Kept`: a rank's order so far is its rows mini-batch by mini-batch, each
  mini-batch's rows once in any order (`RunOrders`, `InTurn`), so that the order is
  a permutation that `get_reverse_idx` undoes, and a rank's result is its own rows'
  ids; ranks of a Ulysses group then give back their own parts, which put together
  are the batch. For the weights, `Weighed`: what a row of a rank weighs so far is
  the number of times it has been run, in the mini-batches that are done and in the
  micro-batches of the one that runs (`Times`, `RowsIn`), multiplied by one weight
  (`RowWeight`) that, with a mean over rows, depends on no rank, mini-batch or
  micro-batch. `StepShares` is about the weight of a micro-batch, whatever its tokens
  make of it. Both need every
  micro-batch of a fixed size to be full, the last of the last mini-batch too: the
  batch that `AdjustBatch` has filled up, and each rank's part of it, divides by the
  update's micro-batch (`RowsDivide`, `HeldDivide`).

`MindEnv_proofs` ends with the spatial functions that reasoning is executed with:
`SidesAgree`, `OppositesAgree`, `DepthAgrees` (`DepthIsFromTheView`), by cases on the
direction, for every scene of Spatial on every grid of integers.

Model-checked only:

* `Terminates`, `Starts`, `CallsEnd`, `BatchEnds` and `EveryBatchScored`, liveness
  under fairness, which the prover does not handle.
* `step`: `AdvantagesRight`. It is about sums over a prompt's rows of quotients (means
  of groups, discounted sums from the last token back) that the provers do not
  relate to each other. And `RanksWeighAlike`, that the shares of
  a rank's tokens add up, for the same reason: quotients of sums of tokens.
* `weights` and `sequences`: the properties of `MegatronWeights`, `PackedForward` and
  `Prompting`. Names of parameters and packed rows are computed by folds with an
  operator given as a parameter (`FlattenSeq`, `FoldSeq`, `SelectSeq`), about which no
  fact can be cited. What `SeqlenBalancing_proofs` does for sums, a function in place of
  the fold and the least number for which they differ, has to be done for each.

## What the models say of the code

Points met while modelling, where the code does what its reader may not expect,
or something near to what is modelled that the models leave out. Paths are below
`src/`; `verl/` and `agent_system/environments/` are left out where clear.

Environment and evaluation:

* A view sent as "View 1", the spelling of the textual map, is stored as "Image
  1" and not recognised by the next update, so it is stored and rewarded again
  (`envs.py:996`). The prompt and the labels call view k `v<k>`; the evaluation of
  reasoning binds `v<i>` to the i-th stored view (`envs.py:437`,
  `prompts/mind.py:51`). Both are in the model.
* `OptionType.OTHER` is never assigned, so `could_answer` examines questions whose
  options are objects only. `answer_preprocess` takes the alphabetically first
  marked letter and replaces the whole of the last code that mentions an answer.
* Offered views may have no image when the data's images have gaps; `build_obs`
  raises for other than two, three or four views.
* The docstring of `parse` gives `goto(1,2).face('left')` as its example, which is
  always rejected: the two counters are never incremented (`envs.py:719`, `863`).
* `evaluate.py` executes the reasoning codes and uses nothing of it; its
  `extract_answer` is not called; empty lists give means of nan.
* In `context.py`, for a view level with the source, front is the smaller
  coordinate whichever way the view faces (`context.py:101`).

Training and validation:

* The tracker is truncated and rewritten in place; a crash in between leaves a
  file that stops every later start (`ray_trainer.py:1035`): `Torn` in the model.
* With one checkpoint to keep, rotation deletes the only whole one before the
  next is written (`fsdp_checkpoint_manager.py:156`). The list of saved paths is
  lost at a restart, so more stay than the setting says (`checkpoint_manager.py:55`).
* `resume_mode: disable` in the directory of an earlier run rewrites
  `global_step_k` while its tracker still names it (`ray_trainer.py:1039`).
* The success rate is a mean of per-batch means although the last batch may be
  smaller; `test_score` averages over steps, not episodes; the logged table of
  generations pairs inputs (one per problem) with outputs (one per step).
* `val_kwargs.n` above 1 fails an assertion of the loop (`index` is not repeated);
  a null `val_batch_size` is refused by `make_envs`; a "model" style of reward
  makes the first validation fail.

A step:

* `adjust_batch` multiplies None when micro-batch sizes are given for all GPUs
  (`multi_turn_rollout/utils.py:88`); it ignores the critic's. ReMax raises before
  its baseline is there; gigpo is not implemented; pass@k raises for a group of one.
* With a dynamic batch size, `dp_actor` returns the entropies in the order of the
  micro-batches (`dp_actor.py:319`), `indices` is undefined for images (`:322`)
  and `len(data)` is the number of keys (`:435`). Micro-batches may exceed
  `max_token_len` by less than a row (`seqlen_balancing.py:251`).
* The FSDP critic's loss takes `attention_mask[:, -response_length - 1 : -1]`
  (`dp_critic.py:225`), the mask of the outputs' own columns, where the actors and
  Megatron's critic take that of the tokens the outputs predict
  (`attention_mask[:, -response_length:]` against `vpreds[:, -response_length - 1 : -1]`,
  `megatron_critic.py:186`): it also trains the value after the end of an answer that
  ended early. Both are in the model (`Counted`, `LossTokens`), the difference in
  `GradientsWhole` (`Wanted`).
* With the default `loss_agg_mode`, token-mean, a row weighs by its tokens among those of
  its micro-batch (`core_algos.py:497`); `RowsWeighAlike` is of the means over rows. With
  seq-mean-token-sum-norm and a dynamic size rows count as often as their micro-batch
  has rows (`:505`, `dp_actor.py:435`), which `RanksWeighAlike` excepts.
* With multi-modal rows and a fixed size the FSDP critic's update raises, since
  `gradient_accumulation` is set in another branch (`dp_critic.py:209`, `:243`).
* reinforce_plus_plus_baseline whitens what it has centred (`core_algos.py:367`): with answers
  of different lengths a prompt's advantages do not cancel.
* A group of one row is trained with its raw score.
* Partitions of one length are bounded by the gaps between neighbouring lengths,
  one for each rank but the first, not by a single gap or row: blocks of as many rows as
  there are ranks are dealt out, and their differences can add up over the ranks.
* With images, 20 rows of a rank and mini-batches of 8 are two chunks of ten; cut in
  fives and scaled as halves of a mini-batch, each row has 4/5 of the weight it has
  in a mini-batch of 8 (`dp_actor.py:437`). Rows still weigh alike.

Rows and forward passes:

* `preprocess_single_sample` takes the first of the three dimensions of an image
  prompt's positions, so training uses that one where the engine uses all three;
  with the three of them Ulysses would fail its assertion.
* The supervised dataset makes its loss mask from the lengths before the cut
  (`sft_dataset.py:169`). Cut on the left, a row loses the first tokens of its response
  from the loss, all of them where the prompt alone fills the row; `OutputsBelong` and
  `GradientsWhole` except these rows.
* The fused kernels roll labels inside a rank's slice, which is right with one
  rank only. The multi-turn supervised dataset's mask is not shifted while the
  trainer's is. The vLLM and HuggingFace rollouts do not repeat non-tensor
  fields for several samples.
* Left out: image prompts that are cut (row and engine differ), too long prompts
  of the request-level rollout, rows shorter than half of Megatron's alignment.

Worker groups and workers:

* The comment on padding of keyword arguments and the code differ
  (`decorator.py:263`, `:294`); `pp_as_dp` over several dimensions reorders rows.
* If another job takes GPUs between the check and the placement, `ready()` waits.
  Methods bound without registration are seen in the other roles' groups too.
* With LoRA and dummy weights the first generation lacks the adapter
  (`fsdp_vllm.py:290`); FSDP's manager for vLLM 0.6.3 keeps the parameters on the
  GPU; Megatron's vLLM manager does not swap random states. All are in the
  properties as exceptions.
* The engine's nodes are computed from device numbers (`sglang_rollout.py:233`),
  right if ray hands them out from 0 on each node in rank order, as assumed, and
  if the nodes have equally many ranks, the precondition `Aligned` of
  `EnginesApart`. With ranks 1, 2 and 1 on three nodes and engines of two ranks, an
  engine spans two nodes, sees two device numbers, takes itself to be on one node
  and works on another's device.

Servers, requests, scoring:

* "Least number of requests" counts first requests only and never decreases
  (`async_server.py:142`, `:177`). The manager waits for ever if the scheduler's
  thread raises (`:281`), the exception in `Starts`.
* The sampling parameters are shared by all requests and put back around an
  `await` (`sglang_rollout.py:398`): two overlapping validation requests can leave
  the validation's values. Not modelled.
* A terminated scoring process never returns its permits (`prime.py:62`), the
  exception in `PermitsReturned`.

Megatron weights:

* Only data-parallel rank 0 writes shards, under names with the expert rank
  (`megatron_checkpoint_manager.py:167`, `:236`), and every rank reads its own: with more
  than one expert rank the experts of the others are not saved and loading fails
  (`:204`). `SavedModelIsTheModel` says that it fails and never goes on with other weights.
* `get_transformer_layer_offset` numbers stages too low when only the last has a
  length of its own and virtual stages are used; that layout is not in `MCModels`.
* `load_megatron_model_weights` passes `tie_word_embeddings` to a loader that does
  not accept it; the converter for simple splits asserts three tensors; savers of
  mixture models beyond qwen raise `NotImplementedError`; the older loaders and
  savers in `checkpoint_utils` are not registered (they are modelled beside the
  registered one, as alternatives of the same job).

## Not modelled

* Of the environment: drawing, texts, questions other than about objects and
  facings, Ray actors that die (the driver stops).
* Of the trainer: profiling, the metrics of `metric_utils.py`, `resume_path` (the same
  as automatic resumption from a folder the user names), copies to hdfs (resuming
  from it raises `NotImplementedError`); the position of the stateful data loader
  is external and modelled by what is saved and loaded.
* Arithmetic: losses, clipping, deviations, optimizers, learning rates, the KL
  controller, graders that compare strings or formulas.
* Neural network layers, vendored engines and the Megatron layers of llama and
  qwen2 that mcore replaced; tensors' contents are names of tokens and rows.
* `utils/activation_offload.py`: hooks whose order is torch's; `utils/rendezvous`:
  not imported; `agent_system/memory`: not used by the environment's manager;
  `utils/fs.py`, `hdfs_io.py`: external commands.
* Main programs that the scripts do not use (`main_generation`, `main_eval`), the
  supervised trainer's loop, the naive and fire rollouts, `gsm8k`'s tool.

## Plan

Done: every component of the inventory but the last row. What would add most:

1. `Recoverable` with a tracker that is replaced at once and rotation after the
   save, as a second instance beside the one that follows the code.
2. A liveness property of training: with fairness and finitely many crashes it
   reaches its last step.
3. Proofs about the weights and the packed sequences with the lemmas on cutting and
   putting together of `RemoteCall_proofs` and `SeqlenBalancing_proofs`.
4. Overlapping validation requests with the shared sampling parameters.
5. Optimizer shards of Megatron's distributed optimizer in WeightLayout.
