----------------------------- MODULE BatchSizes ------------------------------
(***************************************************************************)
(* The sizes of mini-batches and micro-batches.  They are configured for   *)
(* all GPUs together, or, the micro-batches' also for each; the trainer    *)
(* checks what is configured (_validate_config), and every worker turns it *)
(* into its own sizes when it is constructed.                              *)
(*                                                                         *)
(* A configuration c has backend ("fsdp" or "megatron"), estimator         *)
(* (adv_estimator), ref (there is a reference policy), dynamic             *)
(* (use_dynamic_bsz), sp (ulysses_sequence_parallel_size), train           *)
(* (train_batch_size), n (rollout.n), mini (ppo_mini_batch_size of actor   *)
(* and critic), micro, a record of the micro-batch size of each call, and  *)
(* given, which of its two forms is configured: "per_gpu", "total", "both" *)
(* or "none".                                                              *)
(***************************************************************************)
EXTENDS Integers

CONSTANT WorldSize     \* ranks of a worker group

UseCritic(c) == c.estimator = "gae"

(* The ranks that have rows of their own; a Megatron rank stands for its    *)
(* model-parallel group.                                                    *)
FsdpDataRanks(c) == WorldSize \div c.sp
MegatronDataRanks == WorldSize
DataRanks(c) == IF c.backend = "fsdp" THEN FsdpDataRanks(c) ELSE MegatronDataRanks

(* check_mutually_exclusive: exactly one of the forms. *)
OneForm(c) == c.given \in {"per_gpu", "total"}

WholeMicroBatches(c, micro) == c.given = "total" => c.mini % micro = 0 /\ micro * c.sp >= WorldSize

(* _validate_config *)
Valid(c) ==
  /\ (c.train * c.n) % WorldSize = 0
  /\ ~c.dynamic => OneForm(c) /\ WholeMicroBatches(c, c.micro.update_actor)
  /\ UseCritic(c) /\ ~c.dynamic => c.train >= c.mini /\ WholeMicroBatches(c, c.micro.update_critic)

(* A worker's part of the mini-batch, its n answers to each prompt counted. *)
MiniBatchSize(c) == (c.mini * c.n) \div DataRanks(c)

(* A worker's size of the micro-batches of a call: its part of the total    *)
(* replaces what was given per GPU.                                         *)
MicroBatchSize(c, name) == IF c.given \in {"total", "both"} THEN c.micro[name] \div DataRanks(c) ELSE c.micro[name]

Divides(c, name) == c.given # "none" => MicroBatchSize(c, name) > 0 /\ MiniBatchSize(c) % MicroBatchSize(c, name) = 0

(* What the driver knows: the workers' sizes are not its own. *)
PerGpuKnown(c) == c.given \in {"per_gpu", "both"}

(* The asserts of the FSDP workers' constructors... *)
FsdpStarts(c) ==
  /\ MiniBatchSize(c) > 0 /\ Divides(c, "update_actor")
  /\ UseCritic(c) => Divides(c, "update_critic")

(* ...and of the Megatron reference's. *)
MegatronStarts(c) == c.ref => c.given # "none"

(* The trainer and its workers come up. *)
Startable(c) == Valid(c) /\ IF c.backend = "fsdp" THEN FsdpStarts(c) ELSE MegatronStarts(c)
=============================================================================
