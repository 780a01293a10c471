---------------------------- MODULE WorkerGroup -----------------------------
(***************************************************************************)
(* The start of a RayWorkerGroup.  The driver checks that the GPUs are     *)
(* there, has ray place the groups of them, creates the actor of rank zero,*)
(* waits until that actor's register center has a name in ray, reads   *)
(* from it the address of the process group, and creates the other actors  *)
(* with that address in their environment.  Every actor registers its node *)
(* while it is constructed and then joins the process group, whose store   *)
(* rank zero hosts on a port it drew earlier.                              *)
(*                                                                         *)
(* All pools are even (n_gpus_per_node on every node), as                  *)
(* ResourcePoolManager makes them.                                         *)
(***************************************************************************)
EXTENDS Deployment

VARIABLES
  deployment,  \* what is deployed, and the GPUs that were free
  placed,      \* the node of each placement group
  driver,      \* "checking", "placing", "creating", "finding", "created", "raised"
  next_rank,   \* the rank created next
  center,      \* whether the register center can be found
  info,        \* ranks in the center's workers_info
  given,       \* ranks whose environment names the master
  worker,      \* "none", "starting", "registered", "joining", "up", "dead"
  port_taken   \* whether another program has bound the master port

groupVars == <<deployment, placed, driver, next_rank, center, info, given, worker, port_taken>>

GroupInit ==
  /\ deployment \in Deployments /\ placed = << >>
  /\ driver = "checking" /\ next_rank = 0
  /\ center = FALSE /\ info = {} /\ given = {}
  /\ worker = [r \in Ranks |-> "none"]
  /\ port_taken = FALSE

(* create_resource_pool *)
CheckResources ==
  /\ driver = "checking"
  /\ driver' = IF Sufficient(deployment) THEN "placing" ELSE "raised"
  /\ UNCHANGED <<deployment, placed, next_rank, center, info, given, worker, port_taken>>

(* get_placement_groups waits, without a limit, until all are ready.        *)
PlaceGroups ==
  /\ driver = "placing"
  /\ placed' \in Placements(deployment)
  /\ driver' = "creating"
  /\ UNCHANGED <<deployment, next_rank, center, info, given, worker, port_taken>>

AfterCreate == IF next_rank = 0 THEN "finding" ELSE IF next_rank = WorldSize - 1 THEN "created" ELSE "creating"

(* _init_with_resource_pool: one actor; the master's address is in the      *)
(* environment of every rank but zero.                                      *)
CreateWorker ==
  /\ driver = "creating" /\ next_rank < WorldSize
  /\ worker' = [worker EXCEPT ![next_rank] = "starting"]
  /\ given' = IF next_rank = 0 THEN given ELSE given \cup {next_rank}
  /\ next_rank' = next_rank + 1
  /\ driver' = AfterCreate
  /\ UNCHANGED <<deployment, placed, center, info, port_taken>>

(* The center is found and answers with rank_zero_info. *)
FindCenter ==
  /\ driver = "finding" /\ center
  /\ driver' = IF next_rank = WorldSize THEN "created" ELSE "creating"
  /\ UNCHANGED <<deployment, placed, next_rank, center, info, given, worker, port_taken>>

(* ray_wait_register_center_timeout has passed. *)
CenterTimeout ==
  /\ driver = "finding" /\ ~center
  /\ driver' = "raised"
  /\ UNCHANGED <<deployment, placed, next_rank, center, info, given, worker, port_taken>>

(* Mutant: the center is made once the process group is there. *)
BeforeCenter == worker[0] = "up"

ConfiguredFirst == worker[0] = "starting"

(* _configure_before_init, before rank zero's constructor: it draws the     *)
(* master's port and makes the center.                                      *)
MakeCenter ==
  /\ ConfiguredFirst /\ ~center
  /\ center' = TRUE
  /\ UNCHANGED <<deployment, placed, driver, next_rank, info, given, worker, port_taken>>

(* Mutant: the center knows only the last worker. *)
SetLast(r) ==
  /\ worker[r] = "starting" /\ center
  /\ info' = {r}
  /\ worker' = [worker EXCEPT ![r] = "registered"]
  /\ UNCHANGED <<deployment, placed, driver, next_rank, center, given, port_taken>>

(* set_worker_info, which every rank calls from __new__. *)
SetWorkerInfo(r) ==
  /\ worker[r] = "starting" /\ center
  /\ info' = info \cup {r}
  /\ worker' = [worker EXCEPT ![r] = "registered"]
  /\ UNCHANGED <<deployment, placed, driver, next_rank, center, given, port_taken>>

(* Another program binds the port rank zero drew and released. *)
TakeMasterPort ==
  /\ center /\ worker[0] \in {"starting", "registered"} /\ ~port_taken
  /\ port_taken' = TRUE
  /\ UNCHANGED <<deployment, placed, driver, next_rank, center, info, given, worker>>

(* init_process_group starts: rank zero hosts the store, or raises in its   *)
(* constructor when the port is in use.                                     *)
Join(r) ==
  /\ worker[r] = "registered"
  /\ worker' = [worker EXCEPT ![r] = IF r = 0 /\ port_taken THEN "dead" ELSE "joining"]
  /\ UNCHANGED <<deployment, placed, driver, next_rank, center, info, given, port_taken>>

AllJoined == \A r \in Ranks : worker[r] \in {"joining", "up"}

(* init_process_group returns when every rank has joined. *)
Up(r) ==
  /\ worker[r] = "joining" /\ AllJoined
  /\ worker' = [worker EXCEPT ![r] = "up"]
  /\ UNCHANGED <<deployment, placed, driver, next_rank, center, info, given, port_taken>>

(* The process group's timeout: the store never came, or not all ranks did. *)
JoinTimeout(r) ==
  /\ worker[r] = "joining" /\ worker[0] = "dead"
  /\ worker' = [worker EXCEPT ![r] = "dead"]
  /\ UNCHANGED <<deployment, placed, driver, next_rank, center, info, given, port_taken>>

Start(r) == SetWorkerInfo(r) \/ Join(r) \/ Up(r) \/ JoinTimeout(r)
=============================================================================
