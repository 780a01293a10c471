----------------------------- MODULE Deployment -----------------------------
(***************************************************************************)
(* What RayPPOTrainer.init_workers decides before an actor runs: the pool  *)
(* of GPUs, the nodes its placement groups are put on, and, for the roles  *)
(* that share the pool, one class of worker that holds an instance of each *)
(* role's class and the names under which the driver reaches their         *)
(* methods.                                                                *)
(*                                                                         *)
(* A name is the sequence of its words: "actor_rollout_init_model" starts  *)
(* with "actor_rollout_" when the sequence starts with the role's words.   *)
(* Nodes are numbered in the order of their addresses.                     *)
(***************************************************************************)
EXTENDS Integers, SequencesExt, FiniteSetsExt

CONSTANTS
  NodeCount,    \* nodes of the pool
  PerNode,      \* processes on each
  Deployments   \* what may be deployed: records [roles, style, mode, lora, gpus, layouts, infer_tps],
                \* gpus the free ones of each node

ASSUME PoolAssumption == NodeCount \in Nat \ {0} /\ PerNode \in Nat \ {0}

AllRoles == {"actor_rollout", "critic", "ref", "rm"}

ASSUME DeploymentsAssumption ==
  \A d \in Deployments :
    /\ d.roles \in Seq(AllRoles) /\ "actor_rollout" \in Range(d.roles)
    /\ d.lora \in BOOLEAN /\ d.gpus \in Seq(Nat)

WorldSize == NodeCount * PerNode

Ranks == 0 .. WorldSize - 1
----------------------------------------------------------------------------
(* The pool *)

Nodes(d) == DOMAIN d.gpus

(* Mutant: only the sum is looked at. *)
EnoughInAll(d) == FoldSet(LAMBDA n, all : all + d.gpus[n], 0, Nodes(d)) >= WorldSize

(* _check_resource_available *)
Sufficient(d) ==
  /\ FoldSet(LAMBDA n, all : all + d.gpus[n], 0, Nodes(d)) >= WorldSize
  /\ Cardinality({n \in Nodes(d) : d.gpus[n] >= PerNode}) >= NodeCount

(* get_placement_groups: where ray may put the groups, each on one node.    *)
Placements(d) ==
  {p \in [1 .. NodeCount -> Nodes(d)] :
     \A n \in Nodes(d) : PerNode * Cardinality({k \in DOMAIN p : p[k] = n}) <= d.gpus[n]}

(* Mutant: the groups in the order in which they were asked for. *)
AsAsked(placed) == placed

(* The i-th group in order is on the node that has fewer than i groups      *)
(* before it and, with its own, i or more.                                  *)
sort_placement_group_by_node_ip(placed) ==
  LET UpTo(n) == Cardinality({k \in DOMAIN placed : placed[k] <= n})
  IN  [i \in DOMAIN placed |-> CHOOSE n \in Range(placed) : UpTo(n - 1) < i /\ i <= UpTo(n)]

NodeOf(placed, r) == sort_placement_group_by_node_ip(placed)[(r \div PerNode) + 1]
----------------------------------------------------------------------------
(* The roles *)

Words(role) ==
  CASE role = "actor_rollout" -> <<"actor", "rollout">>
    [] role = "critic" -> <<"critic">>
    [] role = "ref" -> <<"ref">>
    [] role = "rm" -> <<"rm">>

(* The methods of the roles' classes that are registered, by their words;   *)
(* every class has those of Worker, and "ref" is of the same class as       *)
(* "actor_rollout" unless the rollout is asynchronous.                      *)
InitModelName == <<"init", "model">>
WorkerMethods == {<<"execute", "with", "func", "generator">>, <<"execute", "func", "rank", "zero">>}
Checkpoints == {<<"save", "checkpoint">>, <<"load", "checkpoint">>}
DirectMethods == {<<"execute", "method">>}
ActorMethods == {<<"update", "actor">>, <<"generate", "sequences">>, <<"compute", "log", "prob">>, <<"compute", "ref", "log", "prob">>}

Registered(d, role) ==
  WorkerMethods \union {InitModelName} \union
  CASE role = "critic" -> Checkpoints \union {<<"compute", "values">>, <<"update", "critic">>}
    [] role = "rm" -> {<<"compute", "rm", "score">>}
    [] role = "ref" -> Checkpoints \union ActorMethods
    [] OTHER -> Checkpoints \union ActorMethods \union
                IF d.mode = "async" THEN DirectMethods \union {<<"resume">>, <<"offload">>} ELSE {}

IsDirect(role, m) == m \in DirectMethods /\ "rollout" \in Range(Words(role))

Handler(role, m) == [role |-> role, method |-> m]

(* Mutant: the methods are bound by their own names, the last role's stay.  *)
WithoutPrefix(d, role, m) == m
(* _bind_workers_method_to_parent: the name of a role's method in the class *)
(* that holds all.                                                          *)
ParentName(d, role, m) == IF IsDirect(role, m) THEN m ELSE Words(role) \o m

(* What a name of that class calls: its own methods of Worker, and those    *)
(* bound to it, a later role's over an earlier one's.                       *)
BoundTo(d, name) ==
  LET RolesWith == {i \in DOMAIN d.roles : \E m \in Registered(d, d.roles[i]) : ParentName(d, d.roles[i], m) = name}
      role      == d.roles[Max(RolesWith)]
  IN  IF RolesWith # {}
      THEN {Handler(role, CHOOSE m \in Registered(d, role) : ParentName(d, role, m) = name)}
      ELSE IF name \in WorkerMethods THEN {Handler("parent", name)} ELSE {}

(* spawn: a role's group has every method under its name with the role's    *)
(* prefix taken off, over one that had this name already.                   *)
Spawned(d, role, m) ==
  IF BoundTo(d, Words(role) \o m) # {} THEN BoundTo(d, Words(role) \o m) ELSE BoundTo(d, m)

(* spawn_fused: the group has the methods of the role's class, and names    *)
(* the class in every call (_fuw_execute).                                  *)
SpawnedFused(d, role, m) == IF m \in Registered(d, role) THEN {Handler(role, m)} ELSE {}

(* Who runs method m when the driver calls it on the group of a role.       *)
Reached(d, role, m) == IF d.style = "fused" THEN SpawnedFused(d, role, m) ELSE Spawned(d, role, m)

(* Mutant: the order in which the classes were listed. *)
AsListed(d) == SelectSeq(d.roles, LAMBDA role : ~(role = "ref" /\ d.lora))

(* The roles whose models are built, in this order: with LoRA the actor     *)
(* without its adapter is the reference, and the engine comes last, for it  *)
(* takes what memory it finds.                                              *)
InitOrder(d) ==
  LET Built(role) == IF role \in Range(d.roles) /\ ~(role = "ref" /\ d.lora) THEN <<role>> ELSE << >>
  IN  Built("critic") \o Built("ref") \o Built("rm") \o Built("actor_rollout")

(* The group fit asks for the reference's log-probs. *)
RefGroup(d) == IF d.lora THEN "actor_rollout" ELSE "ref"
=============================================================================
