----------------------------- MODULE RemoteCall -----------------------------
(***************************************************************************)
(* The calls of the driver to a worker group, from the start of the group  *)
(* on.  A call is issued to every worker with its part of the batch; a     *)
(* worker takes it up when its constructor is over; the workers compute    *)
(* together, so none is through before all are in; the driver waits for    *)
(* all outputs, collects them and cuts the padding off.                    *)
(*                                                                         *)
(* A row stands for its own result.  The first calls are init_model.       *)
(***************************************************************************)
EXTENDS WorkerGroup, Dispatch

CONSTANTS
  MaxRows,    \* bound: rows of a batch
  MaxCalls    \* bound: calls after init_model

ASSUME BoundsAssumption == MaxRows \in Nat /\ MaxCalls \in Nat

ASSUME LayoutsAssumption ==
  \A d \in Deployments :
    /\ d.layouts \subseteq Layouts(WorldSize)
    /\ d.infer_tps \subseteq Nat \ {0} /\ \A n \in d.infer_tps : WorldSize % n = 0

VARIABLES
  layout,   \* Megatron's [tp, cp, dp, pp]; with FSDP only its size matters
  infer_tp, \* ranks that generate together
  calls,    \* calls issued
  call,     \* the last one: its mode, method, rows and padding
  at,       \* of a rank: "idle", "called", "inside", "done"
  arg,      \* the rows sent to a rank
  output,   \* the rows it returns
  result,   \* what the driver gets
  models    \* the roles whose models a rank has built

callVars == <<layout, infer_tp, calls, call, at, arg, output, result, models>>

vars == <<deployment, placed, driver, next_rank, center, info, given, worker, port_taken, layout,
          infer_tp, calls, call, at, arg, output, result, models>>

Paddings == {"none", "caller", "auto positional", "auto keyword"}

InitModel(role) == [role |-> role, mode |-> "ONE_TO_ALL", method |-> "init_model", rows |-> 0, padding |-> "none"]

(* How rows are dealt does not depend on the role: those of the other roles *)
(* are called with a batch for all.                                         *)
Calls ==
  [role : {"actor_rollout"}, mode : Modes, method : {"compute"}, rows : 1 .. MaxRows, padding : {"none", "caller"}] \cup
  [role : {"actor_rollout"}, mode : {"DP_COMPUTE_PROTO"}, method : {"compute", "generate_sequences"}, rows : 1 .. MaxRows,
   padding : Paddings] \cup
  [role : Range(InitOrder(deployment)), mode : {"ONE_TO_ALL"}, method : {"compute"}, rows : {1}, padding : {"none"}]

Init ==
  /\ GroupInit
  /\ layout \in deployment.layouts /\ infer_tp \in deployment.infer_tps
  /\ calls = 0 /\ call = InitModel("actor_rollout")
  /\ models = [r \in Ranks |-> {}]
  /\ at = [r \in Ranks |-> "idle"]
  /\ arg = [r \in Ranks |-> <<>>] /\ output = [r \in Ranks |-> <<>>] /\ result = <<>>

Batch(c) == [i \in 1 .. c.rows |-> i]

(* What the driver cuts into parts: keyword arguments are never padded.     *)
Padded(c) ==
  CASE c.padding = "caller" -> PadToDivisor(Batch(c), WorldSize)
    [] c.padding = "auto positional" -> PadLast(Batch(c), PadSize(c.rows, WorldSize))
    [] OTHER -> Batch(c)

(* The rows cut off the collected output, by the caller or func_generator;  *)
(* for keyword arguments a whole round when the rows divide.                *)
PaddingCount(c) ==
  CASE c.padding = "none" -> 0
    [] c.padding \in {"caller", "auto positional"} -> PadSize(c.rows, WorldSize)
    [] c.padding = "auto keyword" -> WorldSize - (c.rows % WorldSize)

(* chunk's assertion holds, or, when padding is enabled, its index exists.  *)
Splits(c) ==
  LET n == Len(Padded(c)) parts == Parts(c.mode, layout) IN
  IF c.padding \in {"auto positional", "auto keyword"} THEN CanChunk(n, parts) ELSE n % parts = 0

Dispatched(c) ==
  [r \in Ranks |->
     IF c.mode = "ONE_TO_ALL" THEN Padded(c)
     ELSE Chunk(Padded(c), Parts(c.mode, layout))[PartOf(c.mode, layout, r)]]

Idle == \A r \in Ranks : at[r] = "idle"

Issue(c) ==
  /\ driver = "created" /\ Idle
  /\ calls' = calls + 1
  /\ call' = c
  /\ IF Splits(c)
     THEN /\ at' = [r \in Ranks |-> "called"]
          /\ arg' = Dispatched(c)
          /\ UNCHANGED driver
     ELSE /\ driver' = "raised"
          /\ UNCHANGED <<at, arg>>
  /\ result' = <<>>
  /\ UNCHANGED <<deployment, placed, next_rank, center, info, given, worker, port_taken, layout, infer_tp, output, models>>

FirstCalls == Len(InitOrder(deployment))

InitModels == calls < FirstCalls /\ Issue(InitModel(InitOrder(deployment)[calls + 1]))

NextCall == /\ calls \in FirstCalls .. FirstCalls + MaxCalls - 1
            /\ \E c \in Calls : Issue(c)

(* The actor's queue: a method runs when the constructor has returned.      *)
Enter(r) ==
  /\ at[r] = "called" /\ worker[r] = "up"
  /\ at' = [at EXCEPT ![r] = "inside"]
  /\ UNCHANGED <<groupVars, layout, infer_tp, calls, call, arg, output, result, models>>

InferGroup(r) == [i \in 1 .. infer_tp |-> (r \div infer_tp) * infer_tp + i - 1]

(* A SGLang engine takes the devices of all the ranks it serves, by the     *)
(* numbers they have on their nodes; where these are fewer than the ranks   *)
(* it has a process on several nodes, made by the first rank on each.       *)
DeviceOf(r) == Cardinality({q \in 0 .. r - 1 : NodeOf(placed, q) = NodeOf(placed, r)})

VisibleDevices(r) == {DeviceOf(InferGroup(r)[i]) : i \in 1 .. infer_tp}

(* Mutant: as many nodes as placement groups. *)
AsManyGroups(r) == (infer_tp + PerNode - 1) \div PerNode
EngineNodes(r) == (infer_tp + Cardinality(VisibleDevices(r)) - 1) \div Cardinality(VisibleDevices(r))

PerEngineNode(r) == infer_tp \div EngineNodes(r)

MakesEngine(r) == (r % infer_tp) % PerEngineNode(r) = 0

(* The devices such a process works on: the first of those it sees.         *)
EngineDevices(r) ==
  {<<NodeOf(placed, r), v>> : v \in {v \in VisibleDevices(r) :
                                      Cardinality({w \in VisibleDevices(r) : w < v}) < PerEngineNode(r)}}

(* The rows a rank computes on: generation gathers those of the ranks it    *)
(* generates with (preprocess_data).                                        *)
Input(r) ==
  IF call.method = "generate_sequences"
  THEN Concat([i \in 1 .. infer_tp |-> arg[InferGroup(r)[i]]])
  ELSE arg[r]

(* Mutant: the place in the group instead of the place in the data.         *)
OwnChunkByGroup(r) == Chunk(Input(r), infer_tp)[((r \div infer_tp) % infer_tp) + 1]

(* postprocess_data: the rank's own rows of what its group generated.       *)
OwnChunk(r) == Chunk(Input(r), infer_tp)[(r % infer_tp) + 1]

Computed(r) ==
  CASE call.method = "generate_sequences" -> OwnChunk(r)
    [] call.mode = "ONE_TO_ALL" -> <<r>>
    [] OTHER -> arg[r]

(* The collectives inside a method hold a rank until all are inside.        *)
Finish(r) ==
  /\ at[r] = "inside" /\ \A q \in Ranks : at[q] \in {"inside", "done"}
  /\ at' = [at EXCEPT ![r] = "done"]
  /\ output' = [output EXCEPT ![r] = Computed(r)]
  /\ models' = IF call.method # "init_model" THEN models
               ELSE [models EXCEPT ![r] = @ \cup {h.role : h \in Reached(deployment, call.role, InitModelName)}]
  /\ UNCHANGED <<groupVars, layout, infer_tp, calls, call, arg, result>>

(* ray.get over the outputs, collect_fn and the cut. *)
Return ==
  /\ \A r \in Ranks : at[r] = "done"
  /\ result' = Unpad(Collect(call.mode, layout, output), PaddingCount(call))
  /\ at' = [r \in Ranks |-> "idle"]
  /\ UNCHANGED <<groupVars, layout, infer_tp, calls, call, arg, output, models>>

(* A worker died in its constructor: ray.get raises. *)
CallRaises ==
  /\ driver = "created" /\ \E r \in Ranks : at[r] = "called" /\ worker[r] = "dead"
  /\ driver' = "raised"
  /\ UNCHANGED <<deployment, placed, next_rank, center, info, given, worker, port_taken, callVars>>

Driver ==
  \/ InitModels \/ Return \/ CallRaises
  \/ (CheckResources \/ PlaceGroups \/ CreateWorker \/ FindCenter) /\ UNCHANGED callVars

Worker(r) == Enter(r) \/ Finish(r) \/ (Start(r) /\ UNCHANGED callVars)

Next ==
  \/ Driver \/ NextCall
  \/ \E r \in Ranks : Worker(r)
  \/ (MakeCenter \/ CenterTimeout \/ TakeMasterPort) /\ UNCHANGED callVars

Spec == Init /\ [][Next]_vars

(* The driver and every actor run on; timeouts and other programs owe       *)
(* nothing.                                                                 *)
FairSpec ==
  /\ Spec /\ WF_vars(Driver) /\ WF_vars(MakeCenter /\ UNCHANGED callVars)
  /\ \A r \in Ranks : WF_vars(Worker(r))
----------------------------------------------------------------------------
(* Properties *)

(* Types. *)
TypeOK ==
  /\ deployment \in Deployments /\ (placed = << >> \/ placed \in Placements(deployment))
  /\ driver \in {"checking", "placing", "creating", "finding", "created", "raised"}
  /\ next_rank \in 0 .. WorldSize /\ center \in BOOLEAN /\ port_taken \in BOOLEAN
  /\ info \subseteq Ranks /\ given \subseteq Ranks
  /\ worker \in [Ranks -> {"none", "starting", "registered", "joining", "up", "dead"}]
  /\ layout \in Layouts(WorldSize) /\ infer_tp \in 1 .. WorldSize
  /\ calls \in 0 .. FirstCalls + MaxCalls /\ call \in Calls \cup {InitModel(role) : role \in Range(deployment.roles)}
  /\ at \in [Ranks -> {"idle", "called", "inside", "done"}]
  /\ \A r \in Ranks : at[r] # "idle" => arg[r] \in Seq(1 .. call.rows) /\ Len(arg[r]) < call.rows + WorldSize

Returned == driver = "created" /\ calls >= FirstCalls /\ Idle

(* The driver creates ranks only when the center answers, so a worker that  *)
(* looks it up in its constructor finds it.                                 *)
CenterBeforeRanks == \A r \in Ranks \ {0} : worker[r] # "none" => center /\ r \in given

(* Once init_model has returned, every rank's node is registered: what the  *)
(* server manager asserts before it places a server beside each of them.    *)
NodesRegistered == Returned => info = Ranks

(* One dimension of the layout has all the data ranks and stages. *)
OneDimension(lay) == Cardinality({d \in {"cp", "dp", "pp"} : lay[d] > 1}) <= 1

(* Whatever the mode, the layout, the padding and the order in which the    *)
(* workers finish, the driver gets one result per row, in the order of the  *)
(* rows.  (Two exceptions: pp_as_dp over several dimensions returns them    *)
(* reordered, so with padding other rows are cut than were added; and for   *)
(* keyword arguments the cut takes rows of the batch, from its end, for     *)
(* nothing was added.)                                                      *)
RowsComeBack ==
  Returned /\ call.mode # "ONE_TO_ALL" =>
    IF call.mode # "MEGATRON_PP_AS_DP_PROTO" \/ OneDimension(layout)
    THEN /\ IsPrefix(result, Batch(call))
         /\ call.padding # "auto keyword" => Len(result) = call.rows
    ELSE Len(result) = call.rows /\ (PaddingCount(call) = 0 => Range(result) = 1 .. call.rows)

(* Ranks that compute one shard of a model together do so on the same rows. *)
SameInput ==
  \A q, r \in Ranks :
    at[q] = "inside" /\ at[r] = "inside" =>
      /\ call.mode = "MEGATRON_COMPUTE_PROTO" /\ DpRank(layout, q) = DpRank(layout, r) => Input(q) = Input(r)
      /\ call.method = "generate_sequences" /\ q \div infer_tp = r \div infer_tp => Input(q) = Input(r)

(* Creating a group and calling it ends: with results, or with an exception *)
(* in the driver when the center does not come, the batch does not divide   *)
(* or a constructor failed.                                                 *)
CallsEnd == []<>(Returned \/ driver = "raised")

(* Whatever roles share the workers, a method called on a role's group is   *)
(* run by that role's own class.                                            *)
RolesApart ==
  driver = "placing" =>
    \A role \in Range(deployment.roles) : \A m \in Registered(deployment, role) :
      Reached(deployment, role, m) = {Handler(role, m)}

(* A call finds its role's model built; the engine's memory is taken when   *)
(* every other model has its own; and the reference is one of the models.   *)
ModelsBuilt ==
  /\ \A r \in Ranks :
       at[r] = "inside" =>
         IF call.method # "init_model" THEN call.role \in models[r]
         ELSE call.role = "actor_rollout" => models[r] = Range(InitOrder(deployment)) \ {"actor_rollout"}
  /\ Returned /\ "ref" \in Range(deployment.roles) => \A r \in Ranks : RefGroup(deployment) \in models[r]

(* A job that is given the same nodes again has the same ranks on them,     *)
(* where they left their shards of the checkpoint.                          *)
RanksStay ==
  placed # << >> =>
    \A p \in Placements(deployment) :
      (\A n \in Nodes(deployment) : Cardinality({k \in DOMAIN p : p[k] = n}) = Cardinality({k \in DOMAIN p : placed[k] = n}))
        => \A r \in Ranks : NodeOf(p, r) = NodeOf(placed, r)

(* Every node of the pool has as many ranks as the others, and the ranks    *)
(* that generate together are those of whole nodes or an even part of one's.*)
Aligned ==
  LET RanksOn(n) == PerNode * Cardinality({k \in DOMAIN placed : placed[k] = n})
  IN  \A m, n \in Range(placed) :
        RanksOn(m) = RanksOn(n) /\ (RanksOn(n) % infer_tp = 0 \/ infer_tp % RanksOn(n) = 0)

(* On nodes that are used alike the processes of an engine work on the      *)
(* devices of its own ranks, on each of them once.                          *)
EnginesApart ==
  driver = "creating" /\ next_rank = 0 /\ Aligned =>
    \A r \in Ranks :
      LET group == Range(InferGroup(r))
          makers == {q \in group : MakesEngine(q)}
      IN  /\ UNION {EngineDevices(q) : q \in makers} = {<<NodeOf(placed, q), DeviceOf(q)>> : q \in group}
          /\ \A p, q \in makers : p # q => EngineDevices(p) \intersect EngineDevices(q) = {}

(* A call finds its group complete and in order: the center was there       *)
(* before the ranks that look it up, every rank has registered, ranks that  *)
(* compute one shard of a model together get the same rows, and the role    *)
(* it is meant for takes it, with its model, on the node it had before and  *)
(* with an engine on the devices of its own group.                          *)
CallsFindTheGroup ==
  TypeOK /\ CenterBeforeRanks /\ NodesRegistered /\ SameInput /\ RolesApart /\ ModelsBuilt /\ RanksStay /\ EnginesApart
=============================================================================
