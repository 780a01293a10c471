---------------------------- MODULE ServerStart -----------------------------
(***************************************************************************)
(* How AsyncLLMServerManager starts its servers.  Every server is an actor *)
(* of its own: it draws a free port, opens its application and binds the   *)
(* port, while other programs of the node bind ports too.  The manager     *)
(* asks the servers for their addresses one after the other, starts those  *)
(* anew that died, lets every server build its engine and waits for the    *)
(* thread in which the chat scheduler is made.                             *)
(*                                                                         *)
(* uvicorn opens the application (server_ready) before it binds.  Nothing  *)
(* waits between the two, so the bind is over before a call that is sent   *)
(* after the answer (init_engine) is served.                               *)
(***************************************************************************)
EXTENDS Integers, FiniteSets

CONSTANTS
  Dp,         \* rollout_dp_size
  Tp,         \* rollout_tp_size
  PerNode,    \* workers on a node
  Ports,      \* the ports of a node
  MaxTaken    \* bound: ports other programs bind meanwhile

ASSUME SizesAssumption == Dp \in Nat \ {0} /\ Tp \in Nat \ {0} /\ PerNode \in Nat \ {0}
ASSUME PortsAssumption == Ports \subseteq Nat \ {0} /\ MaxTaken \in Nat

Ranks == 0 .. Dp - 1

NoPort == 0

(* workers_info[rollout_dp_rank * rollout_tp_size]: worker i is on node     *)
(* i \div PerNode, for the workers are numbered node by node.               *)
Node(r) == (r * Tp) \div PerNode

Nodes == {Node(r) : r \in Ranks}

VARIABLES
  mgr,      \* where the manager's constructor is
  unready,  \* unready_dp_ranks
  to_ask,   \* the servers of this round whose address is still to be got
  server,   \* of a rank: "none", "new", "chosen", "ready", "listening", "dead"
  port,     \* the server's port
  server_addresses, \* of a rank, once it answered
  engine,   \* whether init_engine is done
  thread,   \* of the chat scheduler: "none", "running", "set", "failed"
  taken     \* ports of other programs, by node

vars == <<mgr, unready, to_ask, server, port, server_addresses, engine, thread, taken>>

Init ==
  /\ mgr = "starting"
  /\ unready = Ranks /\ to_ask = {}
  /\ server = [r \in Ranks |-> "none"]
  /\ port = [r \in Ranks |-> NoPort]
  /\ server_addresses = [r \in Ranks |-> NoPort]
  /\ engine = [r \in Ranks |-> FALSE]
  /\ thread = "none"
  /\ taken = [n \in Nodes |-> {}]

Listening(n) == {r \in Ranks : server[r] = "listening" /\ Node(r) = n}

Bound(n) == taken[n] \cup {port[r] : r \in Listening(n)}
----------------------------------------------------------------------------
(* The servers *)

(* _get_free_port: the port is free now; it is not kept. *)
Choose(r) ==
  /\ server[r] = "new"
  /\ \E p \in Ports \ Bound(Node(r)) : port' = [port EXCEPT ![r] = p]
  /\ server' = [server EXCEPT ![r] = "chosen"]
  /\ UNCHANGED <<mgr, unready, to_ask, server_addresses, engine, thread, taken>>

(* lifespan up to its yield: server_ready is set. *)
Lifespan(r) ==
  /\ server[r] = "chosen"
  /\ server' = [server EXCEPT ![r] = "ready"]
  /\ UNCHANGED <<mgr, unready, to_ask, port, server_addresses, engine, thread, taken>>

(* Mutant: a port that is in use is shared. *)
AlwaysBinds(r) == TRUE

CanBind(r) == port[r] \notin Bound(Node(r))

(* serve binds the port; when it is in use the application is shut down,    *)
(* which ends the process.                                                  *)
Bind(r) ==
  /\ server[r] = "ready"
  /\ server' = [server EXCEPT ![r] = IF CanBind(r) THEN "listening" ELSE "dead"]
  /\ UNCHANGED <<mgr, unready, to_ask, port, server_addresses, engine, thread, taken>>

(* Another program of the node binds a port. *)
TakePort(n, p) ==
  /\ p \in Ports \ Bound(n) /\ Cardinality(taken[n]) < MaxTaken
  /\ taken' = [taken EXCEPT ![n] = @ \cup {p}]
  /\ UNCHANGED <<mgr, unready, to_ask, server, port, server_addresses, engine, thread>>
----------------------------------------------------------------------------
(* The manager *)

Restarted == unready

(* The servers dict: one new actor for every unready rank. *)
CreateServers ==
  /\ mgr = "starting" /\ unready # {}
  /\ mgr' = "asking"
  /\ server' = [r \in Ranks |-> IF r \in Restarted THEN "new" ELSE server[r]]
  /\ to_ask' = Restarted
  /\ UNCHANGED <<unready, port, server_addresses, engine, thread, taken>>

Dead(r) == server[r] = "dead"

NextAsked(r) == mgr = "asking" /\ r \in to_ask /\ \A q \in to_ask : r <= q

(* get_server_address answers: it waits for server_ready only. *)
GetAddress(r) ==
  /\ NextAsked(r)
  /\ server[r] \in {"ready", "listening"}
  /\ server_addresses' = [server_addresses EXCEPT ![r] = port[r]]
  /\ unready' = unready \ {r}
  /\ to_ask' = to_ask \ {r}
  /\ UNCHANGED <<mgr, server, port, engine, thread, taken>>

(* The actor is dead, the call raises, and kill finds nothing to do. *)
GetAddressRaises(r) ==
  /\ NextAsked(r)
  /\ Dead(r)
  /\ to_ask' = to_ask \ {r}
  /\ UNCHANGED <<mgr, unready, server, port, server_addresses, engine, thread, taken>>

AfterRound == IF unready = {} THEN "engines" ELSE "starting"

(* The for loop over the servers ends; the while loop decides. *)
EndRound ==
  /\ mgr = "asking" /\ to_ask = {}
  /\ mgr' = AfterRound
  /\ UNCHANGED <<unready, to_ask, server, port, server_addresses, engine, thread, taken>>

(* A server builds its engine over the workers of its rank. *)
InitEngine(r) ==
  /\ mgr = "engines" /\ server[r] = "listening" /\ ~engine[r]
  /\ engine' = [engine EXCEPT ![r] = TRUE]
  /\ UNCHANGED <<mgr, unready, to_ask, server, port, server_addresses, thread, taken>>

(* A server that answered died since: ray.get raises, and with it the       *)
(* constructor.                                                             *)
InitEngineRaises ==
  /\ mgr = "engines" /\ \E r \in Ranks : server[r] = "dead"
  /\ mgr' = "crashed"
  /\ UNCHANGED <<unready, to_ask, server, port, server_addresses, engine, thread, taken>>

EnginesDone == \A r \in Ranks : engine[r]

StartThread ==
  /\ mgr = "engines" /\ EnginesDone
  /\ mgr' = "waiting" /\ thread' = "running"
  /\ UNCHANGED <<unready, to_ask, server, port, server_addresses, engine, taken>>

(* Mutant: ready is set, if at all, only after the loop has run. *)
NeverSet == "running"

SchedulerMade == "set"

(* _init_chat_scheduler up to chat_scheduler_ready.set() *)
InitScheduler ==
  /\ thread = "running" /\ thread' = SchedulerMade
  /\ UNCHANGED <<mgr, unready, to_ask, server, port, server_addresses, engine, taken>>

(* The import or the constructor of the scheduler raises in its thread. *)
InitSchedulerRaises ==
  /\ thread = "running" /\ thread' = "failed"
  /\ UNCHANGED <<mgr, unready, to_ask, server, port, server_addresses, engine, taken>>

(* chat_scheduler_ready.wait() returns. *)
Running ==
  /\ mgr = "waiting" /\ thread = "set"
  /\ mgr' = "running"
  /\ UNCHANGED <<unready, to_ask, server, port, server_addresses, engine, thread, taken>>

Ask(r) == GetAddress(r) \/ GetAddressRaises(r)

Manager ==
  \/ CreateServers \/ EndRound \/ InitEngineRaises \/ StartThread \/ Running
  \/ \E r \in Ranks : Ask(r)

Server(r) == Choose(r) \/ Lifespan(r) \/ Bind(r) \/ InitEngine(r)

Next ==
  \/ Manager \/ InitScheduler \/ InitSchedulerRaises
  \/ \E r \in Ranks : Server(r)
  \/ \E n \in Nodes, p \in Ports : TakePort(n, p)

Spec == Init /\ [][Next]_vars

(* The driver's thread, the event loop of every server and the scheduler's  *)
(* thread run on; other programs owe nothing.                               *)
FairSpec ==
  /\ Spec /\ WF_vars(Manager) /\ WF_vars(InitScheduler)
  /\ \A r \in Ranks : WF_vars(Server(r))
----------------------------------------------------------------------------
(* Properties *)

(* Types; a round asks only servers that are not ready. *)
TypeOK ==
  /\ mgr \in {"starting", "asking", "engines", "waiting", "running", "crashed"}
  /\ unready \subseteq Ranks /\ to_ask \subseteq unready
  /\ server \in [Ranks -> {"none", "new", "chosen", "ready", "listening", "dead"}]
  /\ port \in [Ranks -> Ports \cup {NoPort}]
  /\ server_addresses \in [Ranks -> Ports \cup {NoPort}]
  /\ engine \in [Ranks -> BOOLEAN]
  /\ thread \in {"none", "running", "set", "failed"}
  /\ taken \in [Nodes -> SUBSET Ports]

(* When the scheduler gets its addresses, every rank has one: its server    *)
(* listens there, its engine is built, and no other server of the node, of  *)
(* this program or another, has that port.                                  *)
EveryRankServed ==
  mgr \in {"waiting", "running"} =>
    \A r \in Ranks :
      /\ server[r] = "listening" /\ engine[r]
      /\ server_addresses[r] = port[r] /\ port[r] \in Ports \ taken[Node(r)]
      /\ \A q \in Ranks \ {r} : Node(q) = Node(r) => server_addresses[q] # server_addresses[r]

(* A new actor takes the name of a dead one: while the old one lives, the   *)
(* name is taken and options(name=...).remote raises in the constructor.    *)
NamesFree ==
  [][\A r \in Ranks : server'[r] = "new" /\ server[r] # "new" => server[r] \in {"none", "dead"}]_vars

(* The address of a rank that answered is never given up, nor its server    *)
(* started again, whatever happens to the others.                           *)
AnsweredStay ==
  [][\A r \in Ranks : server_addresses[r] # NoPort => server_addresses'[r] = server_addresses[r] /\ server'[r] # "new"]_vars

(* The constructor ends, with its servers running or by raising; it waits   *)
(* for ever only when the scheduler's thread raised before it set the event.*)
Starts == <>(mgr \in {"running", "crashed"} \/ thread = "failed")
=============================================================================
