--------------------------- MODULE Serving_proofs ----------------------------
(* What holds of the servers' start, of the chat scheduler and of the two   *)
(* together, for every number of ranks, ports, servers, sessions and        *)
(* requests, and every size of the cache; and of the scores and the         *)
(* semaphore of the scoring processes, for every number of rows, cases,     *)
(* permits, processes and batches, and all replies.                         *)
EXTENDS Serving, Scoring, FiniteSetTheorems, WellFoundedInduction, TLAPS

----------------------------------------------------------------------------
(* The servers' start *)

(* A rank is unready exactly as long as it has no address.                  *)
UnreadyHaveNone == \A r \in Ranks : r \in unready <=> server_addresses[r] = NoPort

(* A recorded address is the port of a server that has opened its           *)
(* application, and may have died since.                                    *)
AddressIsPort ==
  \A r \in Ranks : server_addresses[r] # NoPort =>
    /\ server_addresses[r] = port[r]
    /\ server[r] # "none" /\ server[r] # "new" /\ server[r] # "chosen"

PortDrawn ==
  \A r \in Ranks : server[r] = "chosen" \/ server[r] = "ready" \/ server[r] = "listening" => port[r] \in Ports

(* Bound ports are exclusive on their node. *)
Exclusive ==
  \A r \in Ranks : server[r] = "listening" =>
    /\ port[r] \notin taken[Node(r)]
    /\ \A q \in Ranks \ {r} : server[q] = "listening" /\ Node(q) = Node(r) => port[q] # port[r]

(* Engines are built when all have answered, over servers that listen.      *)
EnginesLast ==
  /\ mgr # "starting" /\ mgr # "asking" => unready = {}
  /\ \A r \in Ranks : engine[r] => server[r] = "listening" /\ mgr # "starting" /\ mgr # "asking"
  /\ mgr = "waiting" \/ mgr = "running" => \A r \in Ranks : engine[r]

(* In between rounds an unready server is dead, or was never started. *)
Given ==
  /\ mgr = "starting" => to_ask = {}
  /\ \A r \in unready \ to_ask : server[r] = "none" \/ server[r] = "dead"

ServersInv ==
  /\ TypeOK /\ UnreadyHaveNone /\ AddressIsPort /\ PortDrawn /\ Exclusive /\ EnginesLast /\ Given

LEMMA ServersType == NoPort \notin Ports /\ Ports \subseteq Nat
BY PortsAssumption DEF NoPort

LEMMA InitServers == Init => ServersInv
BY ServersType DEF Init, ServersInv, TypeOK, UnreadyHaveNone, AddressIsPort, PortDrawn, Exclusive, EnginesLast, Given

LEMMA KeepsChoose ==
  ASSUME NEW r \in Ranks, ServersInv, Choose(r)
  PROVE  ServersInv'
<1> USE ServersType DEF ServersInv
<1>1. TypeOK'
  BY DEF Choose, TypeOK
<1>2. UnreadyHaveNone'
  BY DEF Choose, TypeOK, UnreadyHaveNone, PortDrawn
<1>3. AddressIsPort'
  BY DEF Choose, TypeOK, AddressIsPort, PortDrawn
<1>4. PortDrawn'
  BY DEF Choose, TypeOK, PortDrawn
<1>5. Exclusive'
  BY DEF Choose, TypeOK, Exclusive
<1>6. EnginesLast'
  BY DEF Choose, TypeOK, EnginesLast
<1>7. Given'
  BY DEF Choose, TypeOK, Given
<1> QED  BY <1>1, <1>2, <1>3, <1>4, <1>5, <1>6, <1>7

LEMMA KeepsLifespan ==
  ASSUME NEW r \in Ranks, ServersInv, Lifespan(r)
  PROVE  ServersInv'
<1> USE ServersType DEF ServersInv
<1>1. TypeOK'
  BY DEF Lifespan, TypeOK
<1>2. UnreadyHaveNone'
  BY DEF Lifespan, TypeOK, UnreadyHaveNone, PortDrawn
<1>3. AddressIsPort'
  BY DEF Lifespan, TypeOK, AddressIsPort, PortDrawn
<1>4. PortDrawn'
  BY DEF Lifespan, TypeOK, PortDrawn
<1>5. Exclusive'
  BY DEF Lifespan, TypeOK, Exclusive
<1>6. EnginesLast'
  BY DEF Lifespan, TypeOK, EnginesLast
<1>7. Given'
  BY DEF Lifespan, TypeOK, Given
<1> QED  BY <1>1, <1>2, <1>3, <1>4, <1>5, <1>6, <1>7

LEMMA KeepsBind ==
  ASSUME NEW r \in Ranks, ServersInv, Bind(r)
  PROVE  ServersInv'
<1> USE ServersType DEF ServersInv
<1>1. TypeOK'
  BY DEF Bind, CanBind, Bound, Listening, TypeOK
<1>2. UnreadyHaveNone'
  BY DEF Bind, CanBind, Bound, Listening, TypeOK, UnreadyHaveNone, PortDrawn
<1>3. AddressIsPort'
  BY DEF Bind, CanBind, Bound, Listening, TypeOK, AddressIsPort, PortDrawn
<1>4. PortDrawn'
  BY DEF Bind, CanBind, Bound, Listening, TypeOK, PortDrawn
<1>5. Exclusive'
  BY DEF Bind, CanBind, Bound, Listening, TypeOK, Exclusive
<1>6. EnginesLast'
  BY DEF Bind, CanBind, Bound, Listening, TypeOK, EnginesLast
<1>7. Given'
  BY DEF Bind, CanBind, Bound, Listening, TypeOK, Given
<1> QED  BY <1>1, <1>2, <1>3, <1>4, <1>5, <1>6, <1>7

LEMMA KeepsInitEngine ==
  ASSUME NEW r \in Ranks, ServersInv, InitEngine(r)
  PROVE  ServersInv'
<1> USE ServersType DEF ServersInv
<1>1. TypeOK'
  BY DEF InitEngine, TypeOK
<1>2. UnreadyHaveNone'
  BY DEF InitEngine, TypeOK, UnreadyHaveNone, PortDrawn
<1>3. AddressIsPort'
  BY DEF InitEngine, TypeOK, AddressIsPort, PortDrawn
<1>4. PortDrawn'
  BY DEF InitEngine, TypeOK, PortDrawn
<1>5. Exclusive'
  BY DEF InitEngine, TypeOK, Exclusive
<1>6. EnginesLast'
  BY DEF InitEngine, TypeOK, EnginesLast
<1>7. Given'
  BY DEF InitEngine, TypeOK, Given
<1> QED  BY <1>1, <1>2, <1>3, <1>4, <1>5, <1>6, <1>7

LEMMA KeepsGetAddress ==
  ASSUME NEW r \in Ranks, ServersInv, GetAddress(r)
  PROVE  ServersInv'
<1> USE ServersType DEF ServersInv
<1>1. TypeOK'
  BY DEF GetAddress, NextAsked, TypeOK
<1>2. UnreadyHaveNone'
  BY DEF GetAddress, NextAsked, TypeOK, UnreadyHaveNone, PortDrawn
<1>3. AddressIsPort'
  BY DEF GetAddress, NextAsked, TypeOK, AddressIsPort, PortDrawn
<1>4. PortDrawn'
  BY DEF GetAddress, NextAsked, TypeOK, PortDrawn
<1>5. Exclusive'
  BY DEF GetAddress, NextAsked, TypeOK, Exclusive
<1>6. EnginesLast'
  BY DEF GetAddress, NextAsked, TypeOK, EnginesLast
<1>7. Given'
  BY DEF GetAddress, NextAsked, TypeOK, Given
<1> QED  BY <1>1, <1>2, <1>3, <1>4, <1>5, <1>6, <1>7

LEMMA KeepsGetAddressRaises ==
  ASSUME NEW r \in Ranks, ServersInv, GetAddressRaises(r)
  PROVE  ServersInv'
<1> USE ServersType DEF ServersInv
<1>1. TypeOK'
  BY DEF GetAddressRaises, NextAsked, Dead, TypeOK
<1>2. UnreadyHaveNone'
  BY DEF GetAddressRaises, NextAsked, Dead, TypeOK, UnreadyHaveNone, PortDrawn
<1>3. AddressIsPort'
  BY DEF GetAddressRaises, NextAsked, Dead, TypeOK, AddressIsPort, PortDrawn
<1>4. PortDrawn'
  BY DEF GetAddressRaises, NextAsked, Dead, TypeOK, PortDrawn
<1>5. Exclusive'
  BY DEF GetAddressRaises, NextAsked, Dead, TypeOK, Exclusive
<1>6. EnginesLast'
  BY DEF GetAddressRaises, NextAsked, Dead, TypeOK, EnginesLast
<1>7. Given'
  BY DEF GetAddressRaises, NextAsked, Dead, TypeOK, Given
<1> QED  BY <1>1, <1>2, <1>3, <1>4, <1>5, <1>6, <1>7

LEMMA KeepsCreateServers ==
  ASSUME ServersInv, CreateServers
  PROVE  ServersInv'
<1> USE ServersType DEF ServersInv
<1>1. TypeOK'
  BY DEF CreateServers, Restarted, TypeOK
<1>2. UnreadyHaveNone'
  BY DEF CreateServers, Restarted, TypeOK, UnreadyHaveNone, PortDrawn
<1>3. AddressIsPort'
  BY DEF CreateServers, Restarted, TypeOK, AddressIsPort, UnreadyHaveNone
<1>4. PortDrawn'
  BY DEF CreateServers, Restarted, TypeOK, PortDrawn
<1>5. Exclusive'
  BY DEF CreateServers, Restarted, TypeOK, Exclusive
<1>6. EnginesLast'
  BY DEF CreateServers, Restarted, TypeOK, EnginesLast
<1>7. Given'
  BY DEF CreateServers, Restarted, TypeOK, Given
<1> QED  BY <1>1, <1>2, <1>3, <1>4, <1>5, <1>6, <1>7

LEMMA KeepsEndRound ==
  ASSUME ServersInv, EndRound
  PROVE  ServersInv'
<1> USE ServersType DEF ServersInv
<1>1. TypeOK'
  BY DEF EndRound, AfterRound, TypeOK
<1>2. UnreadyHaveNone'
  BY DEF EndRound, AfterRound, TypeOK, UnreadyHaveNone, PortDrawn
<1>3. AddressIsPort'
  BY DEF EndRound, AfterRound, TypeOK, AddressIsPort, PortDrawn
<1>4. PortDrawn'
  BY DEF EndRound, AfterRound, TypeOK, PortDrawn
<1>5. Exclusive'
  BY DEF EndRound, AfterRound, TypeOK, Exclusive
<1>6. EnginesLast'
  BY DEF EndRound, AfterRound, TypeOK, EnginesLast
<1>7. Given'
  BY DEF EndRound, AfterRound, TypeOK, Given
<1> QED  BY <1>1, <1>2, <1>3, <1>4, <1>5, <1>6, <1>7

LEMMA KeepsInitEngineRaises ==
  ASSUME ServersInv, InitEngineRaises
  PROVE  ServersInv'
<1> USE ServersType DEF ServersInv
<1>1. TypeOK'
  BY DEF InitEngineRaises, TypeOK
<1>2. UnreadyHaveNone'
  BY DEF InitEngineRaises, TypeOK, UnreadyHaveNone, PortDrawn
<1>3. AddressIsPort'
  BY DEF InitEngineRaises, TypeOK, AddressIsPort, PortDrawn
<1>4. PortDrawn'
  BY DEF InitEngineRaises, TypeOK, PortDrawn
<1>5. Exclusive'
  BY DEF InitEngineRaises, TypeOK, Exclusive
<1>6. EnginesLast'
  BY DEF InitEngineRaises, TypeOK, EnginesLast
<1>7. Given'
  BY DEF InitEngineRaises, TypeOK, Given
<1> QED  BY <1>1, <1>2, <1>3, <1>4, <1>5, <1>6, <1>7

LEMMA KeepsStartThread ==
  ASSUME ServersInv, StartThread
  PROVE  ServersInv'
<1> USE ServersType DEF ServersInv
<1>1. TypeOK'
  BY DEF StartThread, EnginesDone, TypeOK
<1>2. UnreadyHaveNone'
  BY DEF StartThread, EnginesDone, TypeOK, UnreadyHaveNone, PortDrawn
<1>3. AddressIsPort'
  BY DEF StartThread, EnginesDone, TypeOK, AddressIsPort, PortDrawn
<1>4. PortDrawn'
  BY DEF StartThread, EnginesDone, TypeOK, PortDrawn
<1>5. Exclusive'
  BY DEF StartThread, EnginesDone, TypeOK, Exclusive
<1>6. EnginesLast'
  BY DEF StartThread, EnginesDone, TypeOK, EnginesLast
<1>7. Given'
  BY DEF StartThread, EnginesDone, TypeOK, Given
<1> QED  BY <1>1, <1>2, <1>3, <1>4, <1>5, <1>6, <1>7

LEMMA KeepsRunning ==
  ASSUME ServersInv, Running
  PROVE  ServersInv'
<1> USE ServersType DEF ServersInv
<1>1. TypeOK'
  BY DEF Running, TypeOK
<1>2. UnreadyHaveNone'
  BY DEF Running, TypeOK, UnreadyHaveNone, PortDrawn
<1>3. AddressIsPort'
  BY DEF Running, TypeOK, AddressIsPort, PortDrawn
<1>4. PortDrawn'
  BY DEF Running, TypeOK, PortDrawn
<1>5. Exclusive'
  BY DEF Running, TypeOK, Exclusive
<1>6. EnginesLast'
  BY DEF Running, TypeOK, EnginesLast
<1>7. Given'
  BY DEF Running, TypeOK, Given
<1> QED  BY <1>1, <1>2, <1>3, <1>4, <1>5, <1>6, <1>7

LEMMA KeepsInitScheduler ==
  ASSUME ServersInv, InitScheduler
  PROVE  ServersInv'
<1> USE ServersType DEF ServersInv
<1>0. thread' = "set"
  BY DEF InitScheduler, SchedulerMade
<1>1. TypeOK'
  BY <1>0, Zenon DEF InitScheduler, TypeOK
<1>2. UnreadyHaveNone'
  BY DEF InitScheduler, SchedulerMade, TypeOK, UnreadyHaveNone, PortDrawn
<1>3. AddressIsPort'
  BY DEF InitScheduler, SchedulerMade, TypeOK, AddressIsPort, PortDrawn
<1>4. PortDrawn'
  BY DEF InitScheduler, SchedulerMade, TypeOK, PortDrawn
<1>5. Exclusive'
  BY DEF InitScheduler, SchedulerMade, TypeOK, Exclusive
<1>6. EnginesLast'
  BY DEF InitScheduler, SchedulerMade, TypeOK, EnginesLast
<1>7. Given'
  BY DEF InitScheduler, SchedulerMade, TypeOK, Given
<1> QED  BY <1>1, <1>2, <1>3, <1>4, <1>5, <1>6, <1>7

LEMMA KeepsInitSchedulerRaises ==
  ASSUME ServersInv, InitSchedulerRaises
  PROVE  ServersInv'
<1> USE ServersType DEF ServersInv
<1>1. TypeOK'
  BY DEF InitSchedulerRaises, TypeOK
<1>2. UnreadyHaveNone'
  BY DEF InitSchedulerRaises, TypeOK, UnreadyHaveNone, PortDrawn
<1>3. AddressIsPort'
  BY DEF InitSchedulerRaises, TypeOK, AddressIsPort, PortDrawn
<1>4. PortDrawn'
  BY DEF InitSchedulerRaises, TypeOK, PortDrawn
<1>5. Exclusive'
  BY DEF InitSchedulerRaises, TypeOK, Exclusive
<1>6. EnginesLast'
  BY DEF InitSchedulerRaises, TypeOK, EnginesLast
<1>7. Given'
  BY DEF InitSchedulerRaises, TypeOK, Given
<1> QED  BY <1>1, <1>2, <1>3, <1>4, <1>5, <1>6, <1>7

LEMMA KeepsTakePort ==
  ASSUME NEW n \in Nodes, NEW p \in Ports, ServersInv, TakePort(n, p)
  PROVE  ServersInv'
<1> USE ServersType DEF ServersInv
<1>1. TypeOK' /\ UnreadyHaveNone' /\ AddressIsPort' /\ PortDrawn' /\ EnginesLast' /\ Given'
  BY DEF TakePort, TypeOK, UnreadyHaveNone, AddressIsPort, PortDrawn, EnginesLast, Given
<1>2. Exclusive'
  <2> SUFFICES ASSUME NEW r \in Ranks, server[r] = "listening"
               PROVE  port[r] \notin taken'[Node(r)]
    BY DEF TakePort, Exclusive
  <2>1. Node(r) \in Nodes /\ (Node(r) = n => port[r] # p)
    BY DEF TakePort, Bound, Listening, Nodes
  <2> QED  BY <2>1 DEF TakePort, TypeOK, Exclusive
<1> QED  BY <1>1, <1>2

LEMMA ServersStutter == ServersInv /\ UNCHANGED vars => ServersInv'
<1> SUFFICES ASSUME ServersInv, UNCHANGED vars
             PROVE  ServersInv'
  OBVIOUS
<1>1. /\ mgr' = mgr /\ unready' = unready /\ to_ask' = to_ask /\ server' = server /\ port' = port
      /\ server_addresses' = server_addresses /\ engine' = engine /\ thread' = thread /\ taken' = taken
  BY DEF vars
<1> QED  BY <1>1 DEF ServersInv, TypeOK, UnreadyHaveNone, AddressIsPort, PortDrawn, Exclusive, EnginesLast, Given

LEMMA StepServers == ServersInv /\ [Next]_vars => ServersInv'
<1> SUFFICES ASSUME ServersInv, [Next]_vars
             PROVE  ServersInv'
  OBVIOUS
<1>1. CASE Manager
  BY <1>1, KeepsCreateServers, KeepsEndRound, KeepsInitEngineRaises, KeepsStartThread, KeepsRunning,
     KeepsGetAddress, KeepsGetAddressRaises DEF Manager, Ask
<1>2. CASE InitScheduler \/ InitSchedulerRaises
  BY <1>2, KeepsInitScheduler, KeepsInitSchedulerRaises
<1>3. ASSUME NEW r \in Ranks, Server(r)
      PROVE  ServersInv'
  BY <1>3, KeepsChoose, KeepsLifespan, KeepsBind, KeepsInitEngine DEF Server
<1>4. ASSUME NEW n \in Nodes, NEW p \in Ports, TakePort(n, p)
      PROVE  ServersInv'
  BY <1>4, KeepsTakePort
<1>5. CASE UNCHANGED vars
  BY <1>5, ServersStutter
<1> QED  BY <1>1, <1>2, <1>3, <1>4, <1>5 DEF Next

LEMMA ServersInvariant == Spec => []ServersInv
<1> QED  BY InitServers, StepServers, PTL DEF Spec

(* Types, for any number of servers and ports. *)
THEOREM ServersTypeCorrect == Spec => []TypeOK
<1>1. ServersInv => TypeOK
  BY DEF ServersInv
<1> QED  BY <1>1, ServersInvariant, PTL

LEMMA ServedNow == ServersInv => EveryRankServed
<1> SUFFICES ASSUME ServersInv, mgr = "waiting" \/ mgr = "running", NEW r \in Ranks
             PROVE  /\ server[r] = "listening" /\ engine[r]
                    /\ server_addresses[r] = port[r] /\ port[r] \in Ports \ taken[Node(r)]
                    /\ \A q \in Ranks \ {r} : Node(q) = Node(r) => server_addresses[q] # server_addresses[r]
  BY DEF EveryRankServed
<1>1. \A q \in Ranks : engine[q] /\ server[q] = "listening" /\ server_addresses[q] # NoPort
  BY DEF ServersInv, EnginesLast, UnreadyHaveNone
<1>2. \A q \in Ranks : server_addresses[q] = port[q]
  BY <1>1 DEF ServersInv, AddressIsPort
<1>3. port[r] \in Ports
  BY <1>1 DEF ServersInv, PortDrawn
<1>4. port[r] \notin taken[Node(r)] /\ \A q \in Ranks \ {r} : Node(q) = Node(r) => port[q] # port[r]
  BY <1>1 DEF ServersInv, Exclusive
<1> QED  BY <1>1, <1>2, <1>3, <1>4

(* The chat scheduler is given, for every rank, the address of a listening  *)
(* server with an engine, and no address twice.                             *)
THEOREM Served == Spec => []EveryRankServed
<1> QED  BY ServedNow, ServersInvariant, PTL

LEMMA FreeStep ==
  ASSUME ServersInv, [Next]_vars, NEW r \in Ranks, server'[r] = "new", server[r] # "new"
  PROVE  server[r] = "none" \/ server[r] = "dead"
<1> USE DEF ServersInv, TypeOK
<1>1. CASE CreateServers
  BY <1>1 DEF CreateServers, Restarted, Given
<1>2. CASE EndRound \/ InitEngineRaises \/ StartThread \/ Running \/ InitScheduler \/ InitSchedulerRaises
  BY <1>2 DEF EndRound, InitEngineRaises, StartThread, Running, InitScheduler, InitSchedulerRaises
<1>3. CASE \E q \in Ranks : Ask(q)
  BY <1>3 DEF Ask, GetAddress, GetAddressRaises
<1>4. CASE \E q \in Ranks : Server(q)
  BY <1>4 DEF Server, Choose, Lifespan, Bind, InitEngine
<1>5. CASE \E n \in Nodes, p \in Ports : TakePort(n, p)
  BY <1>5 DEF TakePort
<1>6. CASE UNCHANGED vars
  BY <1>6 DEF vars
<1> QED  BY <1>1, <1>2, <1>3, <1>4, <1>5, <1>6 DEF Next, Manager

(* A new actor never meets a living one of its name. *)
THEOREM Names == Spec => NamesFree
<1>1. ServersInv /\ [Next]_vars =>
        [\A r \in Ranks : server'[r] = "new" /\ server[r] # "new" => server[r] \in {"none", "dead"}]_vars
  BY FreeStep
<1> QED  BY <1>1, ServersInvariant, PTL DEF Spec, NamesFree

LEMMA AnsweredStep ==
  ASSUME ServersInv, [Next]_vars, NEW r \in Ranks, server_addresses[r] # NoPort
  PROVE  server_addresses'[r] = server_addresses[r] /\ server'[r] # "new"
<1>0. r \notin unready /\ server[r] # "new"
  BY DEF ServersInv, UnreadyHaveNone, AddressIsPort
<1> USE <1>0 DEF ServersInv, TypeOK
<1>1. CASE CreateServers
  BY <1>1 DEF CreateServers, Restarted
<1>2. CASE EndRound \/ InitEngineRaises \/ StartThread \/ Running \/ InitScheduler \/ InitSchedulerRaises
  BY <1>2 DEF EndRound, InitEngineRaises, StartThread, Running, InitScheduler, InitSchedulerRaises
<1>3. CASE \E q \in Ranks : Ask(q)
  BY <1>3 DEF Ask, GetAddress, GetAddressRaises, NextAsked
<1>4. CASE \E q \in Ranks : Server(q)
  BY <1>4 DEF Server, Choose, Lifespan, Bind, InitEngine
<1>5. CASE \E n \in Nodes, p \in Ports : TakePort(n, p)
  BY <1>5 DEF TakePort
<1>6. CASE UNCHANGED vars
  BY <1>6 DEF vars
<1> QED  BY <1>1, <1>2, <1>3, <1>4, <1>5, <1>6 DEF Next, Manager

(* What answered is never asked or started again. *)
THEOREM AnsweredKept == Spec => AnsweredStay
<1>1. ServersInv /\ [Next]_vars =>
        [\A r \in Ranks : server_addresses[r] # NoPort => server_addresses'[r] = server_addresses[r] /\ server'[r] # "new"]_vars
  BY AnsweredStep
<1> QED  BY <1>1, ServersInvariant, PTL DEF Spec, AnsweredStay

----------------------------------------------------------------------------
(* The chat scheduler *)

(* Some entry of a nonempty set of naturals is the oldest. *)
LEMMA LeastNatural ==
  ASSUME NEW T \in SUBSET Nat, T # {}
  PROVE  \E x \in T : \A y \in T : x <= y
<1> DEFINE R == OpToRel(<, Nat)
<1>1. PICK x \in T : \A y \in T : <<y, x>> \notin R
  <2> HIDE DEF R
  <2>1. IsWellFoundedOn(R, Nat)
    BY NatLessThanWellFounded DEF R
  <2> QED BY <2>1, WFMin
<1>2. \A y \in T : ~(y < x)
  BY <1>1 DEF OpToRel
<1> QED BY <1>2

(* The names in the cache are distinct, and each is some session's last one *)
(* with the address of that session.                                        *)
SessionInv ==
  /\ \A e, f \in cache : e.id = f.id => e = f
  /\ \A e \in cache : \E s \in Sessions : request_id[s] = e.id
  /\ \A e \in cache : \A s \in Sessions : e.id = request_id[s] => e.address = address[s]
  /\ \A s, t \in Sessions : request_id[s] = request_id[t] /\ request_id[s] # 0 => s = t
  /\ \A s \in Sessions : status[s] = "new" <=> request_id[s] = 0

ChatInv == ChatTypeOK /\ SessionInv /\ LiveSessionsRoutable

Statuses == {"new", "sent", "called back", "raised", "over"}

(* A submission, of a session whose former entry is popped. *)
LEMMA PostKeepsInvariant ==
  ASSUME ChatInv, NEW s \in Sessions, NEW a \in Servers,
         weights' \in [Servers -> Nat],
         Post(s, a, cache \ Entry(request_id[s]))
  PROVE  ChatInv'
<1> DEFINE kept == cache \ Entry(request_id[s])
           new == [id |-> last_id + 1, address |-> a]
           All == kept \cup {new}
<1>a. /\ last_id < MaxRequests
      /\ last_id' = last_id + 1
      /\ cache' = Evict(All)
      /\ request_id' = [request_id EXCEPT ![s] = last_id + 1]
      /\ address' = [address EXCEPT ![s] = a]
      /\ status' = [status EXCEPT ![s] = "sent"]
  BY DEF Post
<1>b. last_id \in 0 .. MaxRequests
  BY DEF ChatInv, ChatTypeOK
<1>c. cache \subseteq [id : 1 .. last_id, address : Servers]
  BY DEF ChatInv, ChatTypeOK
<1>d. IsFiniteSet(cache) /\ Cardinality(cache) <= MaxCache
  BY DEF ChatInv, ChatTypeOK
<1>e. /\ request_id \in [Sessions -> 0 .. last_id]
      /\ status \in [Sessions -> Statuses]
      /\ address \in [Sessions -> Servers \cup {NoServer}]

  BY DEF ChatInv, ChatTypeOK, Statuses
<1>f. SessionInv
  BY DEF ChatInv
<1>g. LiveSessionsRoutable
  BY DEF ChatInv
<1>h. kept = {e \in cache : e.id # request_id[s]}
  BY DEF Entry
<1> HIDE DEF kept, new, All
<1>1. /\ last_id \in Nat /\ last_id' = last_id + 1 /\ last_id' \in 0 .. MaxRequests
      /\ request_id' = [request_id EXCEPT ![s] = last_id + 1]
      /\ address' = [address EXCEPT ![s] = a]
      /\ status' = [status EXCEPT ![s] = "sent"]
      /\ cache' = Evict(All)
  BY <1>a, <1>b, LimitsAssumption
<1>2. /\ \A t \in Sessions \ {s} : request_id'[t] = request_id[t] /\ address'[t] = address[t] /\ status'[t] = status[t]
      /\ request_id'[s] = last_id + 1 /\ address'[s] = a /\ status'[s] = "sent"
  BY <1>a, <1>e
<1>3. \A t \in Sessions : request_id[t] \in Nat /\ request_id[t] <= last_id
  BY <1>1, <1>e
<1>4. \A e \in cache : e.id \in Nat /\ 1 <= e.id /\ e.id <= last_id /\ e.address \in Servers
  BY <1>1, <1>c
<1>5. new.id = last_id + 1 /\ new.address = a /\ new = [id |-> last_id + 1, address |-> a]
  BY DEF new
<1>6. /\ \A e \in All : e \in kept \/ e = new
      /\ \A e \in kept : e \in All /\ e \in cache /\ e.id # request_id[s] /\ e.id # new.id
      /\ \A e \in cache : e.id # request_id[s] => e \in kept
      /\ new \in All
  <2>1. \A e \in kept : e \in cache /\ e.id # request_id[s]
    BY <1>h
  <2>2. \A e \in kept : e.id # new.id
    BY <1>1, <1>4, <1>5, <2>1
  <2> QED BY <1>h, <2>1, <2>2 DEF All
<1>7. IsFiniteSet(All) /\ Cardinality(All) \in Nat /\ Cardinality(All) <= MaxCache + 1
  <2>1. kept \subseteq cache
    BY <1>h
  <2>2. IsFiniteSet(kept) /\ Cardinality(kept) <= Cardinality(cache)
    BY <1>d, <2>1, FS_Subset
  <2>3. Cardinality(kept) \in Nat /\ Cardinality(cache) \in Nat
    BY <1>d, <2>2, FS_CardinalityType
  <2>4. IsFiniteSet(All) /\ Cardinality(All) = IF new \in kept THEN Cardinality(kept) ELSE Cardinality(kept) + 1
    BY <2>2, FS_AddElement DEF All
  <2>5. Cardinality(All) \in Nat
    BY <2>4, FS_CardinalityType
  <2> QED BY <1>d, <2>2, <2>3, <2>4, <2>5, LimitsAssumption
<1>8. \A e \in All : e.id \in Nat /\ 1 <= e.id /\ e.id <= last_id'
  BY <1>1, <1>4, <1>5, <1>6
<1>9. All \subseteq [id : 1 .. last_id', address : Servers]
  <2>1. \A e \in cache : e \in [id : 1 .. last_id', address : Servers]
    BY <1>1, <1>c
  <2>2. new \in [id : 1 .. last_id', address : Servers]
    BY <1>1, <1>5
  <2> QED BY <1>6, <2>1, <2>2
<1>10. \A e, f \in All : e.id = f.id => e = f
  <2>1. \A e, f \in kept : e.id = f.id => e = f
    BY <1>6, <1>f DEF SessionInv
  <2> QED BY <1>6, <2>1
<1>11. /\ cache' \subseteq All
       /\ \A e \in All : e \notin cache' => Cardinality(All) > MaxCache /\ \A f \in All : ~(f.id < e.id)
  BY <1>1, <1>7, LimitsAssumption DEF Evict
<1>12. IsFiniteSet(cache') /\ Cardinality(cache') <= MaxCache
  <2>1. CASE Cardinality(All) <= MaxCache
    BY <1>1, <1>7, <2>1 DEF Evict
  <2>2. CASE Cardinality(All) > MaxCache
    <3>1. DEFINE names == {e.id : e \in All}
    <3>2. names \in SUBSET Nat /\ names # {}
      BY <1>6, <1>8
    <3>3. PICK x \in names : \A y \in names : x <= y
      BY <3>2, LeastNatural
    <3>4. PICK e \in All : e.id = x
      BY <3>3
    <3>5. \A f \in All : e.id <= f.id
      BY <3>3, <3>4
    <3>6. ~ \E f \in All : f.id < e.id
      BY <1>8, <3>5
    <3>7. cache' = {g \in All : \E f \in All : f.id < g.id}
      BY <1>1, <1>7, <2>2, LimitsAssumption DEF Evict
    <3>8. cache' \subseteq All \ {e}
      BY <3>6, <3>7
    <3>9. IsFiniteSet(All \ {e}) /\ Cardinality(All \ {e}) = Cardinality(All) - 1
      BY <1>7, FS_RemoveElement
    <3>10. IsFiniteSet(cache') /\ Cardinality(cache') <= Cardinality(All \ {e})
      BY <3>8, <3>9, FS_Subset
    <3>11. Cardinality(cache') \in Nat
      BY <3>10, FS_CardinalityType
    <3> QED BY <1>7, <3>9, <3>10, <3>11, LimitsAssumption
  <2> QED BY <1>7, <2>1, <2>2, LimitsAssumption
<1>13. ChatTypeOK'
  <2>2. status' \in [Sessions -> Statuses]
    BY <1>1, <1>e DEF Statuses
  <2>3. request_id' \in [Sessions -> 0 .. last_id']
    <3>1. \A t \in Sessions : request_id'[t] \in 0 .. last_id'
      BY <1>1, <1>2, <1>3
    <3> QED BY <1>1, <1>e, <3>1
  <2>4. address' \in [Sessions -> Servers \cup {NoServer}]
    BY <1>1, <1>e
  <2>5. cache' \subseteq [id : 1 .. last_id', address : Servers]
    BY <1>9, <1>11
  <2> QED BY <1>1, <1>12, <2>2, <2>3, <2>4, <2>5 DEF ChatTypeOK, Statuses
<1>14. \A e \in All : /\ \E u \in Sessions : request_id'[u] = e.id
                      /\ \A u \in Sessions : e.id = request_id'[u] => e.address = address'[u]
  <2> SUFFICES ASSUME NEW e \in All
               PROVE  /\ \E u \in Sessions : request_id'[u] = e.id
                      /\ \A u \in Sessions : e.id = request_id'[u] => e.address = address'[u]
    OBVIOUS
  <2>1. CASE e = new
    <3>1. \A u \in Sessions \ {s} : request_id'[u] # e.id
      BY <1>1, <1>2, <1>3, <1>5, <2>1
    <3> QED BY <1>2, <1>5, <2>1, <3>1
  <2>2. CASE e \in kept
    <3>1. PICK u \in Sessions : request_id[u] = e.id
      BY <1>6, <1>f, <2>2 DEF SessionInv
    <3>2. u # s /\ e.id # last_id + 1
      BY <1>5, <1>6, <2>2, <3>1
    <3>3. \A t \in Sessions : e.id = request_id[t] => e.address = address[t]
      BY <1>6, <1>f, <2>2 DEF SessionInv
    <3> QED BY <1>2, <3>1, <3>2, <3>3
  <2> QED BY <1>6, <2>1, <2>2
<1>15. SessionInv'
  <2>1. \A e, f \in cache' : e.id = f.id => e = f
    BY <1>10, <1>11
  <2>2. \A e \in cache' : /\ \E u \in Sessions : request_id'[u] = e.id
                         /\ \A u \in Sessions : e.id = request_id'[u] => e.address = address'[u]
    BY <1>11, <1>14
  <2>3. \A t, u \in Sessions : request_id'[t] = request_id'[u] /\ request_id'[t] # 0 => t = u
    <3>1. \A t \in Sessions \ {s} : request_id'[t] # request_id'[s]
      BY <1>1, <1>2, <1>3
    <3>2. \A t, u \in Sessions : request_id[t] = request_id[u] /\ request_id[t] # 0 => t = u
      BY <1>f DEF SessionInv
    <3> QED BY <1>2, <3>1, <3>2
  <2>4. \A t \in Sessions : status'[t] = "new" <=> request_id'[t] = 0
    <3>1. \A t \in Sessions : status[t] = "new" <=> request_id[t] = 0
      BY <1>f DEF SessionInv
    <3>2. request_id'[s] # 0
      BY <1>1, <1>2
    <3> QED BY <1>2, <3>1, <3>2
  <2> QED BY <2>1, <2>2, <2>3, <2>4 DEF SessionInv
<1>16. LiveSessionsRoutable'
  <2> SUFFICES ASSUME NEW t \in Live', Cardinality(Later(t)') < MaxCache
               PROVE  \E e \in cache' : e.id = request_id'[t]
    BY DEF LiveSessionsRoutable, Entry
  <2> DEFINE after == Later(t)'
  <2>0. t \in Sessions
    BY DEF Live
  <2>1. t \in Sessions /\ status'[t] \in {"sent", "called back"}
    BY DEF Live
  <2>2. after = {u \in Sessions : request_id'[u] > request_id'[t]}
    BY DEF Later
  <2>3. IsFiniteSet(after) /\ Cardinality(after) \in Nat /\ Cardinality(after) < MaxCache
    BY <2>2, SessionsAssumption, FS_Subset, FS_CardinalityType
  <2> HIDE DEF after
  <2>4. PICK e \in All : e.id = request_id'[t]
    <3>1. CASE t = s
      BY <1>2, <1>5, <1>6, <3>1
    <3>2. CASE t # s
      <4>1. t \in Live /\ Later(t) \subseteq after
        <5>1. status'[t] = status[t] /\ request_id'[t] = request_id[t]
          BY <1>2, <2>1, <3>2
        <5>2. t \in Live
          BY <2>1, <5>1 DEF Live
        <5>3. \A u \in Sessions : request_id[u] > request_id[t] => request_id'[u] > request_id'[t]
          BY <1>1, <1>2, <1>3, <2>0, <5>1
        <5> QED BY <2>2, <5>2, <5>3 DEF Later
      <4>2. Cardinality(Later(t)) \in Nat /\ Cardinality(Later(t)) <= Cardinality(after)
        BY <2>3, <4>1, FS_Subset, FS_CardinalityType
      <4>3. Cardinality(Later(t)) < MaxCache
        BY <2>3, <4>2, LimitsAssumption
      <4>4. PICK e \in cache : e.id = request_id[t]
        BY <1>g, <4>1, <4>3 DEF LiveSessionsRoutable, Entry
      <4>5. request_id[t] # request_id[s]
        <5>1. request_id[t] # 0
          BY <1>4, <4>4
        <5> QED BY <1>f, <2>0, <3>2, <5>1 DEF SessionInv
      <4> QED BY <1>2, <1>6, <2>1, <3>2, <4>4, <4>5
    <3> QED BY <3>1, <3>2
  <2>5. SUFFICES ASSUME e \notin cache' PROVE FALSE
    BY <2>4
  <2> DEFINE Others == All \ {e}
             by == [f \in Others |-> CHOOSE u \in after : request_id'[u] = f.id]
  <2>6. Cardinality(All) > MaxCache /\ \A f \in All : ~(f.id < e.id)
    BY <1>11, <2>4, <2>5
  <2>7. IsFiniteSet(Others) /\ Cardinality(Others) = Cardinality(All) - 1
    BY <1>7, <2>4, FS_RemoveElement
  <2>8. Cardinality(after) < Cardinality(Others) /\ Cardinality(Others) \in Nat
    <3>1. Cardinality(Others) \in Nat
      BY <2>7, FS_CardinalityType
    <3> QED BY <1>7, <2>3, <2>6, <2>7, <3>1, LimitsAssumption
  <2>9. \A f \in Others : f \in All /\ f.id > e.id
    BY <1>8, <1>10, <2>4, <2>6
  <2>10. \A f \in Others : \E u \in after : request_id'[u] = f.id
    BY <1>14, <2>2, <2>4, <2>9
  <2> HIDE DEF Others
  <2>11. by \in [Others -> after] /\ \A f \in Others : request_id'[by[f]] = f.id
    BY <2>10
  <2> HIDE DEF by
  <2>12. PICK f, g \in Others : f # g /\ by[f] = by[g]
    BY <2>3, <2>7, <2>8, <2>11, FS_PigeonHole
  <2>13. f.id = g.id
    BY <2>11, <2>12
  <2> QED BY <1>10, <2>9, <2>12, <2>13
<1> QED BY <1>13, <1>15, <1>16 DEF ChatInv

(* A step that only moves a session on: it was sent something before and    *)
(* does not become live by it.                                              *)
LEMMA StatusKeepsInvariant ==
  ASSUME ChatInv, NEW s \in Sessions, NEW x \in Statuses \ {"new"},
         status' = [status EXCEPT ![s] = x],
         status[s] # "new", s \in Live,
         UNCHANGED <<weights, cache, last_id, request_id, address>>
  PROVE  ChatInv'
<1>1. /\ weights' = weights /\ cache' = cache /\ last_id' = last_id /\ request_id' = request_id
      /\ address' = address
  OBVIOUS
<1>2. status \in [Sessions -> Statuses]
  BY DEF ChatInv, ChatTypeOK, Statuses
<1>3. ChatTypeOK'
  <2>1. status' \in [Sessions -> Statuses]
    BY <1>2
  <2> QED BY <1>1, <2>1 DEF ChatInv, ChatTypeOK, Statuses
<1>4. \A t \in Sessions : status'[t] = "new" <=> status[t] = "new"
  BY <1>2
<1>5. SessionInv'
  BY <1>1, <1>4 DEF ChatInv, SessionInv
<1>6. \A t \in Live' : t \in Live
  <2> SUFFICES ASSUME NEW t \in Live', t # s PROVE t \in Live
    OBVIOUS
  <2>1. t \in Sessions /\ status'[t] \in {"sent", "called back"}
    BY DEF Live
  <2>2. status'[t] = status[t]
    BY <1>2, <2>1
  <2> QED BY <2>1, <2>2 DEF Live
<1>7. LiveSessionsRoutable'
  <2>1. \A t \in Sessions : Later(t)' = Later(t)
    BY <1>1 DEF Later
  <2>2. \A t : Entry(request_id[t])' = Entry(request_id[t])
    BY <1>1 DEF Entry
  <2>3. LiveSessionsRoutable
    BY DEF ChatInv
  <2>4. \A t \in Live' : t \in Sessions
    BY DEF Live
  <2> QED BY <1>6, <2>1, <2>2, <2>3, <2>4 DEF LiveSessionsRoutable
<1> QED BY <1>3, <1>5, <1>7 DEF ChatInv

LEMMA InitChat == ChatInit => ChatInv
<1> SUFFICES ASSUME ChatInit PROVE ChatInv
  OBVIOUS
<1>1. ChatTypeOK
  <2>1. IsFiniteSet(cache) /\ Cardinality(cache) = 0
    BY FS_EmptySet DEF ChatInit
  <2> QED BY <2>1, LimitsAssumption DEF ChatInit, ChatTypeOK
<1>2. SessionInv
  BY DEF ChatInit, SessionInv
<1>3. LiveSessionsRoutable
  <2>1. Live = {}
    BY DEF ChatInit, Live
  <2> QED BY <2>1 DEF LiveSessionsRoutable
<1> QED BY <1>1, <1>2, <1>3 DEF ChatInv

(* The address of a session's entry is the one it was sent to last. *)
LEMMA FollowUpKeepsAddress ==
  ASSUME ChatInv, NEW s \in Sessions, NEW a \in AddressOf(request_id[s])
  PROVE  a \in Servers /\ a = address[s]
<1>1. PICK e \in cache : e.id = request_id[s] /\ e.address = a
  BY DEF AddressOf, Entry
<1>2. a = address[s]
  BY <1>1 DEF ChatInv, SessionInv
<1>3. cache \subseteq [id : 1 .. last_id, address : Servers]
  BY DEF ChatInv, ChatTypeOK
<1>4. a \in Servers
  BY <1>1, <1>3
<1> QED BY <1>2, <1>4

LEMMA StepChat == ChatInv /\ [ChatNext]_chat_vars => ChatInv'
<1> SUFFICES ASSUME ChatInv, [ChatNext]_chat_vars PROVE ChatInv'
  OBVIOUS
<1>1. CASE UNCHANGED chat_vars
  <2>1. /\ weights' = weights /\ cache' = cache /\ last_id' = last_id /\ status' = status
        /\ request_id' = request_id /\ address' = address
    BY <1>1 DEF chat_vars
  <2>2. ChatTypeOK'
    BY <2>1 DEF ChatInv, ChatTypeOK
  <2>3. SessionInv'
    BY <2>1 DEF ChatInv, SessionInv
  <2>4. LiveSessionsRoutable'
    BY <2>1 DEF ChatInv, LiveSessionsRoutable, Live, Later, Entry
  <2> QED BY <2>2, <2>3, <2>4 DEF ChatInv
<1>2. ASSUME NEW s \in Sessions, FirstRequest(s) PROVE ChatInv'
  <2>1. PICK a \in Servers : weights' = [weights EXCEPT ![a] = @ + 1] /\ Post(s, a, cache)
    BY <1>2 DEF FirstRequest
  <2>2. weights' \in [Servers -> Nat]
    <3>1. weights \in [Servers -> Nat]
      BY DEF ChatInv, ChatTypeOK
    <3> QED BY <2>1, <3>1
  <2>3. request_id[s] = 0
    BY <1>2 DEF FirstRequest, ChatInv, SessionInv
  <2>4. last_id \in Nat
    <3>1. last_id \in 0 .. MaxRequests
      BY DEF ChatInv, ChatTypeOK
    <3> QED BY <3>1, LimitsAssumption
  <2>5. \A e \in cache : e.id # 0
    <3>1. cache \subseteq [id : 1 .. last_id, address : Servers]
      BY DEF ChatInv, ChatTypeOK
    <3> QED BY <2>4, <3>1
  <2>6. cache \ Entry(request_id[s]) = cache
    BY <2>3, <2>5 DEF Entry
  <2> QED BY <2>1, <2>2, <2>6, PostKeepsInvariant
<1>3. ASSUME NEW s \in Sessions, FollowUp(s) PROVE ChatInv'
  <2>1. PICK a \in AddressOf(request_id[s]) : Post(s, a, cache \ Entry(request_id[s]))
    BY <1>3 DEF FollowUp, Popped
  <2>2. a \in Servers
    BY <2>1, FollowUpKeepsAddress
  <2>3. weights' = weights
    BY <1>3 DEF FollowUp
  <2>4. weights' \in [Servers -> Nat]
    BY <2>3 DEF ChatInv, ChatTypeOK
  <2> QED BY <2>1, <2>2, <2>4, PostKeepsInvariant
<1>4. ASSUME NEW s \in Sessions, LateFollowUp(s) PROVE ChatInv'
  <2>1. s \in Live
    BY <1>4 DEF LateFollowUp, Live
  <2>2. "raised" \in Statuses \ {"new"}
    BY DEF Statuses
  <2> QED BY <1>4, <2>1, <2>2, StatusKeepsInvariant DEF LateFollowUp
<1>5. ASSUME NEW s \in Sessions, CallBack(s) PROVE ChatInv'
  <2>1. s \in Live
    BY <1>5 DEF CallBack, Live
  <2>2. "called back" \in Statuses \ {"new"}
    BY DEF Statuses
  <2> QED BY <1>5, <2>1, <2>2, StatusKeepsInvariant DEF CallBack
<1>6. ASSUME NEW s \in Sessions, Leave(s) PROVE ChatInv'
  <2>1. s \in Live
    BY <1>6 DEF Leave, Live
  <2>2. "over" \in Statuses \ {"new"}
    BY DEF Statuses
  <2> QED BY <1>6, <2>1, <2>2, StatusKeepsInvariant DEF Leave
<1>7. ASSUME ChatNext PROVE ChatInv'
  <2>1. PICK s \in Sessions : FirstRequest(s) \/ FollowUp(s) \/ LateFollowUp(s) \/ CallBack(s) \/ Leave(s)
    BY <1>7 DEF ChatNext
  <2> QED BY <1>2, <1>3, <1>4, <1>5, <1>6, <2>1
<1> QED BY <1>1, <1>7

LEMMA ChatInvariant == ChatSpec => []ChatInv
<1> QED BY InitChat, StepChat, PTL DEF ChatSpec

(* The state has its types; the cache never exceeds its size. *)
THEOREM ChatTypeCorrect == ChatSpec => []ChatTypeOK
<1>1. ChatInv => ChatTypeOK
  BY DEF ChatInv
<1> QED BY <1>1, ChatInvariant, PTL

(* A live session finds its address unless MaxCache other sessions          *)
(* submitted something after it: LRUCache loses only the slowest.           *)
THEOREM Routable == ChatSpec => []LiveSessionsRoutable
<1>1. ChatInv => LiveSessionsRoutable
  BY DEF ChatInv
<1> QED BY <1>1, ChatInvariant, PTL

(* The further requests of a session go where its first one went.           *)
THEOREM SameServer == ChatSpec => SessionsStay
<1>1. ChatInv /\ [ChatNext]_chat_vars => [\A s \in Sessions : status[s] # "new" => address'[s] = address[s]]_chat_vars
  <2> SUFFICES ASSUME ChatInv, ChatNext, NEW s \in Sessions, status[s] # "new"
               PROVE  address'[s] = address[s]
    BY DEF chat_vars
  <2>0. address \in [Sessions -> Servers \cup {NoServer}]
    BY DEF ChatInv, ChatTypeOK
  <2>1. ASSUME NEW t \in Sessions, FirstRequest(t) PROVE address'[s] = address[s]
    <3>1. PICK a \in Servers : address' = [address EXCEPT ![t] = a]
      BY <2>1 DEF FirstRequest, Post
    <3>2. t # s
      BY <2>1 DEF FirstRequest
    <3> QED BY <2>0, <3>1, <3>2
  <2>2. ASSUME NEW t \in Sessions, FollowUp(t) PROVE address'[s] = address[s]
    <3>1. PICK a \in AddressOf(request_id[t]) : address' = [address EXCEPT ![t] = a]
      BY <2>2 DEF FollowUp, Post
    <3>2. a = address[t]
      BY <3>1, FollowUpKeepsAddress
    <3> QED BY <2>0, <3>1, <3>2
  <2>3. ASSUME NEW t \in Sessions, LateFollowUp(t) \/ CallBack(t) \/ Leave(t) PROVE address'[s] = address[s]
    BY <2>3 DEF LateFollowUp, CallBack, Leave
  <2> QED BY <2>1, <2>2, <2>3 DEF ChatNext
<1> QED BY <1>1, ChatInvariant, PTL DEF ChatSpec, SessionsStay

(* The heap spreads the first requests evenly: the root grows by one and    *)
(* was the least.                                                           *)
THEOREM Balanced == ChatSpec => []FirstRequestsBalanced
<1>1. ChatInit => FirstRequestsBalanced
  BY DEF ChatInit, FirstRequestsBalanced
<1>2. ChatInv /\ FirstRequestsBalanced /\ [ChatNext]_chat_vars => FirstRequestsBalanced'
  <2> SUFFICES ASSUME ChatInv, FirstRequestsBalanced, [ChatNext]_chat_vars PROVE FirstRequestsBalanced'
    OBVIOUS
  <2>1. CASE weights' = weights
    BY <2>1 DEF FirstRequestsBalanced
  <2>2. ASSUME NEW s \in Sessions, FirstRequest(s) PROVE FirstRequestsBalanced'
    <3>1. PICK a \in Servers : IsLeast(a) /\ weights' = [weights EXCEPT ![a] = @ + 1]
      BY <2>2 DEF FirstRequest
    <3>2. weights \in [Servers -> Nat]
      BY DEF ChatInv, ChatTypeOK
    <3>3. \A b \in Servers : weights[a] <= weights[b]
      BY <3>1, <3>2 DEF IsLeast
    <3>4. SUFFICES ASSUME NEW b \in Servers, NEW c \in Servers PROVE weights'[b] <= weights'[c] + 1
      BY DEF FirstRequestsBalanced
    <3>5. weights[b] <= weights[c] + 1
      BY DEF FirstRequestsBalanced
    <3> QED BY <3>1, <3>2, <3>3, <3>5
  <2> QED BY <2>1, <2>2 DEF ChatNext, FollowUp, LateFollowUp, CallBack, Leave, chat_vars
<1> QED BY <1>1, <1>2, ChatInvariant, PTL DEF ChatSpec

----------------------------------------------------------------------------
(* The two together *)

(* A run of the manager is a run of the servers' start and of the scheduler. *)
LEMMA ServingParts == ServingSpec => Spec /\ ChatSpec
<1>1. ServingInit => Init /\ ChatInit
  BY DEF ServingInit
<1>2. [ServingNext]_<<vars, chat_vars>> => [Next]_vars /\ [ChatNext]_chat_vars
  BY DEF ServingNext, Starting, Chatting, vars, chat_vars
<1> QED BY <1>1, <1>2, PTL DEF ServingSpec, Spec, ChatSpec

(* While the servers start and then serve, no address is given out that is  *)
(* not a rank's own with its engine, no session changes its server, and     *)
(* none is forgotten before MaxCache others have submitted something.       *)
THEOREM ServingCorrect ==
  ServingSpec => []EveryRankServed /\ []LiveSessionsRoutable /\ SessionsStay
BY ServingParts, Served, Routable, SameServer, PTL

-----------------------------------------------------------------------------
(* Scoring: the pool of scoring processes. *)

Ats == {"none", "waiting", "calling", "done"}
CaseStates == [at : Ats, result : -4 .. 1]
ProcessStates == {"queued", "busy", "over", "cancelled", "killed"}
TaskStates == {"waiting", "done", "timed out", "failed"}

(* The types but for the two counts, permits and score.                     *)
ShapeInv ==
  /\ permits \in Nat
  /\ first \in [Rows -> 0 .. NumCases]
  /\ case \in [Rows -> [Cases -> CaseStates]]
  /\ batch \in 1 .. MaxBatches /\ cut \in BOOLEAN
  /\ process \in [Rows -> ProcessStates]
  /\ task \in [Rows -> TaskStates]
  /\ score \in [Rows -> Nat]

(* A case has no result before its thread is through, and a row that was    *)
(* not submitted has found nothing.                                         *)
ResultInv ==
  /\ \A r \in Rows, i \in Cases : case[r][i].at # "done" => case[r][i].result = Unknown
  /\ \A r \in Rows : process[r] = "queued" => first[r] = 0 /\ case[r] = [i \in Cases |-> NotRun]

(* first is the least case that did not compile, whatever order they        *)
(* finished in.                                                             *)
FirstInv ==
  \A r \in Rows :
    /\ first[r] = 0 => \A i \in Cases : case[r][i].result # CompileError
    /\ first[r] # 0 => /\ case[r][first[r]].result = CompileError
                       /\ \A i \in Cases : i < first[r] => case[r][i].result # CompileError

(* A row that is done was checked in full, and its score is of what was     *)
(* found then.                                                              *)
ScoreInv ==
  \A r \in Rows :
    IF task[r] = "done" THEN process[r] = "over" /\ score[r] = Score(r) ELSE score[r] = 0

(* The permits in the hands of living processes. *)
Held == {c \in Rows \X Cases : process[c[1]] = "busy" /\ case[c[1]][c[2]].at = "calling"}

(* No permit is ever returned twice, and none is lost but by termination.   *)
PermitInv ==
  /\ IsFiniteSet(Held)
  /\ permits + Cardinality(Held) <= MaxConcurrent
  /\ ~cut => permits + Cardinality(Held) = MaxConcurrent

IInv == ShapeInv /\ ResultInv /\ FirstInv /\ ScoreInv /\ PermitInv

----------------------------------------------------------------------------
(* Lemmas on the counts and on what a step does to a case *)

LEMMA Facts ==
  /\ Cases \subseteq Nat \ {0} /\ 1 .. Counted \subseteq Cases /\ Counted \in Nat /\ Counted <= NumCases
  /\ 0 \notin Cases /\ Cases \subseteq 0 .. NumCases
BY CheckAssumption DEF Cases, Counted

LEMMA StatusType == \A reply : Status(reply) \in -4 .. 1
BY DEF Status, Pass, Wrong, Unknown, RuntimeError, Timeout, CompileError

LEMMA NotRunType == NotRun \in CaseStates /\ NotRun.at = "none" /\ NotRun.result = Unknown
BY DEF NotRun, CaseStates, Ats, Unknown

LEMMA SubmitType ==
  ASSUME NEW r
  PROVE  /\ Submit(r) \in [Cases -> CaseStates]
         /\ \A i \in Cases : Submit(r)[i].at = "waiting" /\ Submit(r)[i].result = Unknown
BY DEF Submit, NotRun, CaseStates, Ats, Unknown

(* A count of cases is at most the number of those that count.              *)
LEMMA CountOfCases ==
  ASSUME NEW S \in SUBSET (1 .. Counted)
  PROVE  Cardinality(S) \in 0 .. NumCases
<1>1. IsFiniteSet(1 .. Counted) /\ Cardinality(1 .. Counted) = Counted
  <2>1. Counted \in Nat
    BY Facts
  <2> HIDE DEF Counted
  <2>2. 1 \in Int /\ Counted \in Int /\ 1 <= Counted + 1
    BY <2>1
  <2>3. IsFiniteSet(1 .. Counted) /\ Cardinality(1 .. Counted) = IF 1 > Counted THEN 0 ELSE Counted - 1 + 1
    BY <2>2, FS_Interval
  <2> QED BY <2>1, <2>3
<1>2. Cardinality(S) <= Counted
  BY <1>1, FS_Subset
<1>3. Cardinality(S) \in Nat
  BY <1>1, FS_Subset, FS_CardinalityType
<1> QED BY <1>2, <1>3, Facts, CheckAssumption

LEMMA ScoreCount == ASSUME NEW r PROVE Score(r) \in 0 .. NumCases
<1>1. {i \in 1 .. Counted : Results(r)[i] = Pass} \in SUBSET (1 .. Counted)
  OBVIOUS
<1> QED BY <1>1, CountOfCases DEF Score

(* A thread of a row takes a step: the types after it.                      *)
LEMMA CheckShape ==
  ASSUME ShapeInv, NEW r \in Rows, NEW i \in Cases, AcquirePermit(r, i) \/ Complete(r, i)
  PROVE  /\ permits' \in Nat /\ first' \in [Rows -> 0 .. NumCases]
         /\ case' \in [Rows -> [Cases -> CaseStates]]
<1>1. CASE AcquirePermit(r, i)
  <2> DEFINE c == case[r][i]
  <2>0. c \in CaseStates
    BY DEF ShapeInv
  <2>1. [c EXCEPT !.at = "calling"] \in CaseStates
    <3> HIDE DEF c
    <3> QED BY <2>0 DEF CaseStates, Ats
  <2>2. case' = [case EXCEPT ![r] = [case[r] EXCEPT ![i] = [case[r][i] EXCEPT !.at = "calling"]]]
    BY <1>1 DEF AcquirePermit, ShapeInv
  <2>3. case' \in [Rows -> [Cases -> CaseStates]]
    BY <2>1, <2>2 DEF ShapeInv
  <2> QED BY <1>1, <2>3 DEF AcquirePermit, ShapeInv
<1>2. CASE Complete(r, i)
  <2>1. PICK reply \in Replies :
          /\ case' = [case EXCEPT ![r][i] = [at |-> "done", result |-> Status(reply)]]
          /\ first' = [first EXCEPT ![r] = FirstError(r, i, Status(reply))]
    BY <1>2 DEF Complete
  <2>2. FirstError(r, i, Status(reply)) \in 0 .. NumCases
    BY Facts DEF FirstError, ShapeInv
  <2>3. [at |-> "done", result |-> Status(reply)] \in CaseStates
    BY StatusType DEF CaseStates, Ats
  <2>4. case' \in [Rows -> [Cases -> CaseStates]]
    BY <2>1, <2>3 DEF ShapeInv
  <2> QED BY <1>2, <2>1, <2>2, <2>4 DEF Complete, ShapeInv
<1> QED BY <1>1, <1>2

----------------------------------------------------------------------------
(* The steps, one invariant at a time *)

LEMMA InitIInv == ScoringInit => IInv
<1> SUFFICES ASSUME ScoringInit PROVE IInv
  OBVIOUS
<1> USE DEF ScoringInit, CheckInit
<1>1. ShapeInv
  <2>1. case \in [Rows -> [Cases -> CaseStates]]
    BY NotRunType
  <2>2. permits \in Nat /\ batch \in 1 .. MaxBatches /\ first \in [Rows -> 0 .. NumCases]
    BY CheckAssumption, PoolAssumption
  <2>3. cut \in BOOLEAN
    OBVIOUS
  <2>4. process \in [Rows -> ProcessStates] /\ task \in [Rows -> TaskStates] /\ score \in [Rows -> Nat]
    BY DEF ProcessStates, TaskStates
  <2> QED BY <2>1, <2>2, <2>3, <2>4 DEF ShapeInv
<1>2. ResultInv
  BY NotRunType DEF ResultInv
<1>3. FirstInv
  BY NotRunType DEF FirstInv, Unknown, CompileError
<1>4. ScoreInv
  BY DEF ScoreInv
<1>5. Held = {}
  BY DEF Held
<1>6. PermitInv
  BY <1>5, FS_EmptySet, CheckAssumption DEF PermitInv
<1> QED BY <1>1, <1>2, <1>3, <1>4, <1>6 DEF IInv

LEMMA ShapeStep == ShapeInv /\ [ScoringNext]_scoringVars => ShapeInv'
<1> SUFFICES ASSUME ShapeInv, [ScoringNext]_scoringVars PROVE ShapeInv'
  OBVIOUS
<1>1. ASSUME NEW r \in Rows, StartRow(r) PROVE ShapeInv'
  BY <1>1, SubmitType DEF StartRow, ShapeInv, ProcessStates
<1>2. ASSUME NEW r \in Rows, Check(r) PROVE ShapeInv'
  BY <1>2, CheckShape DEF Check, poolVars, ShapeInv
<1>3. ASSUME NEW r \in Rows, EndRow(r) PROVE ShapeInv'
  <2>1. Score(r) \in Nat
    BY ScoreCount
  <2>2. score' \in [Rows -> Nat] /\ task' \in [Rows -> TaskStates]
    BY <1>3, <2>1 DEF EndRow, ShapeInv, TaskStates
  <2> QED BY <1>3, <2>2 DEF EndRow, checkVars, ShapeInv, ProcessStates
<1>4. ASSUME NEW r \in Rows, TimeOut(r) PROVE ShapeInv'
  BY <1>4 DEF TimeOut, checkVars, ShapeInv, ProcessStates, TaskStates
<1>5. CASE BreakPool
  BY <1>5 DEF BreakPool, Terminated, checkVars, ShapeInv, ProcessStates, TaskStates
<1>6. CASE EndBatch
  <2>1. case' \in [Rows -> [Cases -> CaseStates]]
    BY <1>6, NotRunType DEF EndBatch
  <2>2. batch' \in 1 .. MaxBatches /\ permits' \in Nat /\ first' \in [Rows -> 0 .. NumCases]
    BY <1>6, PoolAssumption, CheckAssumption DEF EndBatch, ShapeInv
  <2>3. cut' \in BOOLEAN
    BY <1>6 DEF EndBatch
  <2>4. process' \in [Rows -> ProcessStates] /\ task' \in [Rows -> TaskStates] /\ score' \in [Rows -> Nat]
    BY <1>6 DEF EndBatch, ProcessStates, TaskStates
  <2> QED BY <2>1, <2>2, <2>3, <2>4 DEF ShapeInv
<1>7. CASE UNCHANGED scoringVars
  BY <1>7 DEF scoringVars, checkVars, ShapeInv
<1> QED BY <1>1, <1>2, <1>3, <1>4, <1>5, <1>6, <1>7 DEF ScoringNext

LEMMA ResultStep == ShapeInv /\ ResultInv /\ [ScoringNext]_scoringVars => ResultInv'
<1> SUFFICES ASSUME ShapeInv, ResultInv, [ScoringNext]_scoringVars PROVE ResultInv'
  OBVIOUS
<1>1. ASSUME NEW r \in Rows, StartRow(r) PROVE ResultInv'
  BY <1>1, SubmitType DEF StartRow, ShapeInv, ResultInv, ProcessStates
<1>2. ASSUME NEW r \in Rows, Check(r) PROVE ResultInv'
  <2>1. PICK i \in Cases : AcquirePermit(r, i) \/ Complete(r, i)
    BY <1>2 DEF Check
  <2>2. process[r] = "busy" /\ process' = process
    BY <1>2 DEF Check, poolVars
  <2>3. \A q \in Rows : q # r => case'[q] = case[q] /\ first'[q] = first[q]
    BY <2>1 DEF AcquirePermit, Complete, ShapeInv
  <2>4. \A j \in Cases : case'[r][j].at # "done" => case'[r][j].result = Unknown
    <3>1. CASE AcquirePermit(r, i)
      <4>1. case'[r] = [case[r] EXCEPT ![i] = [case[r][i] EXCEPT !.at = "calling"]]
        BY <3>1 DEF AcquirePermit, ShapeInv
      <4>2. case[r][i].result = Unknown /\ case[r][i] \in CaseStates
        BY <3>1 DEF AcquirePermit, ShapeInv, ResultInv
      <4>3. case'[r][i].result = Unknown
        BY <4>1, <4>2 DEF ShapeInv, CaseStates
      <4> QED BY <4>1, <4>3 DEF ShapeInv, ResultInv
    <3>2. CASE Complete(r, i)
      BY <3>2 DEF Complete, ShapeInv, ResultInv
    <3> QED BY <2>1, <3>1, <3>2
  <2> QED BY <2>2, <2>3, <2>4 DEF ResultInv
<1>3. ASSUME NEW r \in Rows, EndRow(r) PROVE ResultInv'
  BY <1>3 DEF EndRow, checkVars, ShapeInv, ResultInv
<1>4. ASSUME NEW r \in Rows, TimeOut(r) PROVE ResultInv'
  BY <1>4 DEF TimeOut, checkVars, ShapeInv, ResultInv
<1>5. CASE BreakPool
  BY <1>5 DEF BreakPool, Terminated, checkVars, ShapeInv, ResultInv
<1>6. CASE EndBatch
  BY <1>6, NotRunType DEF EndBatch, ResultInv
<1>7. CASE UNCHANGED scoringVars
  BY <1>7 DEF scoringVars, checkVars, ResultInv
<1> QED BY <1>1, <1>2, <1>3, <1>4, <1>5, <1>6, <1>7 DEF ScoringNext

LEMMA FirstStep == ShapeInv /\ ResultInv /\ FirstInv /\ [ScoringNext]_scoringVars => FirstInv'
<1> SUFFICES ASSUME ShapeInv, ResultInv, FirstInv, [ScoringNext]_scoringVars PROVE FirstInv'
  OBVIOUS
<1>1. ASSUME NEW r \in Rows, StartRow(r) PROVE FirstInv'
  BY <1>1, SubmitType DEF StartRow, ShapeInv, ResultInv, FirstInv, Unknown, CompileError
<1>2. ASSUME NEW r \in Rows, Check(r) PROVE FirstInv'
  <2>1. PICK i \in Cases : AcquirePermit(r, i) \/ Complete(r, i)
    BY <1>2 DEF Check
  <2>2. \A q \in Rows : q # r => case'[q] = case[q] /\ first'[q] = first[q]
    BY <2>1 DEF AcquirePermit, Complete, ShapeInv
  <2>3. CASE AcquirePermit(r, i)
    <3>1. \A j \in Cases : case'[r][j].result = case[r][j].result
      BY <2>3 DEF AcquirePermit, ShapeInv, CaseStates
    <3>2. first' = first
      BY <2>3 DEF AcquirePermit
    <3>3. first[r] # 0 => first[r] \in Cases
      BY DEF ShapeInv, Cases
    <3> QED BY <2>2, <3>1, <3>2, <3>3 DEF FirstInv
  <2>4. CASE Complete(r, i)
    <3>1. PICK reply \in Replies :
            /\ case' = [case EXCEPT ![r][i] = [at |-> "done", result |-> Status(reply)]]
            /\ first' = [first EXCEPT ![r] = FirstError(r, i, Status(reply))]
      BY <2>4 DEF Complete
    <3> DEFINE result == Status(reply)
    <3>2. case'[r][i].result = result /\ first'[r] = FirstError(r, i, result)
      BY <3>1 DEF ShapeInv
    <3>3. \A j \in Cases : j # i => case'[r][j].result = case[r][j].result
      BY <3>1 DEF ShapeInv
    <3>4. case[r][i].result = Unknown
      BY <2>4 DEF Complete, ResultInv
    <3>5. first[r] # i
      BY <3>4, Facts DEF FirstInv, Unknown, CompileError
    <3>6. first[r] \in Nat /\ i \in Nat \ {0} /\ (first[r] # 0 => first[r] \in Cases)
      BY Facts DEF ShapeInv, Cases
    <3> HIDE DEF result
    <3>7. CASE result = CompileError /\ (first[r] = 0 \/ i < first[r])
      <4>1. first'[r] = i
        BY <3>2, <3>7 DEF FirstError
      <4>2. \A j \in Cases : j < i => case[r][j].result # CompileError
        BY <3>6, <3>7, Facts DEF FirstInv
      <4> QED BY <2>2, <3>2, <3>3, <3>6, <3>7, <4>1, <4>2 DEF FirstInv
    <3>8. CASE result = CompileError /\ first[r] # 0 /\ ~(i < first[r])
      <4>1. first'[r] = first[r]
        BY <3>2, <3>8 DEF FirstError
      <4> QED BY <2>2, <3>3, <3>5, <3>6, <3>8, <4>1 DEF FirstInv
    <3>9. CASE result # CompileError
      <4>1. first'[r] = first[r]
        BY <3>2, <3>9 DEF FirstError
      <4> QED BY <2>2, <3>2, <3>3, <3>5, <3>6, <3>9, <4>1 DEF FirstInv
    <3> QED BY <3>7, <3>8, <3>9
  <2> QED BY <2>1, <2>3, <2>4
<1>3. ASSUME NEW r \in Rows, EndRow(r) PROVE FirstInv'
  BY <1>3 DEF EndRow, checkVars, FirstInv
<1>4. ASSUME NEW r \in Rows, TimeOut(r) PROVE FirstInv'
  BY <1>4 DEF TimeOut, checkVars, FirstInv
<1>5. CASE BreakPool
  BY <1>5 DEF BreakPool, checkVars, FirstInv
<1>6. CASE EndBatch
  BY <1>6, NotRunType DEF EndBatch, FirstInv, Unknown, CompileError
<1>7. CASE UNCHANGED scoringVars
  BY <1>7 DEF scoringVars, checkVars, FirstInv
<1> QED BY <1>1, <1>2, <1>3, <1>4, <1>5, <1>6, <1>7 DEF ScoringNext

(* A row that is over is not touched before its batch ends.                 *)
LEMMA ScoreStep == ShapeInv /\ ScoreInv /\ [ScoringNext]_scoringVars => ScoreInv'
<1> SUFFICES ASSUME ShapeInv, ScoreInv, [ScoringNext]_scoringVars PROVE ScoreInv'
  OBVIOUS
<1>1. ASSUME NEW q \in Rows, case'[q] = case[q], first'[q] = first[q] PROVE Score(q)' = Score(q)
  BY <1>1 DEF Score, Results
<1>2. ASSUME NEW r \in Rows, StartRow(r) PROVE ScoreInv'
  <2>1. \A q \in Rows : q # r => case'[q] = case[q] /\ process'[q] = process[q]
    BY <1>2 DEF StartRow, ShapeInv
  <2>2. task[r] # "done" /\ task' = task /\ score' = score /\ first' = first
    BY <1>2 DEF StartRow, ScoreInv
  <2> QED BY <1>1, <2>1, <2>2 DEF ScoreInv
<1>3. ASSUME NEW r \in Rows, Check(r) PROVE ScoreInv'
  <2>1. \A q \in Rows : q # r => case'[q] = case[q] /\ first'[q] = first[q]
    BY <1>3 DEF Check, AcquirePermit, Complete, ShapeInv
  <2>2. task[r] # "done" /\ task' = task /\ score' = score /\ process' = process
    BY <1>3 DEF Check, poolVars, ScoreInv
  <2> QED BY <1>1, <2>1, <2>2 DEF ScoreInv
<1>4. ASSUME NEW r \in Rows, EndRow(r) PROVE ScoreInv'
  <2>1. \A q \in Rows : case'[q] = case[q] /\ first'[q] = first[q]
    BY <1>4 DEF EndRow, checkVars
  <2>2. process' = [process EXCEPT ![r] = "over"] /\ task[r] # "done"
    BY <1>4 DEF EndRow, ScoreInv
  <2>3. CASE task[r] = "waiting"
    BY <1>1, <1>4, <2>1, <2>2, <2>3 DEF EndRow, ScoreInv, ShapeInv
  <2>4. CASE task[r] # "waiting"
    BY <1>1, <1>4, <2>1, <2>2, <2>4 DEF EndRow, ScoreInv, ShapeInv
  <2> QED BY <2>3, <2>4
<1>5. ASSUME NEW r \in Rows, TimeOut(r) PROVE ScoreInv'
  <2>1. \A q \in Rows : case'[q] = case[q] /\ first'[q] = first[q]
    BY <1>5 DEF TimeOut, checkVars
  <2> QED BY <1>1, <1>5, <2>1 DEF TimeOut, ScoreInv, ShapeInv
<1>6. CASE BreakPool
  <2>1. \A q \in Rows : case'[q] = case[q] /\ first'[q] = first[q]
    BY <1>6 DEF BreakPool, checkVars
  <2> QED BY <1>1, <1>6, <2>1 DEF BreakPool, Terminated, ScoreInv
<1>7. CASE EndBatch
  BY <1>7 DEF EndBatch, ScoreInv
<1>8. CASE UNCHANGED scoringVars
  <2>1. \A q \in Rows : case'[q] = case[q] /\ first'[q] = first[q]
    BY <1>8 DEF scoringVars, checkVars
  <2> QED BY <1>1, <1>8, <2>1 DEF scoringVars, ScoreInv
<1> QED BY <1>2, <1>3, <1>4, <1>5, <1>6, <1>7, <1>8 DEF ScoringNext

(* A thread that takes a permit joins Held, and leaves it when it returns   *)
(* the permit; a process that is terminated takes its threads out of it.    *)
LEMMA PermitStep == ShapeInv /\ ResultInv /\ PermitInv /\ [ScoringNext]_scoringVars => PermitInv'
<1> SUFFICES ASSUME ShapeInv, ResultInv, PermitInv, [ScoringNext]_scoringVars PROVE PermitInv'
  OBVIOUS
<1>1. ASSUME Held' = Held, permits' = permits, cut' = cut PROVE PermitInv'
  BY <1>1 DEF PermitInv
<1>2. ASSUME Held' = {}, permits' = permits, ~cut' => ~cut /\ Held = {} PROVE PermitInv'
  <2>1. IsFiniteSet(Held') /\ Cardinality(Held') = 0 /\ Cardinality(Held) \in Nat
    BY <1>2, FS_EmptySet, FS_CardinalityType DEF PermitInv
  <2>2. permits \in Nat /\ MaxConcurrent \in Nat
    BY CheckAssumption DEF ShapeInv
  <2> QED BY <1>2, <2>1, <2>2 DEF PermitInv
<1>3. ASSUME NEW r \in Rows, StartRow(r) PROVE PermitInv'
  <2>1. process[r] = "queued" /\ process' = [process EXCEPT ![r] = "busy"]
    BY <1>3 DEF StartRow
  <2>2. case' = [case EXCEPT ![r] = Submit(r)]
    BY <1>3 DEF StartRow
  <2>3. Held' = Held
    BY <2>1, <2>2, SubmitType DEF Held, ShapeInv
  <2> QED BY <1>1, <1>3, <2>3 DEF StartRow
<1>4. ASSUME NEW r \in Rows, Check(r) PROVE PermitInv'
  <2>1. PICK i \in Cases : AcquirePermit(r, i) \/ Complete(r, i)
    BY <1>4 DEF Check
  <2>2. process[r] = "busy" /\ process' = process /\ cut' = cut
    BY <1>4 DEF Check, poolVars
  <2> DEFINE c == <<r, i>>
  <2>3. \A d \in Rows \X Cases : d # c => case'[d[1]][d[2]].at = case[d[1]][d[2]].at
    BY <2>1 DEF AcquirePermit, Complete, ShapeInv
  <2>4. c \in Rows \X Cases /\ c[1] = r /\ c[2] = i
    OBVIOUS
  <2>5. IsFiniteSet(Held) /\ Cardinality(Held) \in Nat /\ permits \in Nat /\ MaxConcurrent \in Nat
    BY FS_CardinalityType, CheckAssumption DEF PermitInv, ShapeInv
  <2>6. CASE AcquirePermit(r, i)
    <3>1. case'[r][i].at = "calling" /\ case[r][i].at = "waiting" /\ permits' = permits - 1
      BY <2>6 DEF AcquirePermit, ShapeInv, CaseStates
    <3>2. c \notin Held /\ Held' = Held \cup {c}
      BY <2>2, <2>3, <2>4, <3>1 DEF Held
    <3> HIDE DEF c
    <3>3. IsFiniteSet(Held') /\ Cardinality(Held') = Cardinality(Held) + 1
      BY <2>5, <3>2, FS_AddElement
    <3> QED BY <2>2, <2>5, <3>1, <3>3 DEF PermitInv
  <2>7. CASE Complete(r, i)
    <3>1. case'[r][i].at = "done" /\ case[r][i].at = "calling" /\ permits' = permits + 1
      BY <2>7 DEF Complete, ShapeInv
    <3>2. c \in Held /\ Held' = Held \ {c}
      BY <2>2, <2>3, <2>4, <3>1 DEF Held
    <3> HIDE DEF c
    <3>3. IsFiniteSet(Held') /\ Cardinality(Held') = Cardinality(Held) - 1
      BY <2>5, <3>2, FS_RemoveElement
    <3> QED BY <2>2, <2>5, <3>1, <3>3 DEF PermitInv
  <2> QED BY <2>1, <2>6, <2>7
<1>5. ASSUME NEW r \in Rows, EndRow(r) PROVE PermitInv'
  <2>1. process' = [process EXCEPT ![r] = "over"] /\ case' = case
    BY <1>5 DEF EndRow, checkVars
  <2>2. \A i \in Cases : case[r][i].at = "done"
    BY <1>5 DEF EndRow, Checked
  <2>3. Held' = Held
    BY <2>1, <2>2 DEF Held, ShapeInv
  <2> QED BY <1>1, <1>5, <2>3 DEF EndRow, checkVars
<1>6. ASSUME NEW r \in Rows, TimeOut(r) PROVE PermitInv'
  <2>1. \A q \in Rows : process'[q] = "busy" <=> process[q] = "busy"
    BY <1>6 DEF TimeOut, ShapeInv
  <2>2. Held' = Held
    BY <1>6, <2>1 DEF TimeOut, checkVars, Held
  <2> QED BY <1>1, <1>6, <2>2 DEF TimeOut, checkVars
<1>7. CASE BreakPool
  <2>1. \A q \in Rows : process'[q] # "busy"
    BY <1>7 DEF BreakPool, Terminated
  <2>2. Held' = {}
    BY <2>1 DEF Held
  <2>3. ~cut' => ~cut /\ Held = {}
    BY <1>7 DEF BreakPool, Terminated, Calling, Held
  <2> QED BY <1>2, <1>7, <2>2, <2>3 DEF BreakPool, checkVars
<1>8. CASE EndBatch
  <2>1. \A q \in Rows : process'[q] # "busy"
    BY <1>8 DEF EndBatch
  <2>2. Held' = {}
    BY <2>1 DEF Held
  <2>3. ~cut' => ~cut /\ Held = {}
    BY <1>8 DEF EndBatch, Calling, Held, Busy
  <2> QED BY <1>2, <1>8, <2>2, <2>3 DEF EndBatch
<1>9. CASE UNCHANGED scoringVars
  BY <1>1, <1>9 DEF scoringVars, checkVars, Held
<1> QED BY <1>3, <1>4, <1>5, <1>6, <1>7, <1>8, <1>9 DEF ScoringNext

LEMMA Invariant == ScoringSpec => []IInv
<1>1. IInv /\ [ScoringNext]_scoringVars => IInv'
  BY ShapeStep, ResultStep, FirstStep, ScoreStep, PermitStep DEF IInv
<1> QED BY <1>1, InitIInv, PTL DEF ScoringSpec

----------------------------------------------------------------------------

(* A row that was waited for has the score of its own cases up to the first *)
(* that did not compile, in the order of the inputs and not in that of the  *)
(* threads; every other row has 0 (check_correctness, compute_score).       *)
THEOREM ScoresRight == ScoringSpec => []ScoreOfItsCases
<1>1. IInv => ScoreOfItsCases
  <2> SUFFICES ASSUME IInv, NEW r \in Rows, task[r] = "done"
               PROVE  score[r] = Cardinality({i \in 1 .. Counted :
                        /\ case[r][i].result = Pass
                        /\ \A j \in 1 .. i : case[r][j].result # CompileError})
    BY DEF IInv, ScoreInv, ScoreOfItsCases
  <2>1. score[r] = Score(r)
    BY DEF IInv, ScoreInv
  <2>2. first[r] \in Nat /\ (first[r] # 0 => first[r] \in Cases)
    BY DEF IInv, ShapeInv, Cases
  <2>3. ASSUME NEW i \in 1 .. Counted
        PROVE  Results(r)[i] = Pass <=> /\ case[r][i].result = Pass
                                        /\ \A j \in 1 .. i : case[r][j].result # CompileError
    <3>1. i \in Cases /\ i \in Nat /\ i >= 1
      BY Facts
    <3>2. Results(r)[i] = IF first[r] # 0 /\ i > first[r] THEN CompileError ELSE case[r][i].result
      BY <3>1 DEF Results
    <3>3. \A j \in 1 .. i : j \in Cases
      BY <3>1, CheckAssumption DEF Cases
    <3>4. CASE first[r] = 0
      BY <3>1, <3>2, <3>3, <3>4 DEF IInv, FirstInv
    <3>5. CASE first[r] # 0 /\ i >= first[r]
      <4>1. case[r][first[r]].result = CompileError
        BY <3>5 DEF IInv, FirstInv
      <4>2. first[r] \in 1 .. i
        BY <2>2, <3>1, <3>5
      <4>3. first[r] = i => Results(r)[i] # Pass
        BY <3>2, <4>1 DEF Pass, CompileError
      <4>4. i > first[r] => Results(r)[i] # Pass
        BY <3>2, <3>5 DEF Pass, CompileError
      <4>5. Results(r)[i] # Pass
        BY <2>2, <3>1, <3>5, <4>3, <4>4
      <4> QED BY <4>1, <4>2, <4>5
    <3>6. CASE first[r] # 0 /\ i < first[r]
      <4>1. \A j \in 1 .. i : case[r][j].result # CompileError
        BY <2>2, <3>1, <3>3, <3>6 DEF IInv, FirstInv
      <4> QED BY <2>2, <3>1, <3>2, <3>6, <4>1
    <3> QED BY <2>2, <3>1, <3>4, <3>5, <3>6
  <2> QED BY <2>1, <2>3 DEF Score
<1> QED BY <1>1, Invariant, PTL

(* Every variable keeps its type, and the semaphore has all its permits but *)
(* those in the hands of living processes, unless one was terminated during *)
(* a call: a call that ends, however it ends, returns its own.              *)
THEOREM PermitsComeBack == ScoringSpec => []PermitsReturned
<1>1. IInv => PermitsReturned
  <2> SUFFICES ASSUME IInv PROVE PermitsReturned
    OBVIOUS
  <2>1. IsFiniteSet(Held) /\ Cardinality(Held) \in Nat
    BY FS_CardinalityType DEF IInv, PermitInv
  <2>2. permits \in 0 .. MaxConcurrent
    BY <2>1, CheckAssumption DEF IInv, PermitInv, ShapeInv
  <2>3. score \in [Rows -> 0 .. NumCases]
    <3>1. \A r \in Rows : score[r] \in 0 .. NumCases
      BY ScoreCount, CheckAssumption DEF IInv, ScoreInv
    <3> QED BY <3>1 DEF IInv, ShapeInv
  <2>4. \A r \in Rows, i \in Cases :
          case[r][i] \in [at : {"none", "waiting", "calling", "done"}, result : -4 .. 1]
    BY DEF IInv, ShapeInv, CaseStates, Ats
  <2>5. ScoringTypeOK
    BY <2>2, <2>3, <2>4 DEF IInv, ShapeInv, ScoringTypeOK, ProcessStates, TaskStates
  <2> QED BY <2>5 DEF IInv, PermitInv, PermitsReturned, Held
<1> QED BY <1>1, Invariant, PTL
=============================================================================
