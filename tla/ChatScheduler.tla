---------------------------- MODULE ChatScheduler ----------------------------
(***************************************************************************)
(* ChatCompletionScheduler: it sends the chat requests of many multi-turn  *)
(* sessions to the inference servers from one event loop.  A session's     *)
(* first request goes to the server at the top of a heap; each further one *)
(* names the request before it and goes to the server the LRU cache has    *)
(* for that name.  A submission runs without interruption up to its post;  *)
(* what happens in between answers is any interleaving of the sessions.    *)
(*                                                                         *)
(* Requests are named 1, 2, ... in the order they are submitted where the  *)
(* code draws a uuid.  The cache is only read by pop, so what it evicts as *)
(* least recently used is the entry inserted first.                        *)
(***************************************************************************)
EXTENDS Integers, FiniteSets

CONSTANTS
  Servers,      \* the addresses, by their order as strings
  Sessions,     \* the conversations of the callers
  MaxCache,     \* max_cache_size
  MaxRequests   \* bound: requests submitted

ASSUME ServersAssumption == Servers \subseteq Nat \ {0} /\ Servers # {}
ASSUME SessionsAssumption == IsFiniteSet(Sessions)
ASSUME LimitsAssumption == MaxCache \in Nat \ {0} /\ MaxRequests \in Nat

NoServer == 0

VARIABLES
  weights,    \* weighted_addresses
  cache,      \* request_id_to_address
  last_id,    \* the request submitted last
  status,     \* of a session: "new", "sent", "called back", "raised" or "over"
  request_id, \* the name of a session's last request; 0 before the first
  address     \* where that request went

chat_vars == <<weights, cache, last_id, status, request_id, address>>

ChatInit ==
  /\ weights = [a \in Servers |-> 0]
  /\ cache = {}
  /\ last_id = 0
  /\ status = [s \in Sessions |-> "new"]
  /\ request_id = [s \in Sessions |-> 0]
  /\ address = [s \in Sessions |-> NoServer]

(* The root of the heap: the least weight, then the least address. *)
IsLeast(a) == \A b \in Servers : weights[a] < weights[b] \/ (weights[a] = weights[b] /\ a <= b)

Entry(id) == {e \in cache : e.id = id}

(* LRUCache.__setitem__ drops the oldest entry when there are too many. *)
Evict(entries) ==
  IF Cardinality(entries) <= MaxCache THEN entries
  ELSE {e \in entries : \E f \in entries : f.id < e.id}

(* The submission from its new request id to its post. *)
Post(s, a, entries) ==
  /\ last_id < MaxRequests
  /\ last_id' = last_id + 1
  /\ cache' = Evict(entries \cup {[id |-> last_id + 1, address |-> a]})
  /\ request_id' = [request_id EXCEPT ![s] = last_id + 1]
  /\ address' = [address EXCEPT ![s] = a]
  /\ status' = [status EXCEPT ![s] = "sent"]

(* submit_chat_completions without an x-request-id *)
FirstRequest(s) ==
  /\ status[s] = "new"
  /\ \E a \in Servers :
       /\ IsLeast(a)
       /\ weights' = [weights EXCEPT ![a] = @ + 1]
       /\ Post(s, a, cache)

(* Mutant: the entry is read and stays. *)
Got(id) == cache

(* pop *)
Popped(id) == cache \ Entry(id)

(* Mutant: the address of the request before is forgotten. *)
AnyAddress(id) == {e.address : e \in cache}

AddressOf(id) == {e.address : e \in Entry(id)}

(* submit_chat_completions with the id of the session's last answer; also   *)
(* a retry after an exception, for the new id is written into the caller's  *)
(* headers.                                                                 *)
FollowUp(s) ==
  /\ status[s] = "called back"
  /\ Entry(request_id[s]) # {}
  /\ \E a \in AddressOf(request_id[s]) : Post(s, a, Popped(request_id[s]))
  /\ UNCHANGED weights

(* pop raises KeyError: nothing is posted and the callback is never called. *)
LateFollowUp(s) ==
  /\ status[s] = "called back"
  /\ Entry(request_id[s]) = {}
  /\ status' = [status EXCEPT ![s] = "raised"]
  /\ UNCHANGED <<weights, cache, last_id, request_id, address>>

(* The server answers or fails, and the callback is awaited. *)
CallBack(s) ==
  /\ status[s] = "sent"
  /\ status' = [status EXCEPT ![s] = "called back"]
  /\ UNCHANGED <<weights, cache, last_id, request_id, address>>

(* The caller wants nothing more; the scheduler is not told. *)
Leave(s) ==
  /\ status[s] = "called back"
  /\ status' = [status EXCEPT ![s] = "over"]
  /\ UNCHANGED <<weights, cache, last_id, request_id, address>>

ChatNext ==
  \E s \in Sessions :
    FirstRequest(s) \/ FollowUp(s) \/ LateFollowUp(s) \/ CallBack(s) \/ Leave(s)

ChatSpec == ChatInit /\ [][ChatNext]_chat_vars
----------------------------------------------------------------------------
(* Properties *)

(* Types; the cache never exceeds its size. *)
ChatTypeOK ==
  /\ weights \in [Servers -> Nat]
  /\ cache \subseteq [id : 1 .. last_id, address : Servers] /\ IsFiniteSet(cache)
  /\ Cardinality(cache) <= MaxCache
  /\ last_id \in 0 .. MaxRequests
  /\ status \in [Sessions -> {"new", "sent", "called back", "raised", "over"}]
  /\ request_id \in [Sessions -> 0 .. last_id]
  /\ address \in [Sessions -> Servers \cup {NoServer}]

(* A session stays with the server of its first request, where its prefix   *)
(* is cached, whatever the other sessions submit in between.                *)
SessionsStay == [][\A s \in Sessions : status[s] # "new" => address'[s] = address[s]]_chat_vars

(* First requests are spread evenly over the servers. *)
FirstRequestsBalanced == \A a, b \in Servers : weights[a] <= weights[b] + 1

Live == {s \in Sessions : status[s] \in {"sent", "called back"}}

Later(s) == {t \in Sessions : request_id[t] > request_id[s]}

(* A live session can go on unless MaxCache other sessions submitted        *)
(* something after it: the turns of a few busy sessions never push a slow   *)
(* one out of the cache.                                                    *)
LiveSessionsRoutable ==
  \A s \in Live : Cardinality(Later(s)) < MaxCache => Entry(request_id[s]) # {}
=============================================================================
