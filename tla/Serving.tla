------------------------------ MODULE Serving -------------------------------
(***************************************************************************)
(* AsyncLLMServerManager as a whole: the servers start, and the scheduler  *)
(* that its thread makes sends the sessions' requests to them.  Requests   *)
(* come only once the constructor has returned.                            *)
(***************************************************************************)
EXTENDS ServerStart, ChatScheduler

(* The scheduler's servers are the manager's, numbered from 1. *)
ASSUME OneServerPerRank == Servers = {r + 1 : r \in Ranks}

Starting == Next /\ UNCHANGED chat_vars

Chatting == mgr = "running" /\ ChatNext /\ UNCHANGED vars

ServingInit == Init /\ ChatInit

ServingNext == Starting \/ Chatting

ServingSpec ==
  /\ ServingInit /\ [][ServingNext]_<<vars, chat_vars>>
  /\ WF_vars(Manager /\ UNCHANGED chat_vars)
  /\ WF_vars(InitScheduler /\ UNCHANGED chat_vars)
  /\ \A r \in Ranks : WF_vars(Server(r) /\ UNCHANGED chat_vars)
=============================================================================
