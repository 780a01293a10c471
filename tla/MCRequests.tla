----------------------------- MODULE MCRequests -----------------------------
(* A small instance of Requests for TLC: two requests, one with up to two   *)
(* tool calls in a turn and one with one, and one token for both tools.     *)
EXTENDS Requests

MCMaxCalls == [r \in Rows |-> IF r = 1 THEN 2 ELSE 1]

MCCalls == UNION {{r} \X (1 .. MCMaxCalls[r]) : r \in Rows}

MCGrants == {{"search"}, Tools}

MCLimiters == {Tools, {}}

MCRetries == [t \in Tools |-> IF t = "search" THEN 2 ELSE 1]
=============================================================================
