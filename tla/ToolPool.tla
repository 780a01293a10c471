------------------------------ MODULE ToolPool ------------------------------
(***************************************************************************)
(* The execution pools of the sandbox and the search tool and the one      *)
(* token bucket both look up under the name "rate-limiter".  A call takes  *)
(* a thread of its tool's pool, waits for a token, sends its request to    *)
(* the service until it is served or given up, and returns the token by a  *)
(* message nobody waits for.                                               *)
(***************************************************************************)
EXTENDS Naturals, Sequences, FiniteSets

CONSTANTS
  Calls,      \* identities of tool calls
  NumWorkers, \* threads of a pool (num_workers)
  RateLimit,  \* rate_limit of the tool that was started first
  Limiters,   \* bound: sets of tools that may use the token bucket
  Retries     \* [tool -> MAX_RETRIES of its service's client]

Tools == {"sandbox", "search"}

ASSUME PoolAssumption ==
  NumWorkers \in Nat \ {0} /\ RateLimit \in Nat \ {0}
  /\ Limiters \subseteq SUBSET Tools /\ Retries \in [Tools -> Nat \ {0}]

VARIABLES
  limited,   \* tools whose pool uses the token bucket (enable_global_rate_limit)
  call,      \* of a call: its tool, phase, requests sent and result
  acquiring, \* acquire() messages to the bucket, which serves one at a time
  tokens,    \* the semaphore
  returning  \* release() messages under way

poolVars == <<limited, call, acquiring, tokens, returning>>

NoCall == [tool |-> "search", phase |-> "none", tries |-> 0, result |-> "none"]

CallRecords ==
  [tool : Tools, phase : {"none", "queued", "waiting", "running", "done"},
   tries : Nat, result : {"none", "text", "error", "raised"}]

PoolInit ==
  /\ limited \in Limiters
  /\ call = [c \in Calls |-> NoCall]
  /\ acquiring = <<>> /\ tokens = RateLimit /\ returning = 0

In(phases) == {c \in Calls : call[c].phase \in phases}

(* A thread of the pool takes the call up.  Without the bucket the sandbox  *)
(* worker fails on its missing limiter; the search worker runs at once.     *)
Start(c) ==
  /\ call[c].phase = "queued"
  /\ Cardinality({d \in In({"waiting", "running"}) : call[d].tool = call[c].tool}) < NumWorkers
  /\ IF call[c].tool \in limited
       THEN /\ call' = [call EXCEPT ![c].phase = "waiting"]
            /\ acquiring' = Append(acquiring, c)
       ELSE /\ call' = [call EXCEPT ![c] =
                 IF @.tool = "search" THEN [@ EXCEPT !.phase = "running"]
                                      ELSE [@ EXCEPT !.phase = "done", !.result = "raised"]]
            /\ UNCHANGED acquiring
  /\ UNCHANGED <<limited, tokens, returning>>

(* acquire() of the message at the head: the only one of its group.         *)
Acquire ==
  /\ acquiring # <<>> /\ tokens > 0
  /\ tokens' = tokens - 1
  /\ call' = [call EXCEPT ![Head(acquiring)].phase = "running"]
  /\ acquiring' = Tail(acquiring)
  /\ UNCHANGED <<limited, returning>>

(* Mutant: a call that took no token returns one. *)
DoneUnpaid(c, result) ==
  /\ call' = [call EXCEPT ![c] = [@ EXCEPT !.phase = "done", !.result = result]]
  /\ returning' = returning + 1
  /\ UNCHANGED <<limited, acquiring, tokens>>

(* The token goes back when the with-block ends, however it ends.           *)
Done(c, result) ==
  /\ call' = [call EXCEPT ![c] = [@ EXCEPT !.phase = "done", !.result = result]]
  /\ returning' = returning + (IF call[c].tool \in limited THEN 1 ELSE 0)
  /\ UNCHANGED <<limited, acquiring, tokens>>

(* One request to the sandbox.  Only a gateway timeout is sent again; a     *)
(* reply of an unexpected shape raises.  Every failure still has a text.    *)
CallSandbox(c) ==
  /\ call[c].phase = "running" /\ call[c].tool = "sandbox"
  /\ \/ \E result \in {"text", "error", "raised"} : Done(c, result)
     \/ IF call[c].tries + 1 < Retries["sandbox"]
          THEN /\ call' = [call EXCEPT ![c].tries = @ + 1]
               /\ UNCHANGED <<limited, acquiring, tokens, returning>>
          ELSE Done(c, "error")

(* One request to the retrieval service: server errors, connection errors   *)
(* and timeouts are sent again.  Its failures never raise.                  *)
CallSearch(c) ==
  /\ call[c].phase = "running" /\ call[c].tool = "search"
  /\ \/ \E result \in {"text", "error"} : Done(c, result)
     \/ IF call[c].tries + 1 < Retries["search"]
          THEN /\ call' = [call EXCEPT ![c].tries = @ + 1]
               /\ UNCHANGED <<limited, acquiring, tokens, returning>>
          ELSE Done(c, "error")

(* Mutant: release() shares acquire()'s group and waits behind it. *)
ReleaseInLine ==
  /\ returning > 0 /\ acquiring = <<>>
  /\ tokens' = tokens + 1 /\ returning' = returning - 1
  /\ UNCHANGED <<limited, call, acquiring>>

(* release() has a concurrency group of its own: it never waits behind a    *)
(* blocked acquire().                                                       *)
Release ==
  /\ returning > 0
  /\ tokens' = tokens + 1 /\ returning' = returning - 1
  /\ UNCHANGED <<limited, call, acquiring>>

PoolNext ==
  \/ \E c \in Calls : Start(c) \/ CallSandbox(c) \/ CallSearch(c)
  \/ Acquire \/ Release

PoolTypeOK ==
  /\ limited \subseteq Tools
  /\ call \in [Calls -> CallRecords]
  /\ acquiring \in Seq(Calls)
  /\ tokens \in Nat /\ returning \in Nat

(* Both tools together, and whatever fails, never have more than RateLimit  *)
(* requests at the services; the bucket ends with all its tokens            *)
(* (TokenBucketWorker, shared under one name).                              *)
WithinLimit ==
  LET serving == {c \in In({"running"}) : call[c].tool \in limited}
  IN tokens + returning + Cardinality(serving) = RateLimit
=============================================================================
