------------------------------ MODULE Scoring -------------------------------
(***************************************************************************)
(* The prime reward manager: a batch's answers are scored by a pool of     *)
(* processes, each answer under a timeout that runs from the start of the  *)
(* batch.  A timeout ends the wait, not the process; when no answer is     *)
(* waited for any more the processes are terminated.  A process that dies  *)
(* breaks the pool.  A batch whose scoring ends badly scores 0.            *)
(*                                                                         *)
(* An answer's code is judged by check_correctness: its test cases run in  *)
(* threads, each under a semaphore that all scoring processes share, and   *)
(* finish in any order.                                                    *)
(***************************************************************************)
EXTENDS Integers, Sequences, FiniteSets

CONSTANTS
  Rows,          \* the answers of a batch
  NumCases,      \* test cases of an answer
  MaxConcurrent, \* permits of the shared semaphore
  Considered,    \* cases that count for a continuous score (10 in the code)
  Replies        \* bound: the sandbox's answers

(* What the sandbox may answer; an error of the request has no status.      *)
AllReplies ==
  [api : {"none", "SandboxError", "Failed", "Success"}, compile : {"ok", "Error", "TimeLimitExceeded"},
   run : {"none", "Finished", "nonzero", "Error", "TimeLimitExceeded"}, match : BOOLEAN]

ASSUME CheckAssumption ==
  /\ NumCases \in Nat \ {0} /\ MaxConcurrent \in Nat \ {0} /\ Considered \in Nat \ {0}
  /\ Replies \subseteq AllReplies

----------------------------------------------------------------------------
(* One answer's code: check_correctness *)

Cases == 1 .. NumCases

VARIABLES
  case,    \* of a row and case: where its thread is and what it found
  first,   \* first_compile_error_index of a row, 0 for none
  permits  \* of the semaphore

checkVars == <<case, first, permits>>

Pass == 1
Wrong == 0
Unknown == -1
RuntimeError == -2
Timeout == -3
CompileError == -4

(* result_status of _process_single_case.                                   *)
Status(reply) ==
  CASE reply.api = "Failed" /\ reply.compile # "ok" -> CompileError
    [] reply.api = "Failed" /\ reply.compile = "ok" /\ reply.run = "TimeLimitExceeded" -> Timeout
    [] reply.api = "Failed" /\ reply.compile = "ok" /\ reply.run \in {"Error", "nonzero"} -> RuntimeError
    [] reply.api = "Success" /\ reply.run \in {"Finished", "nonzero"} ->
         IF reply.match THEN Pass ELSE Wrong
    [] OTHER -> Unknown

NotRun == [at |-> "none", result |-> Unknown]

CheckInit ==
  /\ case = [r \in Rows |-> [i \in Cases |-> NotRun]]
  /\ first = [r \in Rows |-> 0]
  /\ permits = MaxConcurrent

Submit(r) == [i \in Cases |-> [NotRun EXCEPT !.at = "waiting"]]

AcquirePermit(r, i) ==
  /\ case[r][i].at = "waiting" /\ permits > 0
  /\ case' = [case EXCEPT ![r][i].at = "calling"]
  /\ permits' = permits - 1
  /\ UNCHANGED first

(* Mutant: the case that was found first. *)
FirstSeen(r, i, result) ==
  IF result = CompileError /\ first[r] = 0 THEN i ELSE first[r]

(* The least case that did not compile, in whatever order they complete.    *)
FirstError(r, i, result) ==
  IF result = CompileError /\ (first[r] = 0 \/ i < first[r]) THEN i ELSE first[r]

(* Mutant: the permit is kept when the request fails. *)
CompleteKeeping(r, i) ==
  /\ case[r][i].at = "calling"
  /\ \E reply \in Replies :
       /\ case' = [case EXCEPT ![r][i] = [at |-> "done", result |-> Status(reply)]]
       /\ first' = [first EXCEPT ![r] = FirstError(r, i, Status(reply))]
       /\ permits' = IF reply.api = "none" THEN permits ELSE permits + 1

(* The sandbox answers, or the client gives up; the permit goes back and    *)
(* the result takes its case's place.                                       *)
Complete(r, i) ==
  /\ case[r][i].at = "calling"
  /\ \E reply \in Replies :
       /\ case' = [case EXCEPT ![r][i] = [at |-> "done", result |-> Status(reply)]]
       /\ first' = [first EXCEPT ![r] = FirstError(r, i, Status(reply))]
  /\ permits' = permits + 1

Checked(r) == \A i \in Cases : case[r][i].at = "done"

(* Nothing counts behind the first case that did not compile.               *)
Results(r) ==
  [i \in Cases |-> IF first[r] # 0 /\ i > first[r] THEN CompileError ELSE case[r][i].result]

(* compute_score, continuous: cases passed of those that count.             *)
Counted == IF NumCases < Considered THEN NumCases ELSE Considered

Score(r) == Cardinality({i \in 1 .. Counted : Results(r)[i] = Pass})

----------------------------------------------------------------------------
(* A batch: the pool of processes *)

CONSTANTS
  Processes,  \* num_processes
  MaxBatches  \* bound: batches scored

ASSUME PoolAssumption == Processes \in Nat \ {0} /\ MaxBatches \in Nat \ {0}

VARIABLES
  batch,   \* batches begun
  process, \* of a row: "none", "queued", "busy", "over", "cancelled", "killed"
  task,    \* of a row's coroutine: "waiting", "done", "timed out", "failed"
  score,   \* of a row: the number of its cases that passed
  cut      \* whether a process was terminated with a permit in hand

scoringVars == <<checkVars, batch, process, task, score, cut>>

poolVars == <<batch, process, task, score, cut>>

ScoringInit ==
  /\ CheckInit
  /\ batch = 1
  /\ process = [r \in Rows |-> "queued"] /\ task = [r \in Rows |-> "waiting"]
  /\ score = [r \in Rows |-> 0] /\ cut = FALSE

Busy == {r \in Rows : process[r] = "busy"}

StartRow(r) ==
  /\ process[r] = "queued" /\ Cardinality(Busy) < Processes
  /\ process' = [process EXCEPT ![r] = "busy"]
  /\ case' = [case EXCEPT ![r] = Submit(r)]
  /\ UNCHANGED <<first, permits, batch, task, score, cut>>

Check(r) ==
  /\ process[r] = "busy"
  /\ \E i \in Cases : AcquirePermit(r, i) \/ Complete(r, i)
  /\ UNCHANGED poolVars

(* The process is done; its result counts if it is still waited for.        *)
EndRow(r) ==
  /\ process[r] = "busy" /\ Checked(r)
  /\ process' = [process EXCEPT ![r] = "over"]
  /\ IF task[r] = "waiting"
       THEN score' = [score EXCEPT ![r] = Score(r)] /\ task' = [task EXCEPT ![r] = "done"]
       ELSE UNCHANGED <<score, task>>
  /\ UNCHANGED <<checkVars, batch, cut>>

(* wait_for cancels what has not been started; a busy process goes on.      *)
TimeOut(r) ==
  /\ task[r] = "waiting"
  /\ task' = [task EXCEPT ![r] = "timed out"]
  /\ process' = [process EXCEPT ![r] = IF @ = "queued" THEN "cancelled" ELSE @]
  /\ UNCHANGED <<checkVars, batch, score, cut>>

Calling(r) == \E i \in Cases : case[r][i].at = "calling"

(* Nothing returns the permits of a process that is terminated.             *)
Terminated(rows) ==
  /\ process' = [r \in Rows |-> IF r \in rows THEN "killed" ELSE process[r]]
  /\ cut' = (cut \/ \E r \in rows : Calling(r))

(* A process dies: the executor terminates the others and fails every task  *)
(* that is left.                                                            *)
BreakPool ==
  /\ Busy # {}
  /\ Terminated({r \in Rows : process[r] \in {"queued", "busy"}})
  /\ task' = [r \in Rows |-> IF task[r] = "waiting" THEN "failed" ELSE task[r]]
  /\ UNCHANGED <<checkVars, batch, score>>

(* Mutant: the batch waits for the processes. *)
ProcessesEnded == \A r \in Rows : task[r] # "waiting" /\ process[r] # "busy"

Gathered == \A r \in Rows : task[r] # "waiting"

(* The finally clause, the scores of the batch, and the next one with a new *)
(* pool and the same semaphore.                                             *)
EndBatch ==
  /\ Gathered /\ batch < MaxBatches
  /\ batch' = batch + 1
  /\ cut' = (cut \/ \E r \in Busy : Calling(r))
  /\ process' = [r \in Rows |-> "queued"] /\ task' = [r \in Rows |-> "waiting"]
  /\ score' = [r \in Rows |-> 0]
  /\ case' = [r \in Rows |-> [i \in Cases |-> NotRun]]
  /\ first' = [r \in Rows |-> 0]
  /\ UNCHANGED permits

ScoringNext ==
  \/ \E r \in Rows : StartRow(r) \/ Check(r) \/ EndRow(r) \/ TimeOut(r)
  \/ BreakPool \/ EndBatch

(* The clock runs: a task that is waited for ends or times out.  The driver *)
(* goes on when all have.                                                   *)
ScoringSpec ==
  /\ ScoringInit /\ [][ScoringNext]_scoringVars
  /\ \A r \in Rows : WF_scoringVars(TimeOut(r))
  /\ WF_scoringVars(EndBatch)

-----------------------------------------------------------------------------
ScoringTypeOK ==
  /\ permits \in 0 .. MaxConcurrent
  /\ first \in [Rows -> 0 .. NumCases]
  /\ \A r \in Rows, i \in Cases :
       case[r][i] \in [at : {"none", "waiting", "calling", "done"}, result : -4 .. 1]
  /\ batch \in 1 .. MaxBatches /\ cut \in BOOLEAN
  /\ process \in [Rows -> {"queued", "busy", "over", "cancelled", "killed"}]
  /\ task \in [Rows -> {"waiting", "done", "timed out", "failed"}]
  /\ score \in [Rows -> 0 .. NumCases]

(* An answer's score is that of its own cases up to the first that did not  *)
(* compile, in the order of the inputs, whatever order the threads finish   *)
(* in; an answer nobody waited for has none.                                *)
ScoreOfItsCases ==
  \A r \in Rows :
    IF task[r] = "done"
      THEN score[r] = Cardinality({i \in 1 .. Counted :
                        /\ case[r][i].result = Pass
                        /\ \A j \in 1 .. i : case[r][j].result # CompileError})
      ELSE score[r] = 0

(* The semaphore outlives the batch.  It loses a permit only with a process *)
(* that is terminated during a call; a call that ends, however it ends,     *)
(* returns its own.                                                         *)
PermitsReturned ==
  LET held == {c \in Rows \X Cases : process[c[1]] = "busy" /\ case[c[1]][c[2]].at = "calling"}
  IN ScoringTypeOK /\ (~cut => permits + Cardinality(held) = MaxConcurrent)

(* Every batch is scored in the end, also with no permit left.              *)
EveryBatchScored == <>(batch = MaxBatches /\ Gathered)
=============================================================================
