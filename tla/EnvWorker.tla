----------------------------- MODULE EnvWorker -----------------------------
(* The abstract environment worker: it counts its steps and reports each   *)
(* of them as EnvReport permits.  MindEnv implements it.                   *)
EXTENDS EnvReport

CONSTANT MaxSteps  \* bound: calls of step

VARIABLES steps, report

wvars == <<steps, report>>

WorkerInit == steps = 0 /\ report = [done |-> FALSE, won |-> FALSE]

WorkerStep ==
  /\ steps < MaxSteps
  /\ steps' = steps + 1
  /\ report' \in Reports
  /\ Permitted(steps', report')

WorkerSpec == WorkerInit /\ [][WorkerStep]_wvars
============================================================================
