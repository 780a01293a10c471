----------------------------- MODULE EnvReport -----------------------------
(* What a MindWorker may report of its n-th step since it was reset: the   *)
(* part of MindEnv the rollout loop depends on.                            *)
EXTENDS Integers

CONSTANT MaxInteractions

ASSUME MaxInteractionsAssumption == MaxInteractions \in Nat \ {0}

Reports == [done: BOOLEAN, won: BOOLEAN]

(* At the limit every step is reported done; only a done step can be won.  *)
Permitted(n, r) ==
  /\ n >= MaxInteractions => r.done
  /\ r.won => r.done
============================================================================
