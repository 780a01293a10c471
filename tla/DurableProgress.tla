--------------------------- MODULE DurableProgress ---------------------------
(* What checkpointing promises: work advances in memory, a commit makes     *)
(* exactly the work done so far durable, and what a crash leaves is what    *)
(* was committed last.  While a commit is published the durable value is    *)
(* unreadable, and nothing is ever done on top of an unreadable one.        *)
EXTENDS Integers

CONSTANT Unreadable

VARIABLES durable, volatile

dvars == <<durable, volatile>>

DurableInit == durable = 0 /\ volatile = 0

Advance == volatile \in Nat /\ volatile' = volatile + 1 /\ UNCHANGED durable

(* To publish a commit the old value is given up first. *)
Publish == volatile \in Nat /\ durable' = Unreadable /\ UNCHANGED volatile

Commit == volatile \in Nat /\ durable' = volatile /\ UNCHANGED volatile

(* A crash, or a restart: memory is what the disk says. *)
FallBack == volatile' = durable /\ UNCHANGED durable

DurableNext == Advance \/ Publish \/ Commit \/ FallBack

DurableSpec == DurableInit /\ [][DurableNext]_dvars
=============================================================================
