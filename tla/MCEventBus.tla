----------------------------- MODULE MCEventBus -----------------------------
(* An instance of EventBus for TLC: all clients watch the first of two     *)
(* runs; publishing for the other one only evicts.                         *)
EXTENDS EventBus, TLC

CONSTANTS r1, r2, c1, c2, c3

AllWatchFirst == [c \in Readers |-> r1]

=============================================================================
