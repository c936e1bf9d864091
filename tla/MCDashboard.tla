----------------------------- MODULE MCDashboard -----------------------------
(* Instances of Dashboard for TLC.                                         *)
EXTENDS Dashboard, TLC

Out(v, c) == [vote |-> v, cost |-> c]
ProbeOut(v, c, n) == [vote |-> v, cost |-> c, probes |-> n]

OneEntailment == {Out("GROUNDED", 1)}
OneProber == {ProbeOut("FRAGILE", 2, 0)}
OneIndependent == {"UNVERIFIABLE"}

(* Nothing orders the runs or the flows, and the properties checked are    *)
(* invariants.                                                             *)
Alike == Permutations(Runs) \cup Permutations(Reads)

=============================================================================
