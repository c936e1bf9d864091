--------------------------- MODULE MCOrchestrator ---------------------------
(* Instances of Orchestrator for TLC.                                      *)
EXTENDS Orchestrator

Out(v, c) == [vote |-> v, cost |-> c]
ProbeOut(v, c, n) == [vote |-> v, cost |-> c, probes |-> n]

(* Entailment that raised, agrees for a price, or degraded for nothing.    *)
SomeEntailment ==
    {Out("NONE", 0), Out("GROUNDED", 1), Out("UNSUPPORTED", 0)}

(* A prober that raised, found no mutation, or two probes.                 *)
SomeProber ==
    {ProbeOut("NONE", 0, 0), ProbeOut("GROUNDED", 2, 0),
     ProbeOut("FRAGILE", 2, 2)}

SomeIndependent == {"NONE", "STALE"}

(* For the instance with two runs.                                         *)
OneEntailment == {Out("GROUNDED", 1)}
TwoProber == {ProbeOut("NONE", 0, 0), ProbeOut("FRAGILE", 2, 1)}
OneIndependent == {"UNVERIFIABLE"}

=============================================================================
