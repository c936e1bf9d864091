---------------------------- MODULE MCBenchRunner ----------------------------
(* Instances of the benchmark for TLC.                                     *)
EXTENDS BenchReport

(* RAGTruth examples of two types, one of them "none"; HaluEval's QA split *)
(* has one.                                                                *)
TwoTypes == [ragtruth |-> 2, halueval |-> 1]

Files == [ragtruth |-> <<2, 2, 2, 1>>, halueval |-> <<1, 1>>]

Shuffles == [ragtruth |-> <<<<4>>, <<3, 1, 2>>>>, halueval |-> <<<<2, 1>>>>]

Labels == [ragtruth |-> {3}, halueval |-> {2}]

Lengths == [ragtruth |-> 1, halueval |-> 2]

NoDraws == << >>

(* One example of up to two claims; the seed may draw anything.            *)
Pairs == <<<<<<1>>>>, <<<<1, 1>>, <<1, 2>>, <<2, 1>>, <<2, 2>>>>>>

=============================================================================
