----------------------------- MODULE Reconciler -----------------------------
(***************************************************************************)
(* attest/reconciler.py: the pure function that merges the votes of up to  *)
(* three verifiers into one verdict.  A verifier that was disabled, was    *)
(* not launched for lack of budget, or raised has no vote (None in the     *)
(* code, NoVote here).  The rationale is only display text: what it tells  *)
(* of the decision, the verifier that drove it, is Driver.                 *)
(***************************************************************************)
EXTENDS Integers, FiniteSets

Verdict == {"GROUNDED", "UNSUPPORTED", "CONTRADICTED",
            "FRAGILE", "STALE", "UNVERIFIABLE"}

NoVote == "NONE"

Verifier == {"entailment", "prober", "independent"}

Votes == [Verifier -> Verdict \cup {NoVote}]

(* _PRECEDENCE, as the index of each verdict: the smaller index wins. *)
Rank == [CONTRADICTED |-> 0, STALE |-> 1, UNSUPPORTED |-> 2,
         FRAGILE |-> 3, GROUNDED |-> 4, UNVERIFIABLE |-> 5]

(* The parameter order of reconcile(), which breaks ties for the driver.   *)
Position == [entailment |-> 1, prober |-> 2, independent |-> 3]

Ran(votes) == {u \in Verifier : votes[u] # NoVote}

(* The verdict reconcile() returns. *)
Reconcile(votes) ==
    IF Ran(votes) = {} THEN "UNVERIFIABLE"
    ELSE CHOOSE v \in {votes[u] : u \in Ran(votes)} :
             \A u \in Ran(votes) : Rank[v] <= Rank[votes[u]]

(* The verifier min() picks: the first, in parameter order, among those    *)
(* whose vote is the final verdict.                                        *)
Driver(votes) ==
    IF Ran(votes) = {} THEN "nobody"
    ELSE CHOOSE u \in Ran(votes) :
            /\ votes[u] = Reconcile(votes)
            /\ \A w \in Ran(votes) :
                   votes[w] = votes[u] => Position[u] <= Position[w]

Agreeing(votes) == {u \in Ran(votes) : votes[u] = Reconcile(votes)}

Distinct(votes) == {votes[u] : u \in Ran(votes)}

(* confidence and disagreement are fractions; each is kept as the pair     *)
(* <<numerator, denominator>> the code divides.                            *)
Confidence(votes) ==
    IF Ran(votes) = {} THEN <<0, 1>>
    ELSE <<Cardinality(Agreeing(votes)), Cardinality(Ran(votes))>>

Disagreement(votes) ==
    IF Cardinality(Ran(votes)) <= 1 THEN <<0, 1>>
    ELSE <<Cardinality(Distinct(votes)) - 1, Cardinality(Ran(votes)) - 1>>

=============================================================================
