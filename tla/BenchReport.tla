----------------------------- MODULE BenchReport -----------------------------
(***************************************************************************)
(* bench/report.py and bench/metrics.py: what the benchmark says of the    *)
(* records it has collected.  F1 comes with a bootstrap interval, the      *)
(* percentiles of its values on resampled units; numbers are fractions,    *)
(* <<numerator, denominator>>.  Rates, costs and latencies, reported next  *)
(* to them, are left out.                                                  *)
(***************************************************************************)
EXTENDS BenchRunner

CONSTANT Draws  \* for each number of units, the resamples the seed draws

Less(x, y) == x[1] * y[2] < y[1] * x[2]

(* From x towards y by a part of a thousand.                               *)
Between(x, y, part) ==
    <<x[1] * y[2] * (1000 - part) + y[1] * x[2] * part, x[2] * y[2] * 1000>>

(* f1 of precision and recall, both 0 where they have no denominator.      *)
F1(units) ==
    LET n == Confusion(units) IN
    IF n.tp = 0 THEN <<0, 1>> ELSE <<2 * n.tp, 2 * n.tp + n.fp + n.fn>>

(* _percentile, in tenths of a percent, of values that are sorted.         *)
Percentile(sorted, pct) ==
    LET idx == pct * (Len(sorted) - 1)
        lo == 1 + idx \div 1000
    IN  IF idx % 1000 = 0 THEN sorted[lo]
        ELSE Between(sorted[lo], sorted[lo + 1], idx % 1000)

(* bootstrap_ci of F1: the seed is the same for every configuration.       *)
Interval(units) ==
    IF units = << >> THEN [low |-> <<0, 1>>, high |-> <<0, 1>>]
    ELSE LET Resampled(draw) == [k \in DOMAIN units |-> units[draw[k]]]
             draws == Draws[Len(units)]
             estimates == SortSeq([i \in DOMAIN draws |-> F1(Resampled(draws[i]))], Less)
         IN  [low |-> Percentile(estimates, 25), high |-> Percentile(estimates, 975)]

(* _build_prober_gain_finding.                                             *)
ProberGain(minus_prober, full) ==
    IF Less(minus_prober.high, full.low) \/ Less(full.high, minus_prober.low)
    THEN "measurable gain" ELSE "no measurable gain"

Wrong(u) == u.predicted = IF u.truth THEN "negative" ELSE "positive"

(* Defective variant: the errors of the baseline, whatever the others say. *)
CasesOfBaseline(all) ==
    LET units == Units(all, "baseline")
    IN  Kept(units, {k \in DOMAIN units : Wrong(units[k])})

(* build_disagreement_analysis: the units that all four configurations     *)
(* decided, wrongly. Its cap of 20 cases is beyond every instance.         *)
Cases(all) ==
    LET Alike(c, u) == {v \in Range(Units(all, c)) :
                           v.example = u.example /\ v.claim = u.claim}
        units == Units(all, "baseline")
    IN  Kept(units, {k \in DOMAIN units : \A c \in BenchConfig :
                        /\ Alike(c, units[k]) # {}
                        /\ \A v \in Alike(c, units[k]) : Wrong(v)})

-----------------------------------------------------------------------------
(* Properties.                                                             *)

(* The analysis of disagreements and the main table, which are computed    *)
(* along different ways, agree: every case is an error of each             *)
(* configuration, so the errors each matrix counts are at least the cases  *)
(* of that kind.                                                           *)
CasesAreErrors ==
    phase = "reported" =>
        LET cases == Cases(report)
            Missed == Cardinality({k \in DOMAIN cases : cases[k].truth})
        IN  \A c \in BenchConfig :
               LET n == Confusion(Units(report, c)) IN
               Missed <= n.fn /\ Len(cases) - Missed <= n.fp

(* The docstring of ProberGainFinding: "if the prober shows no measurable  *)
(* F1 gain [...] say so explicitly and prominently": a gain is reported    *)
(* only if the full system's F1 is the higher one.                         *)
GainIsReal ==
    phase = "reported" =>
        LET minus_prober == Interval(Units(report, "minus_prober"))
            full == Interval(Units(report, "full"))
        IN  ProberGain(minus_prober, full) = "measurable gain"
                => Less(minus_prober.high, full.low)

=============================================================================
