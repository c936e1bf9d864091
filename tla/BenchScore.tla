----------------------------- MODULE BenchScore -----------------------------
(***************************************************************************)
(* bench/mapping.py and bench/metrics.py: what the benchmark makes of the  *)
(* verdicts of its four configurations.  The positive class is "this is a  *)
(* hallucination".  A RAGTruth claim is scored by itself, against whether  *)
(* its span meets an annotated one; a HaluEval response is scored as a     *)
(* whole, against its label.                                               *)
(***************************************************************************)
EXTENDS Reconciler, Sampler, SequencesExt

CONSTANT Hallucinated  \* for each dataset, the examples labelled, or annotated, so

ASSUME ScoreAssumption ==
    /\ Dataset \subseteq {"ragtruth", "halueval"}
    /\ \A d \in Dataset : Hallucinated[d] \subseteq Pool(d)

BenchConfig == {"baseline", "minus_prober", "minus_independent", "full"}

(* The examples of this benchmark, by their place in the sample.           *)
Example == DOMAIN sample

IsHallucinated(e) == sample[e] \in Hallucinated[dataset]

(* Only RAGTruth annotates spans; overlaps says whether a claim's span     *)
(* meets one.                                                              *)
HasSpans(e) == dataset = "ragtruth" /\ IsHallucinated(e)

Claims(e) ==
    [resolved : BOOLEAN, overlaps : IF HasSpans(e) THEN BOOLEAN ELSE {FALSE}]

Record == [example : Example, claim : Nat \ {0}, config : BenchConfig,
           verdict : Verdict, overlaps : BOOLEAN]

(* predicted_label; UNVERIFIABLE abstains.                                 *)
Predicted(v) ==
    CASE v \in {"UNSUPPORTED", "CONTRADICTED", "STALE", "FRAGILE"} -> "positive"
      [] v = "GROUNDED" -> "negative"
      [] v = "UNVERIFIABLE" -> "abstain"

(* Defective variant: one abstaining claim makes the response abstain.     *)
OrAggregateStrictly(predictions) ==
    IF "abstain" \in predictions THEN "abstain"
    ELSE IF "positive" \in predictions THEN "positive" ELSE "negative"

(* _or_aggregate.                                                          *)
OrAggregate(predictions) ==
    IF "positive" \in predictions THEN "positive"
    ELSE IF predictions = {"abstain"} THEN "abstain" ELSE "negative"

(* The elements of s at some of its places, in order: the loops that skip  *)
(* what they do not want.                                                  *)
Kept(s, places) ==
    LET upto[k \in 0..Len(s)] ==
            IF k = 0 THEN << >>
            ELSE IF k \in places THEN Append(upto[k - 1], s[k]) ELSE upto[k - 1]
    IN  upto[Len(s)]

(* build_eval_units for one configuration; claim 0 stands for a response.  *)
(* A response without a claim is not scored.                               *)
Units(records, config) ==
    LET mine == Kept(records, {k \in DOMAIN records : records[k].config = config})
        Of(e) == {k \in DOMAIN mine : mine[k].example = e}
        answered == Kept([e \in Example |-> e], {e \in Example : Of(e) # {}})
    IN  IF dataset = "ragtruth"
        THEN [k \in DOMAIN mine |->
                 [example |-> mine[k].example, claim |-> mine[k].claim,
                  truth |-> mine[k].overlaps,
                  predicted |-> Predicted(mine[k].verdict)]]
        ELSE [n \in DOMAIN answered |->
                 LET e == answered[n] IN
                 [example |-> e, claim |-> 0, truth |-> IsHallucinated(e),
                  predicted |-> OrAggregate({Predicted(mine[k].verdict) : k \in Of(e)})]]

(* confusion_counts.                                                       *)
Confusion(units) ==
    LET Number(predicted, truth) ==
            Cardinality({k \in DOMAIN units : units[k].predicted = predicted
                                              /\ units[k].truth = truth})
    IN  [tp |-> Number("positive", TRUE),  fp |-> Number("positive", FALSE),
         fn |-> Number("negative", TRUE),  tn |-> Number("negative", FALSE),
         abstained |-> Number("abstain", TRUE) + Number("abstain", FALSE)]

=============================================================================
