----------------------------- MODULE BenchRunner -----------------------------
(***************************************************************************)
(* bench/runner.py: run_benchmark runs its examples as tasks behind a      *)
(* semaphore.  An example is decomposed once; each of its claims is judged *)
(* by the baseline and then verified three times, by the sequence of the   *)
(* orchestrator with different verifiers enabled.  A step is one call of   *)
(* a component with the synchronous code that follows it.  Costs and       *)
(* latencies, which records carry along, are left out.                     *)
(***************************************************************************)
EXTENDS BenchScore

CONSTANTS
    MaxClaims,           \* for each dataset, the claims of an example, at most
    Concurrency,         \* examples in flight, at most
    BaselineVerdicts,    \* what the single-pass judge may answer
    EntailmentVotes,     \* what each verifier may answer, NoVote if it raises
    ProberVotes,
    IndependentVotes

ASSUME BenchAssumption ==
    /\ MaxClaims \in [Dataset -> Nat]
    /\ Concurrency \in Nat \ {0}
    /\ BaselineVerdicts \subseteq Verdict
    /\ EntailmentVotes \cup ProberVotes \cup IndependentVotes
           \subseteq Verdict \cup {NoVote}

VARIABLES
    permits,  \* the semaphore's value
    stage,    \* what the task of each example waits for
    claims,   \* the claims of each example, as the decomposer returned them
    at,       \* the claim it is at
    round,    \* the configuration, as a place in AllConfigs
    votes,    \* the votes in this round
    todo,     \* the verifiers of the second pass still running
    records,  \* the records of each example so far
    phase,    \* of the benchmark
    report    \* what run_benchmark returned

place == <<claims, at, round, votes, todo>>
result == <<sampleVars, phase, report>>
vars == <<permits, stage, place, records, result>>

AllConfigs == <<"baseline", "minus_prober", "minus_independent", "full">>

(* USES_PROBER and USES_INDEPENDENT.                                       *)
Uses == [baseline |-> {}, minus_prober |-> {"independent"},
         minus_independent |-> {"prober"}, full |-> {"prober", "independent"}]

Stage == {"semaphore", "decompose", "judge", "entailment", "second", "done", "failed"}

InFlight == {"decompose", "judge", "entailment", "second"}

NoVotes == [u \in Verifier |-> NoVote]

Init ==
    /\ SampleInit
    /\ phase = "sampling"
    /\ permits = Concurrency
    /\ stage = << >>
    /\ claims = << >>
    /\ at = << >>
    /\ round = << >>
    /\ votes = << >>
    /\ todo = << >>
    /\ records = << >>
    /\ report = << >>

LoadDataset ==
    /\ SampleNext
    /\ UNCHANGED <<phase, permits, stage, place, records, report>>

(* run_benchmark creates the tasks of all examples.                        *)
RunBenchmark ==
    /\ phase = "sampling"
    /\ drawn
    /\ phase' = "running"
    /\ stage' = [e \in Example |-> "semaphore"]
    /\ claims' = [e \in Example |-> << >>]
    /\ at' = [e \in Example |-> 1]
    /\ round' = [e \in Example |-> 1]
    /\ votes' = [e \in Example |-> NoVotes]
    /\ todo' = [e \in Example |-> {}]
    /\ records' = [e \in Example |-> << >>]
    /\ UNCHANGED <<permits, sampleVars, report>>

(* The semaphore serves its waiters in the order of the examples.          *)
Acquire(e) ==
    /\ stage[e] = "semaphore"
    /\ \A d \in 1..(e - 1) : stage[d] # "semaphore"
    /\ permits > 0
    /\ permits' = permits - 1
    /\ stage' = [stage EXCEPT ![e] = "decompose"]
    /\ UNCHANGED <<place, records, result>>

(* The end of a task: its permit goes back, its local state with it.       *)
Leave(e, end, rs) ==
    /\ stage' = [stage EXCEPT ![e] = end]
    /\ permits' = permits + 1
    /\ records' = [records EXCEPT ![e] = rs]
    /\ at' = [at EXCEPT ![e] = 1]
    /\ round' = [round EXCEPT ![e] = 1]
    /\ votes' = [votes EXCEPT ![e] = NoVotes]
    /\ todo' = [todo EXCEPT ![e] = {}]

(* A claim's record for a configuration.                                   *)
Scored(e, i, claim, config, verdict) ==
    [example |-> e, claim |-> i, config |-> config, verdict |-> verdict,
     overlaps |-> claim.overlaps]

(* Claims i to next - 1, which the decomposer resolved: their verdict in   *)
(* all four configurations, claim by claim.                                *)
Shared(e, cs, i, next) ==
    [k \in 1..(Len(AllConfigs) * (next - i)) |->
        LET j == i + (k - 1) \div Len(AllConfigs)
            config == AllConfigs[1 + ((k - 1) % Len(AllConfigs))]
        IN  Scored(e, j, cs[j], config, "UNVERIFIABLE")]

(* From claim i on: the claims resolved already are recorded at once, the  *)
(* next one to be verified is put to the baseline.                         *)
Go(e, cs, i, rs) ==
    LET open == {j \in i..Len(cs) : ~cs[j].resolved}
        next == IF open = {} THEN Len(cs) + 1
                ELSE CHOOSE j \in open : \A o \in open : j <= o
        upto == rs \o Shared(e, cs, i, next)
    IN  IF open = {} THEN Leave(e, "done", upto)
        ELSE /\ stage' = [stage EXCEPT ![e] = "judge"]
             /\ at' = [at EXCEPT ![e] = next]
             /\ round' = [round EXCEPT ![e] = 1]
             /\ votes' = [votes EXCEPT ![e] = NoVotes]
             /\ todo' = [todo EXCEPT ![e] = {}]
             /\ records' = [records EXCEPT ![e] = upto]
             /\ UNCHANGED permits

Decompose(e) ==
    /\ stage[e] = "decompose"
    /\ \E n \in 0..MaxClaims[dataset] : \E cs \in [1..n -> Claims(e)] :
          /\ claims' = [claims EXCEPT ![e] = cs]
          /\ Go(e, cs, 1, << >>)
    /\ UNCHANGED result

(* A record of this round; then the next round, or the next claim.         *)
Write(e, verdict) ==
    LET rs == Append(records[e], Scored(e, at[e], claims[e][at[e]],
                                        AllConfigs[round[e]], verdict))
    IN  IF round[e] = Len(AllConfigs) THEN Go(e, claims[e], at[e] + 1, rs)
        ELSE /\ stage' = [stage EXCEPT ![e] = "entailment"]
             /\ round' = [round EXCEPT ![e] = @ + 1]
             /\ votes' = [votes EXCEPT ![e] = NoVotes]
             /\ todo' = [todo EXCEPT ![e] = {}]
             /\ records' = [records EXCEPT ![e] = rs]
             /\ UNCHANGED <<permits, at>>

Judge(e) ==
    /\ stage[e] = "judge"
    /\ \E v \in BaselineVerdicts : Write(e, v)
    /\ UNCHANGED <<claims, result>>

Entail(e) ==
    /\ stage[e] = "entailment"
    /\ \E v \in EntailmentVotes : votes' = [votes EXCEPT ![e]["entailment"] = v]
    /\ todo' = [todo EXCEPT ![e] = Uses[AllConfigs[round[e]]]]
    /\ stage' = [stage EXCEPT ![e] = "second"]
    /\ UNCHANGED <<permits, claims, at, round, records, result>>

(* One verifier of the second pass; after the last, reconcile and record.  *)
Return(e, u, possible) ==
    /\ stage[e] = "second"
    /\ u \in todo[e]
    /\ \E v \in possible :
          LET now == [votes[e] EXCEPT ![u] = v] IN
          IF todo[e] = {u} THEN Write(e, Reconcile(now))
          ELSE /\ votes' = [votes EXCEPT ![e] = now]
               /\ todo' = [todo EXCEPT ![e] = @ \ {u}]
               /\ UNCHANGED <<permits, stage, at, round, records>>
    /\ UNCHANGED <<claims, result>>

ProberReturns(e) == Return(e, "prober", ProberVotes)

IndependentReturns(e) == Return(e, "independent", IndependentVotes)

(* Defective variants: the permit of a failing example is lost; what it    *)
(* had recorded is kept.                                                   *)
FailHoldingOn(e) ==
    /\ stage[e] \in {"decompose", "judge"}
    /\ stage' = [stage EXCEPT ![e] = "failed"]
    /\ records' = [records EXCEPT ![e] = << >>]
    /\ UNCHANGED <<permits, place, result>>

FailHalfway(e) ==
    /\ stage[e] \in {"decompose", "judge"}
    /\ Leave(e, "failed", records[e])
    /\ UNCHANGED <<claims, result>>

(* decompose or the judge raises. Nothing of the example is kept. (A       *)
(* verifier that raises is only a missing vote.)                           *)
Fail(e) ==
    /\ stage[e] \in {"decompose", "judge"}
    /\ Leave(e, "failed", << >>)
    /\ UNCHANGED <<claims, result>>

(* gather has all results, in the order of the examples.                   *)
Report ==
    /\ phase = "running"
    /\ \A e \in Example : stage[e] \in {"done", "failed"}
    /\ phase' = "reported"
    /\ report' = FlattenSeq(records)
    /\ UNCHANGED <<permits, stage, place, records, sampleVars>>

Task(e) ==
    \/ Acquire(e) \/ Decompose(e) \/ Judge(e) \/ Entail(e)
    \/ ProberReturns(e) \/ IndependentReturns(e) \/ Fail(e)

Reported == phase = "reported" /\ UNCHANGED vars

Next ==
    \/ LoadDataset \/ RunBenchmark \/ Report \/ Reported
    \/ \E e \in DOMAIN stage : Task(e)

Spec == Init /\ [][Next]_vars

(* The program goes on; the event loop resumes every task whose call has   *)
(* returned and gather after the last; all calls return.                   *)
FairSpec ==
    /\ Spec
    /\ WF_vars(LoadDataset \/ RunBenchmark \/ Report)
    /\ \A e \in UNION {Pool(d) : d \in Dataset} : WF_vars(e \in DOMAIN stage /\ Task(e))

-----------------------------------------------------------------------------
(* Properties.                                                             *)

Tasks == IF phase = "sampling" THEN {} ELSE Example

(* Every variable has its type, and the permits are those not in use: no   *)
(* more than Concurrency examples are in flight.                           *)
TypeOK ==
    /\ phase \in {"sampling", "running", "reported"}
    /\ permits = Concurrency - Cardinality({e \in Tasks : stage[e] \in InFlight})
    /\ permits \in 0..Concurrency
    /\ stage \in [Tasks -> Stage]
    /\ claims \in [Tasks -> Seq([resolved : BOOLEAN, overlaps : BOOLEAN])]
    /\ at \in [Tasks -> Nat \ {0}]
    /\ round \in [Tasks -> 1..Len(AllConfigs)]
    /\ votes \in [Tasks -> Votes]
    /\ todo \in [Tasks -> SUBSET {"prober", "independent"}]
    /\ records \in [Tasks -> Seq(Record)]
    /\ report \in Seq(Record)

(* The report has, in the order of the examples whatever their tasks did   *)
(* first, exactly one record per claim and configuration of every example  *)
(* that was finished, claim by claim with the four next to each other, and *)
(* none of an example that failed, however far it had come.                *)
ReportIsPaired ==
    phase = "reported" =>
        LET Finished == {e \in Example : stage[e] = "done"}
            Expected(e) == [k \in 1..(4 * Len(claims[e])) |->
                               <<e, 1 + (k - 1) \div 4, AllConfigs[1 + ((k - 1) % 4)]>>]
        IN  [k \in DOMAIN report |->
                <<report[k].example, report[k].claim, report[k].config>>]
            = FlattenSeq([e \in Example |-> IF e \in Finished THEN Expected(e) ELSE << >>])

(* The configurations are scored on the same units with the same truths,   *)
(* in the same order, so that they differ by their predictions only and    *)
(* the resampling, which draws units by place, is a paired one; each       *)
(* confusion matrix accounts for every unit once, and a configuration      *)
(* abstains on a unit only if it has a verdict on none of its claims.      *)
UnitsAreComparable ==
    phase = "reported" =>
        LET Question(u) == <<u.example, u.claim, u.truth>>
            Questions(c) == [k \in DOMAIN Units(report, c) |->
                                Question(Units(report, c)[k])]
            Decided(c, u) == \E k \in DOMAIN report :
                /\ report[k].config = c /\ report[k].example = u.example
                /\ u.claim \in {0, report[k].claim}
                /\ report[k].verdict # "UNVERIFIABLE"
        IN  \A c \in BenchConfig :
               LET units == Units(report, c)
                   n == Confusion(units)
               IN
               /\ Questions(c) = Questions("full")
               /\ n.tp + n.fp + n.fn + n.tn + n.abstained = Len(units)
               /\ \A k \in DOMAIN units :
                      units[k].predicted = "abstain" <=> ~Decided(c, units[k])

(* The benchmark ends, whichever examples fail.                            *)
BenchEnds == <>(phase = "reported")

=============================================================================
