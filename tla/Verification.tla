---------------------------- MODULE Verification ----------------------------
(***************************************************************************)
(* attest/verifiers/: how one checkable claim gets its verdict.  The       *)
(* entailment verifier judges the claim against the retrieved context;     *)
(* then, if budget is left, the adversarial prober and the independent     *)
(* verifier run concurrently, and reconcile() merges the votes.  A step is *)
(* one answer of a language model or of the web search, with the code up   *)
(* to the next call.  What a model answers is arbitrary, also to the same  *)
(* question asked twice: the chain of providers may have moved on.         *)
(***************************************************************************)
EXTENDS Reconciler

CONSTANT MaxSources     \* search results per query, at most (k)

ASSUME VerificationAssumption == MaxSources \in Nat

MutationType == {"negation", "entity_swap", "quantifier_shift"}

(* The verdicts the judges may choose from; both schemas reject the rest.  *)
Judged == {"GROUNDED", "UNSUPPORTED", "CONTRADICTED", "UNVERIFIABLE"}

(* An answer of the entailment verifier. It is degraded if no judge stands *)
(* behind it: the call failed, its output was not parsable, or there was   *)
(* no context to judge against.                                            *)
Answer == [verdict : Judged, degraded : BOOLEAN]

NoAnswer == [verdict |-> NoVote, degraded |-> FALSE]

VARIABLES
    claim,      \* what the claim and the context are like
    config,     \* the optional verifiers that are enabled
    stage,      \* where each verifier is
    entailed,   \* the answer of the entailment verifier
    baseline,   \* its answer to the prober's first question
    unbuilt,    \* mutations still being generated
    mutants,    \* mutations generated and not yet re-verified
    probes,     \* the answers to the mutated claims
    sources,    \* number of search results
    refuters,   \* number of sources the independent judge says refute
    votes,      \* the verdicts of the verifiers that returned
    verdict     \* the verdict of the claim

proberVars == <<baseline, unbuilt, mutants, probes>>
searchVars == <<sources, refuters>>
vars == <<claim, config, stage, entailed, proberVars, searchVars, votes, verdict>>

Stage == {"idle", "running", "mutating", "judging", "done"}

Init ==
    /\ claim \in [context : BOOLEAN, entity : BOOLEAN, quantifier : BOOLEAN]
    /\ config \in [prober : BOOLEAN, independent : BOOLEAN]
    /\ stage = [u \in Verifier |-> IF u = "entailment" THEN "running" ELSE "idle"]
    /\ entailed = NoAnswer
    /\ baseline = NoAnswer
    /\ unbuilt = {}
    /\ mutants = {}
    /\ probes = [m \in MutationType |-> NoAnswer]
    /\ sources = 0
    /\ refuters = 0
    /\ votes = [u \in Verifier |-> NoVote]
    /\ verdict = NoVote

(* Defective variant: a failed judge call counts as undecidable.           *)
DegradedUnverifiable == [verdict |-> "UNVERIFIABLE", degraded |-> TRUE]

(* _degraded: no judge means no entailment.                                *)
Degraded == [verdict |-> "UNSUPPORTED", degraded |-> TRUE]

(* What EntailmentVerifier.verify may answer. Without context it does not  *)
(* ask; its check of the evidence spans never changes the verdict.         *)
EntailmentAnswers ==
    IF claim.context
    THEN [verdict : Judged, degraded : {FALSE}] \cup {Degraded}
    ELSE {Degraded}

Vote(u, v) ==
    /\ votes' = [votes EXCEPT ![u] = v]
    /\ stage' = [stage EXCEPT ![u] = "done"]

(* The entailment vote; the second pass is launched if budget is left.     *)
Entail ==
    /\ stage["entailment"] = "running"
    /\ entailed' \in EntailmentAnswers
    /\ votes' = [votes EXCEPT !["entailment"] = entailed'.verdict]
    /\ \E left \in BOOLEAN :
          stage' = [u \in Verifier |->
                       IF u # "entailment" /\ left /\ config[u]
                       THEN "running" ELSE "done"]
    /\ UNCHANGED <<claim, config, proberVars, searchVars, verdict>>

-----------------------------------------------------------------------------
(* The prober.                                                             *)

(* The prober asks the entailment verifier afresh.                         *)
Baseline ==
    /\ stage["prober"] = "running"
    /\ baseline' \in EntailmentAnswers
    /\ unbuilt' = {m \in MutationType :
                      /\ m = "entity_swap" => claim.entity
                      /\ m = "quantifier_shift" => claim.quantifier}
    /\ stage' = [stage EXCEPT !["prober"] = "mutating"]
    /\ UNCHANGED <<claim, config, entailed, mutants, probes, searchVars,
                   votes, verdict>>

(* _generate: a usable mutation, or none (the call failed, its answer was  *)
(* not parsable, not applicable, empty or the claim itself).               *)
Build(m) ==
    /\ m \in unbuilt
    /\ unbuilt' = unbuilt \ {m}
    /\ mutants' \in {mutants, mutants \cup {m}}
    /\ UNCHANGED <<claim, config, stage, entailed, baseline, probes,
                   searchVars, votes, verdict>>

(* _probe_all: the re-verification of a mutation, once all are generated.  *)
(* One that raises leaves no probe.                                        *)
Reverify(m) ==
    /\ unbuilt = {}
    /\ m \in mutants
    /\ mutants' = mutants \ {m}
    /\ \E a \in EntailmentAnswers \cup {NoAnswer} : probes' = [probes EXCEPT ![m] = a]
    /\ UNCHANGED <<claim, config, stage, entailed, baseline, unbuilt,
                   searchVars, votes, verdict>>

(* EXPECTED_FLIP_TARGETS, the same for the three mutations.                *)
FlipTargets == {"CONTRADICTED", "UNSUPPORTED"}

Flipped(m) ==
    /\ probes[m].verdict # baseline.verdict
    /\ probes[m].verdict \in FlipTargets

Probed == {m \in MutationType : probes[m] # NoAnswer}

(* Defective variant: fragility downgrades any baseline.                   *)
ProberVerdictUnconditional ==
    IF \E m \in Probed : ~Flipped(m) THEN "FRAGILE" ELSE baseline.verdict

(* Defective variant: the fragility ratio is rounded to an integer.        *)
ProberVerdictRounded ==
    IF /\ baseline.verdict = "GROUNDED"
       /\ 2 * Cardinality({m \in Probed : ~Flipped(m)}) > Cardinality(Probed)
    THEN "FRAGILE" ELSE baseline.verdict

(* fragility > 0 is one probe that was not flipped.                        *)
ProberVerdict ==
    IF baseline.verdict = "GROUNDED" /\ \E m \in Probed : ~Flipped(m)
    THEN "FRAGILE" ELSE baseline.verdict

ProberReturns ==
    /\ stage["prober"] = "mutating"
    /\ unbuilt = {}
    /\ mutants = {}
    /\ Vote("prober", ProberVerdict)
    /\ UNCHANGED <<claim, config, entailed, proberVars, searchVars, verdict>>

-----------------------------------------------------------------------------
(* The independent verifier.                                               *)

(* The query is rewritten (or not, when that call fails) and searched for. *)
(* No result and a failure alike leave the claim undecided.                *)
Search ==
    /\ stage["independent"] = "running"
    /\ \E n \in 0..MaxSources :
          /\ sources' = n
          /\ IF n = 0 THEN Vote("independent", "UNVERIFIABLE")
             ELSE /\ stage' = [stage EXCEPT !["independent"] = "judging"]
                  /\ UNCHANGED votes
    /\ UNCHANGED <<claim, config, entailed, proberVars, refuters, verdict>>

(* _MIN_CORROBORATING_SOURCES_FOR_STALE *)
MinCorroborating == 2

(* Defective variant: what entailment said is not asked.                   *)
IndependentVerdictAlone(v, n) ==
    IF v = "CONTRADICTED" /\ n >= MinCorroborating THEN "STALE" ELSE v

IndependentVerdict(v, n) ==
    IF /\ entailed.verdict = "GROUNDED"
       /\ v = "CONTRADICTED"
       /\ n >= MinCorroborating
    THEN "STALE" ELSE v

(* The judge's verdict and the sources it cites as refuting; the two need  *)
(* not fit together, and a citation of no source is ignored. A failed call *)
(* is UNVERIFIABLE, citing none.                                           *)
JudgeSources ==
    /\ stage["independent"] = "judging"
    /\ \E v \in Judged, n \in 0..sources :
          /\ refuters' = n
          /\ Vote("independent", IndependentVerdict(v, n))
    /\ UNCHANGED <<claim, config, entailed, proberVars, sources, verdict>>

-----------------------------------------------------------------------------
(* gather() returns, and the orchestrator reconciles.                      *)
Decide ==
    /\ verdict = NoVote
    /\ \A u \in Verifier : stage[u] = "done"
    /\ verdict' = Reconcile(votes)
    /\ UNCHANGED <<claim, config, stage, entailed, proberVars, searchVars, votes>>

Decided == verdict # NoVote /\ UNCHANGED vars

Next ==
    \/ Entail \/ Baseline \/ ProberReturns \/ Search \/ JudgeSources
    \/ \E m \in MutationType : Build(m) \/ Reverify(m)
    \/ Decide \/ Decided

Spec == Init /\ [][Next]_vars

-----------------------------------------------------------------------------
(* Properties.                                                             *)

(* STALE is asserted only against a claim that a judge found entailed by   *)
(* its context, on the word of at least two fresh sources, and when nobody *)
(* found it contradicted outright.                                         *)
StaleIsCorroborated ==
    verdict = "STALE" =>
        /\ entailed = [verdict |-> "GROUNDED", degraded |-> FALSE]
        /\ refuters >= MinCorroborating
        /\ \A u \in Verifier : votes[u] # "CONTRADICTED"

(* FRAGILE needs a prober whose own baseline is a judge's GROUNDED and a   *)
(* mutation whose re-verification did not come out as disagreement, and no *)
(* verifier that objected to the claim.                                    *)
FragileIsEarned ==
    verdict = "FRAGILE" =>
        /\ baseline = [verdict |-> "GROUNDED", degraded |-> FALSE]
        /\ \E m \in MutationType :
              probes[m].verdict \in {"GROUNDED", "UNVERIFIABLE"}
        /\ \A u \in Verifier : votes[u] \notin FlipTargets \cup {"STALE"}

(* GROUNDED survives everything that ran: no verifier objected, and where  *)
(* the prober confirmed it, every probe came out as disagreement.          *)
GroundedSurvived ==
    verdict = "GROUNDED" =>
        /\ \A u \in Verifier : votes[u] \in {"GROUNDED", "UNVERIFIABLE", NoVote}
        /\ votes["prober"] = "GROUNDED" => \A m \in Probed : probes[m].verdict \in FlipTargets

(* An outage of the judge never certifies a claim, also when it is down    *)
(* for one of the calls only: if it degraded on the claim itself, in the   *)
(* first pass or as the prober asked afresh, the other one's GROUNDED and  *)
(* whatever the probes say leave the claim condemned. STALE, which rests   *)
(* on the first answer, survives an outage of the second.                  *)
OutageCertifiesNothing ==
    verdict # NoVote =>
        /\ entailed.degraded => verdict \in {"UNSUPPORTED", "CONTRADICTED"}
        /\ votes["prober"] # NoVote /\ baseline.degraded
               => verdict \in {"UNSUPPORTED", "CONTRADICTED", "STALE"}

(* As the comment on EXPECTED_FLIP_TARGETS wants it, a re-verification     *)
(* that merely degraded does not pass for a correct flip.                  *)
FlipsAreJudged ==
    votes["prober"] # NoVote => \A m \in Probed : Flipped(m) => ~probes[m].degraded

=============================================================================
