------------------------- MODULE VerificationProofs -------------------------
(***************************************************************************)
(* What reconcile() makes of any combination of votes, and what each       *)
(* verdict guarantees, for any number of search results and any answers of *)
(* the models.  The properties of Verification look at a claim that is     *)
(* decided; the invariant follows the three verifiers up to there.         *)
(***************************************************************************)
EXTENDS Verification, FiniteSetTheorems, TLAPS

-----------------------------------------------------------------------------
(* reconcile(), for every combination of votes.                            *)

(* No two verdicts share a rank, and ranks are the indexes 0..5.           *)
LEMMA RankFacts ==
    /\ Rank \in [Verdict -> 0..5]
    /\ \A v, w \in Verdict : Rank[v] = Rank[w] => v = w
BY DEF Rank, Verdict

LEMMA VerifierFinite == IsFiniteSet(Verifier) /\ Cardinality(Verifier) = 3
<1>1. /\ IsFiniteSet({}) /\ Cardinality({}) = 0
  BY FS_EmptySet
<1>2. /\ IsFiniteSet({"entailment"}) /\ Cardinality({"entailment"}) = 1
  BY FS_Singleton
<1>3. /\ IsFiniteSet({"entailment"} \cup {"prober"})
      /\ Cardinality({"entailment"} \cup {"prober"}) = 2
  BY <1>2, FS_AddElement
<1>4. /\ IsFiniteSet({"entailment"} \cup {"prober"} \cup {"independent"})
      /\ Cardinality({"entailment"} \cup {"prober"} \cup {"independent"}) = 3
  BY <1>3, FS_AddElement
<1>5. Verifier = {"entailment"} \cup {"prober"} \cup {"independent"}
  BY DEF Verifier
<1> QED BY <1>4, <1>5

(* Some verifier that ran cast a vote no other vote outranks.              *)
LEMMA BestVote ==
    ASSUME NEW ballot \in Votes, Ran(ballot) # {}
    PROVE  \E b \in Ran(ballot) :
               \A u \in Ran(ballot) : Rank[ballot[b]] <= Rank[ballot[u]]
<1>1. \A u \in Ran(ballot) : u \in Verifier /\ Rank[ballot[u]] \in 0..5
  BY RankFacts DEF Ran, Votes
<1> QED BY <1>1 DEF Ran, Verifier

(* The final verdict is one of the ballot cast and outranks or ties every   *)
(* other: precision over consensus, whatever the number of dissenters      *)
(* (_PRECEDENCE and the min() of reconcile()).                             *)
THEOREM ReconcileIsTopVote ==
    ASSUME NEW ballot \in Votes, Ran(ballot) # {}
    PROVE  /\ Reconcile(ballot) \in Verdict
           /\ \E u \in Ran(ballot) : ballot[u] = Reconcile(ballot)
           /\ \A u \in Ran(ballot) : Rank[Reconcile(ballot)] <= Rank[ballot[u]]
<1> DEFINE S == {ballot[u] : u \in Ran(ballot)}
<1>1. \E v \in S : \A u \in Ran(ballot) : Rank[v] <= Rank[ballot[u]]
  BY BestVote
<1>2. /\ Reconcile(ballot) \in S
      /\ \A u \in Ran(ballot) : Rank[Reconcile(ballot)] <= Rank[ballot[u]]
  BY <1>1 DEF Reconcile
<1>3. S \subseteq Verdict
  BY DEF Ran, Votes
<1> QED BY <1>2, <1>3

LEMMA ReconcileType ==
    ASSUME NEW ballot \in Votes
    PROVE  Reconcile(ballot) \in Verdict
<1>1. CASE Ran(ballot) = {}
  BY <1>1 DEF Reconcile, Verdict
<1>2. CASE Ran(ballot) # {}
  BY <1>2, ReconcileIsTopVote
<1> QED BY <1>1, <1>2

(* A further verifier can only make the verdict graver: if every vote of   *)
(* less is also cast in more, more's verdict ranks at least as high. So a  *)
(* verifier lost to an exception or to the budget never makes a claim look *)
(* worse than it would have with its vote.                                 *)
THEOREM LostVoteNeverCondemns ==
    ASSUME NEW less \in Votes, NEW more \in Votes, Ran(less) # {},
           \A u \in Ran(less) : more[u] = less[u]
    PROVE  Rank[Reconcile(more)] <= Rank[Reconcile(less)]
<1>1. Ran(less) \subseteq Ran(more) /\ Ran(more) # {}
  BY DEF Ran
<1>2. PICK u \in Ran(less) : less[u] = Reconcile(less)
  BY ReconcileIsTopVote
<1>3. Rank[Reconcile(more)] <= Rank[more[u]]
  BY <1>1, <1>2, ReconcileIsTopVote
<1> QED BY <1>2, <1>3

(* confidence lies in (0, 1] and disagreement in [0, 1] once a verifier    *)
(* ran, so no reader of the columns sees a fraction out of range.          *)
THEOREM FractionsInRange ==
    ASSUME NEW ballot \in Votes, Ran(ballot) # {}
    PROVE  /\ 1 <= Cardinality(Agreeing(ballot))
           /\ Cardinality(Agreeing(ballot)) <= Cardinality(Ran(ballot))
           /\ 1 <= Cardinality(Distinct(ballot))
           /\ Cardinality(Distinct(ballot)) <= Cardinality(Ran(ballot))
           /\ Cardinality(Ran(ballot)) <= 3
<1>1. /\ IsFiniteSet(Ran(ballot))
      /\ Cardinality(Ran(ballot)) \in Nat
      /\ Cardinality(Ran(ballot)) <= 3
  BY VerifierFinite, FS_Subset, FS_CardinalityType DEF Ran
<1>2. /\ IsFiniteSet(Agreeing(ballot))
      /\ Cardinality(Agreeing(ballot)) <= Cardinality(Ran(ballot))
  BY <1>1, FS_Subset DEF Agreeing
<1>3. Agreeing(ballot) # {}
  BY ReconcileIsTopVote DEF Agreeing
<1>4. Cardinality(Agreeing(ballot)) >= 1
  BY <1>2, <1>3, FS_EmptySet, FS_CardinalityType
<1>5. /\ IsFiniteSet(Distinct(ballot))
      /\ Cardinality(Distinct(ballot)) <= Cardinality(Ran(ballot))
  <2> DEFINE f == [u \in Ran(ballot) |-> ballot[u]]
  <2>1. f \in Surjection(Ran(ballot), Distinct(ballot))
    BY DEF Surjection, Distinct
  <2> QED BY <1>1, <2>1, FS_Surjection
<1>6. Distinct(ballot) # {}
  BY DEF Distinct
<1>7. Cardinality(Distinct(ballot)) >= 1
  BY <1>5, <1>6, FS_EmptySet, FS_CardinalityType
<1> QED BY <1>1, <1>2, <1>4, <1>5, <1>7

(* Full confidence and no dissent are the same thing: every verifier that  *)
(* ran agrees with the verdict exactly when one verdict was cast.          *)
THEOREM ConfidentIffUnanimous ==
    ASSUME NEW ballot \in Votes, Ran(ballot) # {}
    PROVE  Agreeing(ballot) = Ran(ballot)
               <=> Distinct(ballot) = {Reconcile(ballot)}
<1>1. PICK u \in Ran(ballot) : ballot[u] = Reconcile(ballot)
  BY ReconcileIsTopVote
<1> QED BY <1>1 DEF Agreeing, Distinct

-----------------------------------------------------------------------------
(* The invariant of a claim under verification.                            *)

TypeInv ==
    /\ claim \in [context : BOOLEAN, entity : BOOLEAN, quantifier : BOOLEAN]
    /\ stage \in [Verifier -> Stage]
    /\ entailed \in Answer \cup {NoAnswer}
    /\ baseline \in Answer \cup {NoAnswer}
    /\ unbuilt \subseteq MutationType
    /\ mutants \subseteq MutationType
    /\ probes \in [MutationType -> Answer \cup {NoAnswer}]
    /\ sources \in Nat
    /\ refuters \in Nat
    /\ votes \in Votes
    /\ verdict \in Verdict \cup {NoVote}

(* An answer no judge stands behind is UNSUPPORTED.                        *)
Sound(a) == a \in Answer /\ (a.degraded => a.verdict = "UNSUPPORTED")

(* The second pass starts only with the entailment vote, which is final.   *)
EntailmentInv ==
    /\ stage["entailment"] \in {"running", "done"}
    /\ stage["entailment"] = "running" =>
          /\ stage["prober"] = "idle"
          /\ stage["independent"] = "idle"
          /\ votes["entailment"] = NoVote
    /\ stage["entailment"] = "done" =>
          /\ Sound(entailed)
          /\ votes["entailment"] = entailed.verdict

(* The prober's vote is what its baseline and its probes, which are        *)
(* complete by then, say.                                                  *)
ProberInv ==
    /\ stage["prober"] # "mutating" => unbuilt = {} /\ mutants = {}
    /\ stage["prober"] = "mutating" => Sound(baseline)
    /\ stage["prober"] # "done" => votes["prober"] = NoVote
    /\ votes["prober"] # NoVote =>
          Sound(baseline) /\ votes["prober"] = ProberVerdict

(* Only the independent verifier says STALE, with what it needs for it.    *)
IndependentInv ==
    /\ votes["independent"] \in Judged \cup {"STALE", NoVote}
    /\ stage["independent"] # "done" => votes["independent"] = NoVote
    /\ votes["independent"] = "STALE" =>
          /\ entailed.verdict = "GROUNDED"
          /\ refuters >= MinCorroborating

DecisionInv ==
    verdict # NoVote =>
        /\ \A u \in Verifier : stage[u] = "done"
        /\ verdict = Reconcile(votes)

VerificationInv ==
    TypeInv /\ EntailmentInv /\ ProberInv /\ IndependentInv /\ DecisionInv

-----------------------------------------------------------------------------
(* Whatever the entailment verifier answers, it answers soundly.           *)
LEMMA AnswersAreSound == ASSUME TypeInv, NEW a \in EntailmentAnswers PROVE Sound(a)
<1>1. a \in [verdict : Judged, degraded : {FALSE}] \/ a = Degraded
  BY DEF EntailmentAnswers
<1>2. CASE a \in [verdict : Judged, degraded : {FALSE}]
  BY <1>2 DEF Sound, Answer
<1>3. CASE a = Degraded
  BY <1>3 DEF Degraded, Sound, Answer, Judged
<1> QED BY <1>1, <1>2, <1>3

LEMMA JudgedAreVerdicts == Judged \subseteq Verdict /\ NoVote \notin Verdict
BY DEF Judged, Verdict, NoVote

(* What the prober may vote once its baseline is sound.                    *)
LEMMA ProberVotes ==
    ASSUME Sound(baseline)
    PROVE  ProberVerdict \in Judged \cup {"FRAGILE"}
BY DEF Sound, Answer, ProberVerdict

LEMMA InitInv == Init => VerificationInv
<1> SUFFICES ASSUME Init PROVE VerificationInv
  OBVIOUS
<1>1. stage \in [Verifier -> Stage] /\ votes \in Votes
  BY DEF Init, Stage, Votes
<1>2. stage["entailment"] = "running" /\ stage["prober"] = "idle" /\ stage["independent"] = "idle"
  BY DEF Init, Verifier
<1>3. \A u \in Verifier : votes[u] = NoVote
  BY DEF Init
<1>4. TypeInv
  BY <1>1 DEF Init, TypeInv
<1>5. EntailmentInv
  BY <1>2, <1>3 DEF EntailmentInv, Verifier
<1>6. ProberInv
  BY <1>2, <1>3 DEF ProberInv, Verifier, Init
<1>7. IndependentInv
  BY <1>2, <1>3 DEF IndependentInv, Verifier, NoVote
<1>8. DecisionInv
  BY DEF DecisionInv, Init
<1> QED BY <1>4, <1>5, <1>6, <1>7, <1>8 DEF VerificationInv

(* The entailment vote, with which the second pass may begin.              *)
LEMMA EntailInv == ASSUME VerificationInv, Entail PROVE VerificationInv'
<1>1. PICK left \in BOOLEAN :
          stage' = [u \in Verifier |-> IF u # "entailment" /\ left /\ config[u]
                                       THEN "running" ELSE "done"]
  BY DEF Entail
<1>2. Sound(entailed') /\ entailed'.verdict \in Judged
  BY AnswersAreSound DEF VerificationInv, Entail, Sound, Answer
<1>3. votes' = [votes EXCEPT !["entailment"] = entailed'.verdict]
  BY DEF Entail
<1>4. votes \in Votes /\ stage["entailment"] = "running" /\ verdict = NoVote
  BY DEF VerificationInv, TypeInv, DecisionInv, Entail, Verifier
<1>5. votes["prober"] = NoVote /\ votes["independent"] = NoVote
  BY <1>4 DEF VerificationInv, EntailmentInv, ProberInv, IndependentInv
<1>6. /\ votes' \in Votes
      /\ votes'["entailment"] = entailed'.verdict
      /\ votes'["prober"] = NoVote
      /\ votes'["independent"] = NoVote
  BY <1>2, <1>3, <1>4, <1>5, JudgedAreVerdicts DEF Votes, Verifier
<1>7. /\ stage' \in [Verifier -> Stage]
      /\ stage'["entailment"] = "done"
      /\ stage'["prober"] # "mutating"
  BY <1>1 DEF Stage, Verifier
<1>8. unbuilt = {} /\ mutants = {}
  BY <1>4 DEF VerificationInv, ProberInv, EntailmentInv
<1>9. TypeInv'
  BY <1>2, <1>6, <1>7 DEF VerificationInv, TypeInv, Entail, proberVars, searchVars, Sound
<1>10. EntailmentInv'
  BY <1>2, <1>6, <1>7 DEF EntailmentInv, Sound
<1>11. ProberInv'
  BY <1>6, <1>7, <1>8 DEF ProberInv, Entail, proberVars
<1>12. IndependentInv'
  BY <1>6 DEF IndependentInv, NoVote
<1>13. DecisionInv'
  BY <1>4 DEF DecisionInv, Entail
<1> QED BY <1>9, <1>10, <1>11, <1>12, <1>13 DEF VerificationInv

(* The prober's steps before its vote: no vote changes, and what it        *)
(* collects is not yet looked at.                                          *)
LEMMA ProbingInv ==
    ASSUME VerificationInv, NEW m \in MutationType, Baseline \/ Build(m) \/ Reverify(m)
    PROVE  VerificationInv'
<1>1. stage["prober"] \in {"running", "mutating"}
  BY DEF VerificationInv, ProberInv, Baseline, Build, Reverify
<1>2. /\ votes["prober"] = NoVote
      /\ stage["entailment"] = "done"
      /\ verdict = NoVote
  BY <1>1 DEF VerificationInv, EntailmentInv, ProberInv, DecisionInv, Verifier
<1>3. /\ stage' \in [Verifier -> Stage]
      /\ stage'["prober"] = "mutating"
      /\ stage'["entailment"] = stage["entailment"]
      /\ stage'["independent"] = stage["independent"]
  BY <1>1 DEF VerificationInv, TypeInv, ProberInv, Baseline, Build, Reverify, Stage, Verifier
<1>4. Sound(baseline')
  BY AnswersAreSound DEF VerificationInv, ProberInv, Baseline, Build, Reverify
<1>5. UNCHANGED <<claim, entailed, sources, refuters, votes, verdict>>
  BY DEF Baseline, Build, Reverify, searchVars
<1>6. probes' \in [MutationType -> Answer \cup {NoAnswer}]
  <2>1. \A a \in EntailmentAnswers : a \in Answer
    BY AnswersAreSound DEF VerificationInv, Sound
  <2> QED BY <2>1 DEF VerificationInv, TypeInv, Baseline, Build, Reverify
<1>7. unbuilt' \subseteq MutationType /\ mutants' \subseteq MutationType
  BY DEF VerificationInv, TypeInv, Baseline, Build, Reverify
<1>8. TypeInv'
  BY <1>3, <1>4, <1>5, <1>6, <1>7 DEF VerificationInv, TypeInv, Sound
<1>9. EntailmentInv'
  BY <1>2, <1>3, <1>5 DEF VerificationInv, EntailmentInv
<1>10. ProberInv'
  BY <1>2, <1>3, <1>4, <1>5 DEF ProberInv
<1>11. IndependentInv'
  BY <1>3, <1>5 DEF VerificationInv, IndependentInv
<1>12. DecisionInv'
  BY <1>2, <1>5 DEF DecisionInv
<1> QED BY <1>8, <1>9, <1>10, <1>11, <1>12 DEF VerificationInv

(* The prober's vote.                                                      *)
LEMMA ProberReturnsInv == ASSUME VerificationInv, ProberReturns PROVE VerificationInv'
<1>1. /\ Sound(baseline)
      /\ stage["entailment"] = "done"
      /\ verdict = NoVote
  BY DEF VerificationInv, EntailmentInv, ProberInv, DecisionInv, ProberReturns, Verifier
<1>2. ProberVerdict \in Verdict
  BY <1>1, ProberVotes, JudgedAreVerdicts DEF Verdict
<1>3. /\ votes' \in Votes
      /\ votes'["prober"] = ProberVerdict
      /\ votes'["entailment"] = votes["entailment"]
      /\ votes'["independent"] = votes["independent"]
  BY <1>2 DEF VerificationInv, TypeInv, Votes, Verifier, ProberReturns, Vote
<1>4. /\ stage' \in [Verifier -> Stage]
      /\ stage'["prober"] = "done"
      /\ stage'["entailment"] = stage["entailment"]
      /\ stage'["independent"] = stage["independent"]
  BY DEF VerificationInv, TypeInv, Stage, Verifier, ProberReturns, Vote
<1>5. UNCHANGED <<claim, entailed, baseline, unbuilt, mutants, probes, sources, refuters, verdict>>
  BY DEF ProberReturns, proberVars, searchVars
<1>6. ProberVerdict' = ProberVerdict
  BY <1>5 DEF ProberVerdict, Probed, Flipped
<1>7. TypeInv'
  BY <1>3, <1>4, <1>5 DEF VerificationInv, TypeInv
<1>8. EntailmentInv'
  BY <1>1, <1>3, <1>4, <1>5 DEF VerificationInv, EntailmentInv
<1>9. ProberInv'
  BY <1>1, <1>3, <1>4, <1>5, <1>6 DEF ProberInv, ProberReturns
<1>10. IndependentInv'
  BY <1>3, <1>4, <1>5 DEF VerificationInv, IndependentInv
<1>11. DecisionInv'
  BY <1>1, <1>5 DEF DecisionInv
<1> QED BY <1>7, <1>8, <1>9, <1>10, <1>11 DEF VerificationInv

(* The search, and the vote of the judge of its results.                   *)
LEMMA SearchingInv ==
    ASSUME VerificationInv, Search \/ JudgeSources
    PROVE  VerificationInv'
<1>1. /\ stage["independent"] \in {"running", "judging"}
      /\ stage["entailment"] = "done"
      /\ verdict = NoVote
  BY DEF VerificationInv, EntailmentInv, DecisionInv, Search, JudgeSources, Verifier
<1>2. votes["independent"] = NoVote
  BY <1>1 DEF VerificationInv, IndependentInv
<1>3. PICK v \in Judged \cup {"STALE", NoVote}, s \in {"judging", "done"} :
         /\ votes' = [votes EXCEPT !["independent"] = v]
         /\ stage' = [stage EXCEPT !["independent"] = s]
         /\ s = "judging" => v = NoVote
         /\ v = "STALE" => /\ entailed.verdict = "GROUNDED"
                           /\ refuters' >= MinCorroborating
  <2>1. CASE Search
    <3>1. PICK n \in 0..MaxSources :
             IF n = 0 THEN Vote("independent", "UNVERIFIABLE")
             ELSE /\ stage' = [stage EXCEPT !["independent"] = "judging"]
                  /\ UNCHANGED votes
      BY <2>1 DEF Search
    <3>2. CASE n = 0
      BY <3>1, <3>2 DEF Vote, Judged, NoVote
    <3>3. CASE n # 0
      <4>1. votes' = [votes EXCEPT !["independent"] = NoVote]
        BY <1>2, <3>1, <3>3 DEF VerificationInv, TypeInv, Votes, Verifier
      <4> QED BY <3>1, <3>3, <4>1 DEF NoVote
    <3> QED BY <3>2, <3>3
  <2>2. CASE JudgeSources
    <3>1. PICK v \in Judged, n \in 0..sources :
             refuters' = n /\ Vote("independent", IndependentVerdict(v, n))
      BY <2>2 DEF JudgeSources
    <3>2. IndependentVerdict(v, n) \in Judged \cup {"STALE"}
      BY DEF IndependentVerdict
    <3>3. IndependentVerdict(v, n) = "STALE" =>
             entailed.verdict = "GROUNDED" /\ refuters' >= MinCorroborating
      BY <3>1 DEF IndependentVerdict, Judged
    <3> QED BY <3>1, <3>2, <3>3 DEF Vote
  <2> QED BY <2>1, <2>2
<1>4. /\ votes' \in Votes
      /\ votes'["independent"] = v
      /\ votes'["entailment"] = votes["entailment"]
      /\ votes'["prober"] = votes["prober"]
  BY <1>3, JudgedAreVerdicts DEF VerificationInv, TypeInv, Votes, Verifier, Verdict
<1>5. /\ stage' \in [Verifier -> Stage]
      /\ stage'["independent"] = s
      /\ stage'["entailment"] = stage["entailment"]
      /\ stage'["prober"] = stage["prober"]
  BY <1>3 DEF VerificationInv, TypeInv, Stage, Verifier
<1>6. UNCHANGED <<claim, entailed, baseline, unbuilt, mutants, probes, verdict>>
  BY DEF Search, JudgeSources, proberVars
<1>7. sources' \in Nat /\ refuters' \in Nat
  BY VerificationAssumption DEF VerificationInv, TypeInv, Search, JudgeSources
<1>8. ProberVerdict' = ProberVerdict
  BY <1>6 DEF ProberVerdict, Probed, Flipped
<1>9. TypeInv'
  BY <1>4, <1>5, <1>6, <1>7 DEF VerificationInv, TypeInv
<1>10. EntailmentInv'
  BY <1>1, <1>4, <1>5, <1>6 DEF VerificationInv, EntailmentInv
<1>11. ProberInv'
  BY <1>4, <1>5, <1>6, <1>8 DEF VerificationInv, ProberInv
<1>12. IndependentInv'
  BY <1>3, <1>4, <1>5, <1>6 DEF IndependentInv
<1>13. DecisionInv'
  BY <1>1, <1>6 DEF DecisionInv
<1> QED BY <1>9, <1>10, <1>11, <1>12, <1>13 DEF VerificationInv

LEMMA DecideInv == ASSUME VerificationInv, Decide PROVE VerificationInv'
<1>1. UNCHANGED <<claim, stage, entailed, baseline, unbuilt, mutants, probes,
                  sources, refuters, votes>>
  BY DEF Decide, proberVars, searchVars
<1>2. verdict' = Reconcile(votes) /\ verdict' \in Verdict
  BY ReconcileType DEF VerificationInv, TypeInv, Decide
<1>3. ProberVerdict' = ProberVerdict /\ Reconcile(votes)' = Reconcile(votes)
  BY <1>1 DEF ProberVerdict, Probed, Flipped
<1>4. TypeInv' /\ EntailmentInv' /\ ProberInv' /\ IndependentInv'
  BY <1>1, <1>2, <1>3 DEF VerificationInv, TypeInv, EntailmentInv, ProberInv, IndependentInv
<1>5. DecisionInv'
  BY <1>1, <1>2, <1>3 DEF DecisionInv, Decide
<1> QED BY <1>4, <1>5 DEF VerificationInv

LEMMA InvariantHolds == Spec => []VerificationInv
<1>1. VerificationInv /\ [Next]_vars => VerificationInv'
  <2> SUFFICES ASSUME VerificationInv, [Next]_vars PROVE VerificationInv'
    OBVIOUS
  <2>1. CASE Entail
    BY <2>1, EntailInv
  <2>2. CASE Baseline
    BY <2>2, ProbingInv DEF MutationType
  <2>3. ASSUME NEW m \in MutationType, Build(m) \/ Reverify(m) PROVE VerificationInv'
    BY <2>3, ProbingInv
  <2>4. CASE ProberReturns
    BY <2>4, ProberReturnsInv
  <2>5. CASE Search \/ JudgeSources
    BY <2>5, SearchingInv
  <2>6. CASE Decide
    BY <2>6, DecideInv
  <2>7. CASE UNCHANGED vars
    BY <2>7 DEF vars, proberVars, searchVars, VerificationInv, TypeInv, EntailmentInv,
                ProberInv, IndependentInv, DecisionInv, ProberVerdict, Probed, Flipped
  <2> QED BY <2>1, <2>2, <2>3, <2>4, <2>5, <2>6, <2>7 DEF Next, Decided
<1> QED BY <1>1, InitInv, PTL DEF Spec

-----------------------------------------------------------------------------
(* What is known of the votes of a decided claim: who may have cast which, *)
(* and that the verdict is one of them that none outranks.                 *)
LEMMA DecidedVotes ==
    ASSUME VerificationInv, verdict # NoVote
    PROVE  /\ \E u \in Verifier : votes[u] = verdict
           /\ \A u \in Verifier : votes[u] # NoVote => Rank[verdict] <= Rank[votes[u]]
           /\ Sound(entailed)
           /\ votes["entailment"] = entailed.verdict
           /\ votes["entailment"] \in Judged
           /\ votes["prober"] # NoVote =>
                 /\ Sound(baseline)
                 /\ votes["prober"] = ProberVerdict
                 /\ votes["prober"] \in Judged \cup {"FRAGILE"}
           /\ votes["independent"] \in Judged \cup {"STALE", NoVote}
<1>1. Sound(entailed) /\ votes["entailment"] = entailed.verdict
  BY DEF VerificationInv, DecisionInv, EntailmentInv, Verifier
<1>2. votes["entailment"] \in Judged
  BY <1>1 DEF Sound, Answer
<1>3. Ran(votes) # {}
  BY <1>2, JudgedAreVerdicts DEF Ran, Verifier
<1>4. verdict = Reconcile(votes) /\ votes \in Votes
  BY DEF VerificationInv, DecisionInv, TypeInv
<1>5. /\ \E u \in Ran(votes) : votes[u] = verdict
      /\ \A u \in Ran(votes) : Rank[verdict] <= Rank[votes[u]]
  BY <1>3, <1>4, ReconcileIsTopVote
<1> QED BY <1>1, <1>2, <1>5, ProberVotes DEF Ran, VerificationInv, ProberInv, IndependentInv

(* A claim comes out STALE only with a judge's GROUNDED and two sources    *)
(* that refute it: the gate of independent.py, seen through reconcile().   *)
THEOREM StaleNeedsSources == Spec => []StaleIsCorroborated
<1>1. VerificationInv => StaleIsCorroborated
  <2> SUFFICES ASSUME VerificationInv, verdict = "STALE" PROVE StaleIsCorroborated
    BY DEF StaleIsCorroborated
  <2>1. verdict # NoVote
    BY DEF NoVote
  <2>2. votes["independent"] = "STALE"
    BY <2>1, DecidedVotes DEF Verifier, Judged, NoVote
  <2>3. entailed.verdict = "GROUNDED" /\ refuters >= MinCorroborating
    BY <2>2 DEF VerificationInv, IndependentInv
  <2>4. entailed = [verdict |-> "GROUNDED", degraded |-> FALSE]
    BY <2>1, <2>3, DecidedVotes DEF Sound, Answer
  <2>5. \A u \in Verifier : votes[u] # "CONTRADICTED"
    BY <2>1, DecidedVotes DEF Rank, NoVote
  <2> QED BY <2>3, <2>4, <2>5 DEF StaleIsCorroborated
<1> QED BY <1>1, InvariantHolds, PTL

(* A claim comes out FRAGILE only if the prober's own baseline was a       *)
(* judge's GROUNDED, a mutation was not refuted and nobody objected.       *)
THEOREM FragileNeedsProbe == Spec => []FragileIsEarned
<1>1. VerificationInv => FragileIsEarned
  <2> SUFFICES ASSUME VerificationInv, verdict = "FRAGILE" PROVE FragileIsEarned
    BY DEF FragileIsEarned
  <2>1. verdict # NoVote
    BY DEF NoVote
  <2>2. votes["prober"] = "FRAGILE"
    BY <2>1, DecidedVotes DEF Verifier, Judged, NoVote
  <2>3. Sound(baseline) /\ ProberVerdict = "FRAGILE"
    BY <2>1, <2>2, DecidedVotes DEF NoVote
  <2>4. baseline.verdict = "GROUNDED" /\ \E m \in Probed : ~Flipped(m)
    BY <2>3 DEF ProberVerdict, Sound, Answer, Judged
  <2>5. baseline = [verdict |-> "GROUNDED", degraded |-> FALSE]
    BY <2>3, <2>4 DEF Sound, Answer
  <2>6. PICK m \in MutationType : probes[m] # NoAnswer /\ ~Flipped(m)
    BY <2>4 DEF Probed
  <2>7. probes[m].verdict \in Judged
    BY <2>6 DEF VerificationInv, TypeInv, Answer
  <2>8. probes[m].verdict \in {"GROUNDED", "UNVERIFIABLE"}
    BY <2>4, <2>6, <2>7 DEF Flipped, FlipTargets, Judged
  <2>9. \A u \in Verifier : votes[u] \notin FlipTargets \cup {"STALE"}
    BY <2>1, DecidedVotes DEF Rank, NoVote, FlipTargets
  <2> QED BY <2>5, <2>8, <2>9 DEF FragileIsEarned
<1> QED BY <1>1, InvariantHolds, PTL

(* A claim comes out GROUNDED only if no verifier that ran objected, and   *)
(* every probe of a prober that agreed was refuted.                        *)
THEOREM GroundedNeedsAll == Spec => []GroundedSurvived
<1>1. VerificationInv => GroundedSurvived
  <2> SUFFICES ASSUME VerificationInv, verdict = "GROUNDED" PROVE GroundedSurvived
    BY DEF GroundedSurvived
  <2>1. verdict # NoVote
    BY DEF NoVote
  <2>2. \A u \in Verifier : votes[u] \in Verdict \cup {NoVote}
    BY DEF VerificationInv, TypeInv, Votes
  <2>3. \A u \in Verifier : votes[u] \in {"GROUNDED", "UNVERIFIABLE", NoVote}
    BY <2>1, <2>2, DecidedVotes DEF Rank, Verdict
  <2>4. ASSUME votes["prober"] = "GROUNDED", NEW m \in Probed
        PROVE  probes[m].verdict \in FlipTargets
    <3>1. Sound(baseline) /\ ProberVerdict = "GROUNDED"
      BY <2>1, <2>4, DecidedVotes DEF NoVote
    <3>2. Flipped(m)
      BY <3>1 DEF ProberVerdict
    <3> QED BY <3>2 DEF Flipped
  <2> QED BY <2>3, <2>4 DEF GroundedSurvived
<1> QED BY <1>1, InvariantHolds, PTL

(* While the judge is down, for either of the two calls about the claim    *)
(* itself, no claim is certified: the degraded answer is UNSUPPORTED,      *)
(* which CONTRADICTED can outrank and STALE, but that needs a grounded     *)
(* answer in the first pass (_degraded, entailment.py).                    *)
THEOREM OutageIsSafe == Spec => []OutageCertifiesNothing
<1>1. VerificationInv => OutageCertifiesNothing
  <2> SUFFICES ASSUME VerificationInv, verdict # NoVote
               PROVE  /\ entailed.degraded => verdict \in {"UNSUPPORTED", "CONTRADICTED"}
                      /\ votes["prober"] # NoVote /\ baseline.degraded
                             => verdict \in {"UNSUPPORTED", "CONTRADICTED", "STALE"}
    BY DEF OutageCertifiesNothing
  <2>1. ASSUME NEW u \in Verifier, votes[u] = "UNSUPPORTED"
        PROVE  verdict \in {"CONTRADICTED", "STALE", "UNSUPPORTED"}
    <3>1. Rank[verdict] <= 2
      BY <2>1, DecidedVotes DEF NoVote, Rank
    <3> QED BY <3>1 DEF VerificationInv, TypeInv, Verdict, Rank
  <2>2. ASSUME entailed.degraded PROVE verdict \in {"UNSUPPORTED", "CONTRADICTED"}
    <3>1. votes["entailment"] = "UNSUPPORTED" /\ entailed.verdict = "UNSUPPORTED"
      BY <2>2, DecidedVotes DEF Sound
    <3>2. verdict # "STALE"
      <4> SUFFICES ASSUME verdict = "STALE" PROVE FALSE
        OBVIOUS
      <4>1. votes["independent"] = "STALE"
        BY DecidedVotes DEF Verifier, Judged, NoVote
      <4> QED BY <3>1, <4>1 DEF VerificationInv, IndependentInv
    <3> QED BY <2>1, <3>1, <3>2 DEF Verifier
  <2>3. ASSUME votes["prober"] # NoVote, baseline.degraded
        PROVE  verdict \in {"UNSUPPORTED", "CONTRADICTED", "STALE"}
    <3>1. Sound(baseline) /\ votes["prober"] = ProberVerdict
      BY <2>3, DecidedVotes
    <3>2. votes["prober"] = "UNSUPPORTED"
      BY <2>3, <3>1 DEF Sound, ProberVerdict
    <3> QED BY <2>1, <3>2 DEF Verifier
  <2> QED BY <2>2, <2>3
<1> QED BY <1>1, InvariantHolds, PTL

=============================================================================
