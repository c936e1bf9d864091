------------------------- MODULE OrchestratorProofs -------------------------
(***************************************************************************)
(* Invariants of the orchestrator for every number of runs, claims,        *)
(* probes, store faults and crashes, every budget and every behaviour of   *)
(* the verifiers.                                                          *)
(***************************************************************************)
EXTENDS Orchestrator, FiniteSetTheorems, SequenceTheorems, TLAPS

-----------------------------------------------------------------------------
(* The verdict of a claim is one, whatever votes were cast.                *)

(* No two verdicts share a rank, and ranks are the indexes 0..5.           *)
LEMMA RankFacts ==
    /\ Rank \in [Verdict -> 0..5]
    /\ \A v, w \in Verdict : Rank[v] = Rank[w] => v = w
BY DEF Rank, Verdict

(* Some verifier that ran cast a vote no other vote outranks.              *)
LEMMA BestVote ==
    ASSUME NEW votes \in Votes, Ran(votes) # {}
    PROVE  \E b \in Ran(votes) :
               \A u \in Ran(votes) : Rank[votes[b]] <= Rank[votes[u]]
<1>1. \A u \in Ran(votes) : u \in Verifier /\ Rank[votes[u]] \in 0..5
  BY RankFacts DEF Ran, Votes
<1> QED BY <1>1 DEF Ran, Verifier

(* VerificationProofs shows which verdict it is.                           *)
LEMMA ReconcileType ==
    ASSUME NEW votes \in Votes
    PROVE  Reconcile(votes) \in Verdict
<1> DEFINE S == {votes[u] : u \in Ran(votes)}
<1>1. CASE Ran(votes) = {}
  BY <1>1 DEF Reconcile, Verdict
<1>2. CASE Ran(votes) # {}
  <2>1. \E v \in S : \A u \in Ran(votes) : Rank[v] <= Rank[votes[u]]
    BY <1>2, BestVote
  <2>2. Reconcile(votes) \in S
    BY <1>2, <2>1 DEF Reconcile
  <2> QED BY <2>2 DEF Ran, Votes
<1> QED BY <1>1, <1>2

-----------------------------------------------------------------------------
(* Type correctness.                                                       *)

LEMMA EvType ==
    ASSUME NEW name \in {"run.started", "claims.decomposed",
                         "probe.completed", "claim.verified",
                         "run.completed", "run.error"},
           NEW claim \in Nat, NEW info \in Vote \cup Status
    PROVE  Ev(name, claim, info) \in Event
BY DEF Ev, Event

LEMMA TypeInit == Init => TypeOK
<1> SUFFICES ASSUME Init PROVE TypeOK
  OBVIOUS
<1>1. NoVotes \in Votes /\ NoRow \in ClaimRow /\ NoTotals \in Totals
  BY DEF NoVotes, Votes, NoRow, ClaimRow, Vote, SettledBy, NoTotals, Totals
<1> QED
  BY <1>1, OrchestratorAssumption DEF Init, TypeOK, Active, Ended, Config,
     ClaimNo, Status

(* A step of update_run_status and of the event log keeps their types.     *)
LEMMA StatusType ==
    ASSUME TypeOK, NEW r \in Runs, NEW o, NEW s \in Status, SetStatus(r, o, s)
    PROVE  status' \in [Runs -> Status]
BY DEF TypeOK, SetStatus

LEMMA PublishType ==
    ASSUME TypeOK, NEW r \in Runs, NEW events \in Seq(Event),
           Publish(r, events)
    PROVE  log' \in [Runs -> Seq(Event)]
<1>1. log[r] \o events \in Seq(Event)
  BY ConcatProperties DEF TypeOK
<1> QED BY <1>1 DEF Publish, TypeOK

LEMMA PublishIfType ==
    ASSUME TypeOK, NEW r \in Runs, NEW events \in Seq(Event), NEW c,
           PublishIf(c, r, events)
    PROVE  log' \in [Runs -> Seq(Event)]
<1>1. CASE c
  BY <1>1, PublishType DEF PublishIf
<1>2. CASE ~c
  BY <1>2 DEF PublishIf, TypeOK
<1> QED BY <1>1, <1>2

LEMMA GotoType ==
    ASSUME TypeOK, NEW r \in Runs, NEW label \in {"idle"} \cup Active \cup Ended,
           Goto(r, label)
    PROVE  pc' \in [Runs -> {"idle"} \cup Active \cup Ended]
BY DEF TypeOK, Goto

LEMMA FaultType ==
    ASSUME TypeOK, NEW o, CountFault(o)
    PROVE  faults' \in 0..MaxFaults
BY OrchestratorAssumption DEF TypeOK, CountFault

LEMMA FinishType ==
    ASSUME TypeOK, NEW r \in Runs, NEW v \in Verdict, FinishClaim(r, v),
           idx[r] <= MaxClaims
    PROVE  /\ details' \in [Runs -> Seq(Verdict)]
           /\ idx' \in [Runs -> 1..(MaxClaims + 1)]
           /\ vote' \in [Runs -> Votes]
<1>1. Append(details[r], v) \in Seq(Verdict)
  BY AppendProperties DEF TypeOK
<1>2. NoVotes \in Votes
  BY DEF NoVotes, Votes
<1> QED
  BY <1>1, <1>2, OrchestratorAssumption DEF TypeOK, FinishClaim

LEMMA ScoreType ==
    ASSUME NEW s \in Seq(Verdict)
    PROVE  Score(s) \in Totals
<1>1. ASSUME NEW V PROVE Count(s, V) \in Nat
  <2>1. IsFiniteSet(DOMAIN s)
    BY FS_Interval, LenProperties
  <2> QED BY <2>1, FS_Subset, FS_CardinalityType DEF Count
<1> QED BY <1>1, LenProperties DEF Score, Totals

(* The steps outside the claim loop.                                       *)
LEMMA SetupTypes ==
    ASSUME TypeOK, NEW r \in Runs
    PROVE  /\ Accept(r) => TypeOK'
           /\ Start(r) => TypeOK'
           /\ CreateRun(r) => TypeOK'
           /\ MarkSkipped(r) => TypeOK'
           /\ MarkRunning(r) => TypeOK'
           /\ SaveChunks(r) => TypeOK'
<1> USE DEF Status, Active, Ended, Outcome
<1>1. Accept(r) => TypeOK'
  BY GotoType DEF Accept, TypeOK, task, store, rows, bounds
<1>2. ASSUME Start(r) PROVE TypeOK'
  <2>1. <<Ev("run.started", 0, "pending")>> \in Seq(Event)
    BY EvType
  <2> QED
    BY <1>2, <2>1, GotoType, PublishType
    DEF Start, TypeOK, task, store, rows, bounds
<1>3. ASSUME CreateRun(r) PROVE TypeOK'
  <2>1. PICK o \in Outcome, next \in {"skip", "mark_running"} :
            /\ CountFault(o)
            /\ status' = IF Applied(o) THEN [status EXCEPT ![r] = "pending"]
                         ELSE status
            /\ Proceed(r, o, next)
    BY <1>3 DEF CreateRun
  <2>2. status' \in [Runs -> Status]
    BY <2>1 DEF TypeOK
  <2>3. pc' \in [Runs -> {"idle"} \cup Active \cup Ended]
    BY <2>1, GotoType DEF Proceed
  <2> QED
    BY <1>3, <2>1, <2>2, <2>3, FaultType
    DEF CreateRun, TypeOK, task, rows
<1>4. ASSUME MarkSkipped(r) PROVE TypeOK'
  <2>1. PICK o \in Outcome :
            /\ CountFault(o)
            /\ SetStatus(r, o, "skipped")
            /\ Proceed(r, o, "returned")
            /\ PublishIf(o = "ok", r, <<Ev("run.completed", 0, "skipped")>>)
    BY <1>4 DEF MarkSkipped
  <2>2. <<Ev("run.completed", 0, "skipped")>> \in Seq(Event)
    BY EvType
  <2>3. pc' \in [Runs -> {"idle"} \cup Active \cup Ended]
    BY <2>1, GotoType DEF Proceed
  <2> QED
    BY <1>4, <2>1, <2>2, <2>3, FaultType, StatusType, PublishIfType
    DEF MarkSkipped, TypeOK, task, rows
<1>5. ASSUME MarkRunning(r) PROVE TypeOK'
  <2>1. PICK o \in Outcome :
            /\ CountFault(o)
            /\ SetStatus(r, o, "running")
            /\ Proceed(r, o, "save_chunks")
    BY <1>5 DEF MarkRunning
  <2>2. pc' \in [Runs -> {"idle"} \cup Active \cup Ended]
    BY <2>1, GotoType DEF Proceed
  <2> QED
    BY <1>5, <2>1, <2>2, FaultType, StatusType
    DEF MarkRunning, TypeOK, task, rows
<1>6. ASSUME SaveChunks(r) PROVE TypeOK'
  <2>1. PICK o \in Outcome : CountFault(o) /\ Proceed(r, o, "decompose")
    BY <1>6 DEF SaveChunks
  <2>2. pc' \in [Runs -> {"idle"} \cup Active \cup Ended]
    BY <2>1, GotoType DEF Proceed
  <2> QED
    BY <1>6, <2>1, <2>2, FaultType
    DEF SaveChunks, TypeOK, task, store, rows
<1> QED BY <1>1, <1>2, <1>3, <1>4, <1>5, <1>6

LEMMA DecomposeTypes ==
    ASSUME TypeOK, NEW r \in Runs
    PROVE  /\ Decompose(r) => TypeOK'
           /\ DecomposeRaises(r) => TypeOK'
           /\ FailDecompose(r) => TypeOK'
<1> USE DEF Status, Active, Ended, Outcome
<1>1. ASSUME Decompose(r) PROVE TypeOK'
  <2>0. PICK n \in 0..MaxClaims : \E cs \in [1..n -> Kind] :
            claims' = [claims EXCEPT ![r] = cs]
    BY <1>1 DEF Decompose
  <2>1. PICK cs \in [1..n -> Kind] : claims' = [claims EXCEPT ![r] = cs]
    BY <2>0
  <2>2. cs \in Seq(Kind) /\ Len(cs) = n
    BY <2>1, OrchestratorAssumption
  <2>3. /\ claims' \in [Runs -> Seq(Kind)]
        /\ \A q \in Runs : Len(claims'[q]) <= MaxClaims
    BY <2>1, <2>2, OrchestratorAssumption DEF TypeOK
  <2>4. <<Ev("claims.decomposed", 0, "running")>> \in Seq(Event)
    BY EvType
  <2> QED
    BY <1>1, <2>3, <2>4, GotoType, PublishType
    DEF Decompose, TypeOK, store, rows, bounds
<1>2. DecomposeRaises(r) => TypeOK'
  BY GotoType DEF DecomposeRaises, TypeOK, task, store, rows, bounds
<1>3. ASSUME FailDecompose(r) PROVE TypeOK'
  <2>1. PICK o \in Outcome :
            /\ CountFault(o)
            /\ SetStatus(r, o, "error")
            /\ Goto(r, IF o = "ok" THEN "returned" ELSE "raised")
            /\ PublishIf(o = "ok", r, <<Ev("run.error", 0, "error")>>)
    BY <1>3 DEF FailDecompose
  <2>2. <<Ev("run.error", 0, "error")>> \in Seq(Event)
    BY EvType
  <2>3. pc' \in [Runs -> {"idle"} \cup Active \cup Ended]
    BY <2>1, GotoType
  <2> QED
    BY <1>3, <2>1, <2>2, <2>3, FaultType, StatusType, PublishIfType
    DEF FailDecompose, TypeOK, task, rows
<1> QED BY <1>1, <1>2, <1>3

LEMMA EndTypes ==
    ASSUME TypeOK, NEW r \in Runs
    PROVE  /\ Finalize(r) => TypeOK'
           /\ Abort(r) => TypeOK'
<1> USE DEF Status, Active, Ended, Outcome
<1>1. ASSUME Finalize(r) PROVE TypeOK'
  <2>1. PICK o \in Outcome :
            /\ CountFault(o)
            /\ SetStatus(r, o, "complete")
            /\ final' = IF Applied(o)
                        THEN [final EXCEPT ![r] = Score(details[r])]
                        ELSE final
            /\ Proceed(r, o, "returned")
            /\ PublishIf(o = "ok", r, <<Ev("run.completed", 0, "complete")>>)
    BY <1>1 DEF Finalize
  <2>2. <<Ev("run.completed", 0, "complete")>> \in Seq(Event)
    BY EvType
  <2>3. pc' \in [Runs -> {"idle"} \cup Active \cup Ended]
    BY <2>1, GotoType DEF Proceed
  <2>4. Score(details[r]) \in Totals
    BY ScoreType DEF TypeOK
  <2>5. final' \in [Runs -> Totals]
    BY <2>1, <2>4 DEF TypeOK
  <2> QED
    BY <1>1, <2>1, <2>2, <2>3, <2>5, FaultType, StatusType, PublishIfType
    DEF Finalize, TypeOK, task
<1>2. ASSUME Abort(r) PROVE TypeOK'
  <2>1. PICK o \in Outcome : CountFault(o) /\ SetStatus(r, o, "error")
    BY <1>2 DEF Abort
  <2>2. <<Ev("run.error", 0, "error")>> \in Seq(Event)
    BY EvType
  <2> QED
    BY <1>2, <2>1, <2>2, FaultType, StatusType, PublishType, GotoType
    DEF Abort, TypeOK, task, rows
<1> QED BY <1>1, <1>2

(* TypeOK is not inductive: inside the loop body the index must point at a *)
(* claim, and the queue of probes must not be empty while one is saved.    *)
InLoop ==
    \A r \in Runs :
        /\ pc[r] \in {"second", "save_rows", "save_probe"}
               => idx[r] <= Len(claims[r])
        /\ pc[r] = "save_probe" => probeQ[r] # << >>

LEMMA SettleTypes ==
    ASSUME TypeOK, NEW r \in Runs
    PROVE  /\ SaveResolved(r) => TypeOK'
           /\ SaveBudgetExceeded(r) => TypeOK'
<1> USE DEF Status, Active, Ended, Outcome
<1>1. ASSUME idx[r] <= Len(claims[r]), pc[r] = "claim",
             NEW by \in {"decomposer", "budget"}, SettleUnverified(r, by)
      PROVE  TypeOK'
  <2> DEFINE row == [verdict |-> "UNVERIFIABLE", by |-> by]
  <2>1. PICK o \in Outcome :
            /\ CountFault(o)
            /\ InsertClaim(r, o, row)
            /\ Proceed(r, o, "claim")
            /\ IF o = "ok" THEN FinishClaim(r, "UNVERIFIABLE")
               ELSE UNCHANGED <<details, idx, vote>>
            /\ PublishIf(o = "ok", r, <<ClaimVerified(r, "UNVERIFIABLE")>>)
    BY <1>1 DEF SettleUnverified
  <2>2. <<ClaimVerified(r, "UNVERIFIABLE")>> \in Seq(Event)
    <3>1. ClaimVerified(r, "UNVERIFIABLE") \in Event
      BY EvType DEF ClaimVerified, TypeOK, Vote, Verdict
    <3> QED BY <3>1
  <2>3. pc' \in [Runs -> {"idle"} \cup Active \cup Ended]
    BY <2>1, GotoType DEF Proceed
  <2>4. idx[r] \in ClaimNo
    BY <1>1, OrchestratorAssumption DEF TypeOK, ClaimNo
  <2>5. row \in ClaimRow
    BY DEF ClaimRow, Vote, Verdict, SettledBy
  <2>6. claimRow' \in [Runs -> [ClaimNo -> ClaimRow]]
    BY <2>1, <2>4, <2>5 DEF InsertClaim, TypeOK
  <2>7. /\ details' \in [Runs -> Seq(Verdict)]
        /\ idx' \in [Runs -> 1..(MaxClaims + 1)]
        /\ vote' \in [Runs -> Votes]
    <3>1. idx[r] <= MaxClaims /\ "UNVERIFIABLE" \in Verdict
      BY <2>4 DEF ClaimNo, Verdict
    <3> QED BY <2>1, <3>1, FinishType DEF TypeOK
  <2> QED
    BY <1>1, <2>1, <2>2, <2>3, <2>6, <2>7, FaultType, PublishIfType
    DEF SettleUnverified, TypeOK
<1> QED BY <1>1 DEF SaveResolved, SaveBudgetExceeded, AtClaim

LEMMA VoteType ==
    ASSUME NEW f \in [Runs -> Votes], NEW r \in Runs, NEW u \in Verifier,
           NEW v \in Vote
    PROVE  [f EXCEPT ![r][u] = v] \in [Runs -> Votes]
BY DEF Votes, Vote

LEMMA VerifyTypes ==
    ASSUME TypeOK, NEW r \in Runs
    PROVE  /\ RunEntailment(r) => TypeOK'
           /\ IndependentReturns(r) => TypeOK'
           /\ InLoop /\ ProberReturns(r) => TypeOK'
<1> USE DEF Active, Ended
<1>1. ASSUME RunEntailment(r) PROVE TypeOK'
  <2>1. PICK o \in EntailmentOutcomes :
            EntailmentReturns(r, o, cost[r] + o.cost < Budget)
    BY <1>1 DEF RunEntailment
  <2>2. o.vote \in Vote /\ o.cost \in Nat
    BY <2>1, OrchestratorAssumption
  <2>3. vote' \in [Runs -> Votes]
    BY <2>1, <2>2, VoteType, Zenon DEF EntailmentReturns, TypeOK, Verifier
  <2>5. cost' \in [Runs -> Nat]
    BY <2>1, <2>2 DEF EntailmentReturns, TypeOK
  <2>4. todo' \in [Runs -> SUBSET Verifier]
    BY <2>1 DEF EntailmentReturns, TypeOK, Verifier
  <2> QED
    BY <2>1, <2>3, <2>4, <2>5, GotoType
    DEF EntailmentReturns, TypeOK, store, rows, bounds
<1>2. ASSUME IndependentReturns(r) PROVE TypeOK'
  <2>3. PICK v \in IndependentOutcomes :
            vote' = [vote EXCEPT ![r]["independent"] = v]
    BY <1>2 DEF IndependentReturns
  <2>1. vote' \in [Runs -> Votes]
    BY <2>3, VoteType, OrchestratorAssumption DEF TypeOK, Verifier
  <2>2. todo' \in [Runs -> SUBSET Verifier]
    BY <1>2 DEF IndependentReturns, TypeOK
  <2> QED
    BY <1>2, <2>1, <2>2
    DEF IndependentReturns, TypeOK, store, rows, bounds
<1>3. ASSUME InLoop, ProberReturns(r) PROVE TypeOK'
  <2>1. PICK o \in ProberOutcomes :
            /\ vote' = [vote EXCEPT ![r]["prober"] = o.vote]
            /\ cost' = [cost EXCEPT ![r] = @ + o.cost]
            /\ lastProbes' =
                   IF o.vote = NoVote THEN lastProbes
                   ELSE [k \in 1..o.probes |->
                            [run |-> r, claim |-> idx[r], no |-> k]]
    BY <1>3 DEF ProberReturns
  <2>2. o.vote \in Vote /\ o.cost \in Nat /\ o.probes \in 0..MaxProbes
    BY <2>1, OrchestratorAssumption
  <2>3. vote' \in [Runs -> Votes]
    BY <2>1, <2>2, VoteType DEF TypeOK, Verifier
  <2>8. cost' \in [Runs -> Nat]
    BY <2>1, <2>2 DEF TypeOK
  <2>4. todo' \in [Runs -> SUBSET Verifier]
    BY <1>3 DEF ProberReturns, TypeOK
  <2>5. idx[r] \in ClaimNo
    BY <1>3, OrchestratorAssumption DEF ProberReturns, InLoop, TypeOK, ClaimNo
  <2>6. \A k \in 1..o.probes : [run |-> r, claim |-> idx[r], no |-> k] \in Probe
    BY <2>2, <2>5, OrchestratorAssumption DEF Probe
  <2>7. lastProbes' \in Seq(Probe)
    <3> DEFINE f == [k \in 1..o.probes |->
                        [run |-> r, claim |-> idx[r], no |-> k]]
    <3>1. f \in [1..o.probes -> Probe]
      BY <2>6
    <3>2. o.probes \in Nat
      BY <2>2, OrchestratorAssumption
    <3>3. f \in Seq(Probe)
      BY <3>1, <3>2
    <3> QED BY <2>1, <3>3 DEF TypeOK
  <2> QED
    BY <1>3, <2>3, <2>4, <2>7, <2>8
    DEF ProberReturns, TypeOK, store, rows, bounds
<1> QED BY <1>1, <1>2, <1>3

LEMMA SaveTypes ==
    ASSUME TypeOK, InLoop, NEW r \in Runs
    PROVE  /\ SaveClaim(r) => TypeOK'
           /\ SaveVerification(r) => TypeOK'
<1> USE DEF Active, Ended, Outcome
<1>1. ASSUME SaveClaim(r) PROVE TypeOK'
  <2> DEFINE row == [verdict |-> Reconcile(vote[r]), by |-> "verifiers"]
  <2>1. PICK o \in Outcome :
            /\ CountFault(o)
            /\ InsertClaim(r, o, row)
            /\ Proceed(r, o, "save_rows")
            /\ todo' = IF o = "ok" THEN [todo EXCEPT ![r] = Ran(vote[r])]
                       ELSE todo
    BY <1>1 DEF SaveClaim
  <2>2. idx[r] \in ClaimNo
    BY <1>1, OrchestratorAssumption DEF SaveClaim, InLoop, TypeOK, ClaimNo
  <2>3. row \in ClaimRow
    BY ReconcileType DEF TypeOK, ClaimRow, Vote, SettledBy
  <2>4. claimRow' \in [Runs -> [ClaimNo -> ClaimRow]]
    BY <2>1, <2>2, <2>3 DEF InsertClaim, TypeOK
  <2>5. pc' \in [Runs -> {"idle"} \cup Active \cup Ended]
    BY <2>1, GotoType DEF Proceed
  <2>6. todo' \in [Runs -> SUBSET Verifier]
    BY <2>1 DEF TypeOK, Ran
  <2> QED
    BY <1>1, <2>1, <2>4, <2>5, <2>6, FaultType DEF SaveClaim, TypeOK
<1>2. ASSUME SaveVerification(r) PROVE TypeOK'
  <2>0. PICK u \in todo[r] : \E o \in Outcome :
            /\ CountFault(o)
            /\ verRow' = IF Applied(o)
                         THEN [verRow EXCEPT ![r][idx[r]][u] = vote[r][u]]
                         ELSE verRow
            /\ Proceed(r, o, "save_rows")
            /\ todo' = IF o = "ok" THEN [todo EXCEPT ![r] = @ \ {u}] ELSE todo
    BY <1>2 DEF SaveVerification
  <2>1. PICK o \in Outcome :
            /\ CountFault(o)
            /\ verRow' = IF Applied(o)
                         THEN [verRow EXCEPT ![r][idx[r]][u] = vote[r][u]]
                         ELSE verRow
            /\ Proceed(r, o, "save_rows")
            /\ todo' = IF o = "ok" THEN [todo EXCEPT ![r] = @ \ {u}] ELSE todo
    BY <2>0
  <2>2. u \in Verifier /\ vote[r][u] \in Vote
    BY DEF TypeOK, Votes, Vote
  <2>3. [verRow[r][idx[r]] EXCEPT ![u] = vote[r][u]] \in Votes
        \/ idx[r] \notin ClaimNo
    BY <2>2 DEF TypeOK, Votes, Vote
  <2>4. verRow' \in [Runs -> [ClaimNo -> Votes]]
    BY <2>1, <2>3 DEF TypeOK
  <2>5. pc' \in [Runs -> {"idle"} \cup Active \cup Ended]
    BY <2>1, GotoType DEF Proceed
  <2>6. todo' \in [Runs -> SUBSET Verifier]
    BY <2>1 DEF TypeOK
  <2> QED
    BY <1>2, <2>1, <2>4, <2>5, <2>6, FaultType DEF SaveVerification, TypeOK
<1> QED BY <1>1, <1>2

LEMMA VerifiedType ==
    ASSUME TypeOK, NEW r \in Runs, NEW v \in Verdict
    PROVE  ClaimVerified(r, v) \in Event
BY EvType DEF ClaimVerified, TypeOK, Vote

LEMMA CollectTypes ==
    ASSUME TypeOK, InLoop, NEW r \in Runs, CollectProbes(r)
    PROVE  TypeOK'
<1> USE DEF Active, Ended
<1>1. idx[r] <= MaxClaims
  BY OrchestratorAssumption DEF CollectProbes, InLoop, TypeOK
<1>2. Reconcile(vote[r]) \in Verdict
  BY ReconcileType DEF TypeOK
<1>3. CASE /\ FinishClaim(r, Reconcile(vote[r]))
           /\ Publish(r, <<ClaimVerified(r, Reconcile(vote[r]))>>)
           /\ Goto(r, "claim")
           /\ UNCHANGED probeQ
  <2>1. <<ClaimVerified(r, Reconcile(vote[r]))>> \in Seq(Event)
    BY <1>2, VerifiedType
  <2> QED
    BY <1>1, <1>2, <1>3, <2>1, FinishType, PublishType, GotoType
    DEF CollectProbes, TypeOK, store, rows, bounds
<1>4. ASSUME NEW ps \in {lastProbes, << >>},
             probeQ' = [probeQ EXCEPT ![r] = ps],
             Goto(r, "save_probe"),
             UNCHANGED <<details, idx, vote, log>>
      PROVE  TypeOK'
  <2>0. ps \in Seq(Probe)
    BY EmptySeq DEF TypeOK
  <2>1. probeQ' \in [Runs -> Seq(Probe)]
    BY <1>4, <2>0, Zenon DEF TypeOK
  <2> QED
    BY <1>4, <2>1, GotoType DEF CollectProbes, TypeOK, store, rows, bounds
<1> QED BY <1>3, <1>4 DEF CollectProbes

LEMMA SaveProbeTypes ==
    ASSUME TypeOK, InLoop, NEW r \in Runs, SaveProbe(r)
    PROVE  TypeOK'
<1> USE DEF Active, Ended, Outcome
<1> DEFINE p    == Head(probeQ[r])
           last == Len(probeQ[r]) = 1
           verdict == Reconcile(vote[r])
           events == <<Ev("probe.completed", idx[r], NoVote)>>
                     \o (IF last THEN <<ClaimVerified(r, verdict)>> ELSE << >>)
<1>1. idx[r] <= MaxClaims /\ probeQ[r] # << >>
  BY OrchestratorAssumption DEF SaveProbe, InLoop, TypeOK
<1>2. verdict \in Verdict
  BY ReconcileType DEF TypeOK
<1>3. p \in Probe /\ Tail(probeQ[r]) \in Seq(Probe)
  BY <1>1, HeadTailProperties DEF TypeOK
<1>4. events \in Seq(Event)
  <2>1. Ev("probe.completed", idx[r], NoVote) \in Event
    BY EvType DEF TypeOK, Vote
  <2>2. ClaimVerified(r, verdict) \in Event
    BY <1>2, VerifiedType
  <2> QED BY <2>1, <2>2
<1>5. ASSUME NEW o \in Outcome,
             IF Refused(p) THEN o = "failed" /\ UNCHANGED faults
             ELSE CountFault(o),
             probeRows' = IF Applied(o) THEN probeRows \cup {p} ELSE probeRows,
             Proceed(r, o, IF last THEN "claim" ELSE "save_probe"),
             probeQ' = IF o = "ok" THEN [probeQ EXCEPT ![r] = Tail(@)]
                       ELSE probeQ,
             IF o = "ok" /\ last THEN FinishClaim(r, verdict)
             ELSE UNCHANGED <<details, idx, vote>>,
             PublishIf(o = "ok", r, events)
      PROVE  TypeOK'
  <2>1. pc' \in [Runs -> {"idle"} \cup Active \cup Ended]
    BY <1>5, GotoType DEF Proceed
  <2>2. probeQ' \in [Runs -> Seq(Probe)]
    BY <1>3, <1>5, Zenon DEF TypeOK
  <2>3. probeRows' \in SUBSET Probe
    BY <1>3, <1>5 DEF TypeOK
  <2>4. /\ details' \in [Runs -> Seq(Verdict)]
        /\ idx' \in [Runs -> 1..(MaxClaims + 1)]
        /\ vote' \in [Runs -> Votes]
    <3>1. CASE o = "ok" /\ last
      BY <3>1, <1>1, <1>2, <1>5, FinishType
    <3>2. CASE ~(o = "ok" /\ last)
      BY <3>2, <1>5 DEF TypeOK
    <3> QED BY <3>1, <3>2
  <2>5. log' \in [Runs -> Seq(Event)]
    BY <1>4, <1>5, PublishIfType
  <2>6. faults' \in 0..MaxFaults
    BY <1>5, FaultType DEF TypeOK
  <2> QED
    BY <2>1, <2>2, <2>3, <2>4, <2>5, <2>6 DEF SaveProbe, TypeOK
<1> QED BY <1>5 DEF SaveProbe

LEMMA TypeStep == TypeOK /\ InLoop /\ [Next]_vars => TypeOK'
<1> SUFFICES ASSUME TypeOK, InLoop, [Next]_vars PROVE TypeOK'
  OBVIOUS
<1>1. ASSUME NEW r \in Runs, Accept(r) \/ Step(r) PROVE TypeOK'
  BY <1>1, SetupTypes, DecomposeTypes, EndTypes, SettleTypes, VerifyTypes,
     SaveTypes, CollectTypes, SaveProbeTypes
  DEF Step
<1>2. CASE Crash
  <2>1. pc' \in [Runs -> {"idle"} \cup Active \cup Ended]
    BY <1>2 DEF Crash, TypeOK, Ended
  <2>2. crashes' \in 0..MaxCrashes
    BY <1>2, OrchestratorAssumption DEF Crash, TypeOK
  <2>3. lastProbes' \in Seq(Probe)
    BY <1>2, EmptySeq DEF Crash
  <2> QED
    BY <1>2, <2>1, <2>2, <2>3 DEF Crash, TypeOK, task, store, rows
<1>3. CASE UNCHANGED vars
  BY <1>3 DEF TypeOK, vars, task, store, rows, bounds
<1> QED BY <1>1, <1>2, <1>3 DEF Next, AllEnded

(* Which task locations are inside the loop body, and how a step gets      *)
(* there.                                                                  *)
LEMMA LoopStep == TypeOK /\ InLoop /\ [Next]_vars => InLoop'
<1> SUFFICES ASSUME TypeOK, InLoop, [Next]_vars PROVE InLoop'
  OBVIOUS
<1> DEFINE Inside == {"second", "save_rows", "save_probe"}
<1>1. ASSUME NEW r \in Runs, NEW label, Goto(r, label), label \notin Inside,
             \A q \in Runs \ {r} : /\ claims'[q] = claims[q]
                                   /\ idx'[q] = idx[q]
                                   /\ probeQ'[q] = probeQ[q]
      PROVE  InLoop'
  BY <1>1 DEF TypeOK, InLoop, Goto
<1>2. ASSUME NEW r \in Runs,
             \/ Accept(r) \/ Start(r) \/ CreateRun(r) \/ MarkSkipped(r)
             \/ MarkRunning(r) \/ SaveChunks(r) \/ DecomposeRaises(r)
             \/ FailDecompose(r) \/ Finalize(r) \/ Abort(r)
      PROVE  InLoop'
  <2>1. \E label : Goto(r, label) /\ label \notin Inside
    BY <1>2
    DEF Accept, Start, CreateRun, MarkSkipped, MarkRunning, SaveChunks,
        DecomposeRaises, FailDecompose, Finalize, Abort, Proceed, Outcome
  <2>2. UNCHANGED task
    BY <1>2
    DEF Accept, Start, CreateRun, MarkSkipped, MarkRunning, SaveChunks,
        DecomposeRaises, FailDecompose, Finalize, Abort
  <2> QED BY <2>1, <2>2, <1>1 DEF task
<1>3. ASSUME NEW r \in Runs, Decompose(r) PROVE InLoop'
  BY <1>3, <1>1 DEF Decompose, TypeOK
<1>4. ASSUME NEW r \in Runs, SaveResolved(r) \/ SaveBudgetExceeded(r)
      PROVE  InLoop'
  <2>1. PICK by : SettleUnverified(r, by)
    BY <1>4 DEF SaveResolved, SaveBudgetExceeded
  <2>2. \E label : Goto(r, label) /\ label \notin Inside
    BY <2>1 DEF SettleUnverified, Proceed
  <2>3. \A q \in Runs \ {r} : idx'[q] = idx[q]
    BY <2>1 DEF SettleUnverified, FinishClaim, TypeOK
  <2>4. UNCHANGED <<claims, probeQ>>
    BY <2>1 DEF SettleUnverified
  <2> QED BY <2>2, <2>3, <2>4, <1>1
<1>5. ASSUME NEW r \in Runs, RunEntailment(r) PROVE InLoop'
  BY <1>5 DEF RunEntailment, AtClaim, EntailmentReturns, Goto, InLoop, TypeOK
<1>6. ASSUME NEW r \in Runs, ProberReturns(r) \/ IndependentReturns(r)
      PROVE  InLoop'
  BY <1>6 DEF ProberReturns, IndependentReturns, InLoop
<1>7. ASSUME NEW r \in Runs, SaveClaim(r) \/ SaveVerification(r)
      PROVE  InLoop'
  BY <1>7 DEF SaveClaim, SaveVerification, Proceed, Goto, InLoop, TypeOK
<1>8. ASSUME NEW r \in Runs, CollectProbes(r) PROVE InLoop'
  <2>1. CASE /\ FinishClaim(r, Reconcile(vote[r]))
             /\ Goto(r, "claim")
             /\ UNCHANGED <<probeQ, claims>>
    <3>1. \A q \in Runs \ {r} : idx'[q] = idx[q]
      BY <2>1 DEF FinishClaim, TypeOK
    <3> QED BY <2>1, <3>1, <1>1
  <2>2. ASSUME NEW ps, ps # << >>, probeQ' = [probeQ EXCEPT ![r] = ps],
               Goto(r, "save_probe"), UNCHANGED <<idx, claims>>
        PROVE  InLoop'
    BY <1>8, <2>2 DEF CollectProbes, Goto, InLoop, TypeOK
  <2> QED BY <1>8, <2>1, <2>2 DEF CollectProbes
<1>9. ASSUME NEW r \in Runs, SaveProbe(r) PROVE InLoop'
  <2> DEFINE last == Len(probeQ[r]) = 1
  <2>1. UNCHANGED claims
    BY <1>9 DEF SaveProbe
  <2>2. ASSUME NEW o \in Outcome,
               Proceed(r, o, IF last THEN "claim" ELSE "save_probe"),
               probeQ' = IF o = "ok" THEN [probeQ EXCEPT ![r] = Tail(@)]
                         ELSE probeQ,
               IF o = "ok" /\ last THEN FinishClaim(r, Reconcile(vote[r]))
               ELSE UNCHANGED <<details, idx, vote>>
        PROVE  InLoop'
    <3>1. \A q \in Runs \ {r} : idx'[q] = idx[q] /\ probeQ'[q] = probeQ[q]
      BY <2>2 DEF FinishClaim, TypeOK
    <3>2. CASE o # "ok" \/ last
      <4>1. \E label : Goto(r, label) /\ label \notin Inside
        BY <2>2, <3>2 DEF Proceed
      <4> QED BY <2>1, <3>1, <4>1, <1>1
    <3>3. CASE o = "ok" /\ ~last
      <4>1. Goto(r, "save_probe") /\ UNCHANGED idx
        BY <2>2, <3>3 DEF Proceed
      <4>2. probeQ[r] # << >> /\ probeQ[r] \in Seq(Probe)
        BY <1>9 DEF SaveProbe, InLoop, TypeOK
      <4>3. Tail(probeQ[r]) # << >>
        <5>1. /\ Tail(probeQ[r]) \in Seq(Probe)
              /\ Len(Tail(probeQ[r])) = Len(probeQ[r]) - 1
          BY <4>2, HeadTailProperties
        <5>2. Len(probeQ[r]) \in Nat /\ Len(probeQ[r]) # 0
          BY <4>2, LenProperties, EmptySeq
        <5>3. Len(Tail(probeQ[r])) # 0
          BY <3>3, <5>1, <5>2
        <5> QED BY <5>3, EmptySeq
      <4>4. probeQ'[r] # << >>
        BY <2>2, <3>3, <4>3 DEF TypeOK
      <4>5. idx[r] <= Len(claims[r])
        BY <1>9 DEF SaveProbe, InLoop
      <4> QED BY <2>1, <3>1, <4>1, <4>4, <4>5 DEF Goto, InLoop, TypeOK
    <3> QED BY <3>2, <3>3
  <2> QED BY <1>9, <2>2 DEF SaveProbe
<1>10. CASE Crash
  BY <1>10 DEF Crash, InLoop, task, TypeOK, Active
<1>11. CASE UNCHANGED vars
  BY <1>11 DEF InLoop, vars, task
<1> QED
  BY <1>2, <1>3, <1>4, <1>5, <1>6, <1>7, <1>8, <1>9, <1>10, <1>11
  DEF Next, Step, AllEnded

(* The types of all variables, and with them the ranges of everything the  *)
(* store and the streams can ever hold.                                    *)
THEOREM TypeCorrect == Spec => [](TypeOK /\ InLoop)
<1>1. Init => TypeOK /\ InLoop
  BY TypeInit DEF Init, InLoop
<1>2. TypeOK /\ InLoop /\ [Next]_vars => TypeOK' /\ InLoop'
  BY TypeStep, LoopStep
<1> QED BY <1>1, <1>2, PTL DEF Spec

-----------------------------------------------------------------------------
(* The terminal event.                                                     *)

Quiet(s) == \A k \in DOMAIN s : s[k].ev \notin Terminal

OneAtEnd(s) == \A k \in DOMAIN s : s[k].ev \in Terminal => k = Len(s)

(* A run has published its terminal event exactly if run() has returned.   *)
AnnouncedInv ==
    \A r \in Runs :
        /\ OneAtEnd(log[r])
        /\ pc[r] = "returned" <=> ~Quiet(log[r])

(* Appending events, of which only the last may be a terminal one.         *)
LEMMA QuietAppend ==
    ASSUME NEW s \in Seq(Event), NEW e \in Event, Quiet(s)
    PROVE  /\ OneAtEnd(s \o <<e>>)
           /\ Quiet(s \o <<e>>) <=> e.ev \notin Terminal
<1>1. /\ s \o <<e>> \in Seq(Event)
      /\ Len(s \o <<e>>) = Len(s) + 1
      /\ \A k \in 1..Len(s) : (s \o <<e>>)[k] = s[k]
      /\ (s \o <<e>>)[Len(s) + 1] = e
  OBVIOUS
<1>2. DOMAIN (s \o <<e>>) = 1..(Len(s) + 1) /\ DOMAIN s = 1..Len(s)
  BY <1>1, LenProperties
<1>3. Len(s) \in Nat
  BY LenProperties
<1>4. \A k \in 1..Len(s) : (s \o <<e>>)[k].ev \notin Terminal
  BY <1>1, <1>2 DEF Quiet
<1>5. \A k \in 1..(Len(s) + 1) : k \in 1..Len(s) \/ k = Len(s) + 1
  BY <1>3
<1> QED BY <1>1, <1>2, <1>3, <1>4, <1>5 DEF Quiet, OneAtEnd

LEMMA QuietConcat ==
    ASSUME NEW s \in Seq(Event), NEW t \in Seq(Event), Quiet(s), Quiet(t)
    PROVE  Quiet(s \o t)
<1>1. /\ Len(s) \in Nat /\ Len(t) \in Nat
      /\ DOMAIN s = 1..Len(s) /\ DOMAIN t = 1..Len(t)
  BY LenProperties
<1>2. /\ DOMAIN (s \o t) = 1..(Len(s) + Len(t))
      /\ \A k \in 1..(Len(s) + Len(t)) :
             (s \o t)[k] = IF k <= Len(s) THEN s[k] ELSE t[k - Len(s)]
  BY ConcatProperties, LenProperties
<1>3. \A k \in 1..(Len(s) + Len(t)) :
          k \in 1..Len(s) \/ (~(k <= Len(s)) /\ k - Len(s) \in 1..Len(t))
  BY <1>1
<1> QED BY <1>1, <1>2, <1>3 DEF Quiet

(* The three ways a step of a run that has not returned moves on: without  *)
(* an event, with events of which none is terminal, or returning with a    *)
(* terminal event.                                                         *)
LEMMA SilentMove ==
    ASSUME TypeOK, AnnouncedInv, NEW r \in Runs, NEW label,
           Goto(r, label), label # "returned", pc[r] # "returned",
           UNCHANGED log
    PROVE  AnnouncedInv'
BY DEF TypeOK, AnnouncedInv, Goto

LEMMA LoudMove ==
    ASSUME TypeOK, AnnouncedInv, NEW r \in Runs, NEW label,
           Goto(r, label), label # "returned", pc[r] # "returned",
           NEW es \in Seq(Event), Quiet(es), Publish(r, es)
    PROVE  AnnouncedInv'
<1>1. Quiet(log[r]) /\ log[r] \in Seq(Event)
  BY DEF AnnouncedInv, TypeOK
<1>2. Quiet(log[r] \o es)
  BY <1>1, QuietConcat
<1>3. OneAtEnd(log[r] \o es)
  BY <1>2 DEF Quiet, OneAtEnd
<1>4. log' = [log EXCEPT ![r] = log[r] \o es]
  BY DEF Publish
<1> QED BY <1>2, <1>3, <1>4 DEF TypeOK, AnnouncedInv, Goto

LEMMA FinalMove ==
    ASSUME TypeOK, AnnouncedInv, NEW r \in Runs, Goto(r, "returned"),
           pc[r] # "returned", NEW e \in Event, e.ev \in Terminal,
           Publish(r, <<e>>)
    PROVE  AnnouncedInv'
<1>1. Quiet(log[r]) /\ log[r] \in Seq(Event)
  BY DEF AnnouncedInv, TypeOK
<1>2. OneAtEnd(log[r] \o <<e>>) /\ ~Quiet(log[r] \o <<e>>)
  BY <1>1, QuietAppend
<1>3. log' = [log EXCEPT ![r] = log[r] \o <<e>>]
  BY DEF Publish
<1> QED BY <1>2, <1>3 DEF TypeOK, AnnouncedInv, Goto

LEMMA QuietOne ==
    ASSUME NEW e \in Event, e.ev \notin Terminal
    PROVE  <<e>> \in Seq(Event) /\ Quiet(<<e>>)
BY DEF Quiet

LEMMA AnnouncedStep ==
    TypeOK /\ InLoop /\ AnnouncedInv /\ [Next]_vars => AnnouncedInv'
<1> SUFFICES ASSUME TypeOK, InLoop, AnnouncedInv, [Next]_vars
             PROVE  AnnouncedInv'
  OBVIOUS
<1> USE DEF Outcome, Terminal
<1>1. ASSUME NEW r \in Runs,
             \/ Accept(r) \/ CreateRun(r) \/ MarkRunning(r) \/ SaveChunks(r)
             \/ DecomposeRaises(r) \/ RunEntailment(r) \/ SaveClaim(r)
             \/ SaveVerification(r)
      PROVE  AnnouncedInv'
  <2>1. \E label : Goto(r, label) /\ label # "returned"
    <3>1. ASSUME NEW o, NEW label, label # "returned", Proceed(r, o, label)
          PROVE  \E l : Goto(r, l) /\ l # "returned"
      <4>1. CASE o = "ok"
        <5>1. Goto(r, label)
          BY <3>1, <4>1 DEF Proceed
        <5> QED BY <3>1, <5>1
      <4>2. CASE o # "ok"
        <5>1. Goto(r, "abort")
          BY <3>1, <4>2 DEF Proceed
        <5>2. "abort" # "returned"
          OBVIOUS
        <5> QED BY <5>1, <5>2
      <4> QED BY <4>1, <4>2
    <3>2. CASE Accept(r)
      BY <3>2 DEF Accept
    <3>3. CASE CreateRun(r)
      <4>1. PICK o \in Outcome, next \in {"skip", "mark_running"} :
                Proceed(r, o, next)
        BY <3>3 DEF CreateRun
      <4>2. next # "returned"
        OBVIOUS
      <4> QED BY <4>1, <4>2, <3>1
    <3>4. CASE MarkRunning(r)
      <4>1. PICK o \in Outcome : Proceed(r, o, "save_chunks")
        BY <3>4 DEF MarkRunning
      <4>2. "save_chunks" # "returned"
        OBVIOUS
      <4> QED BY <4>1, <4>2, <3>1
    <3>5. CASE SaveChunks(r)
      <4>1. PICK o \in Outcome : Proceed(r, o, "decompose")
        BY <3>5 DEF SaveChunks
      <4>2. "decompose" # "returned"
        OBVIOUS
      <4> QED BY <4>1, <4>2, <3>1
    <3>6. CASE DecomposeRaises(r)
      <4>1. Goto(r, "decompose_failed") /\ "decompose_failed" # "returned"
        BY <3>6 DEF DecomposeRaises
      <4> QED BY <4>1
    <3>7. CASE RunEntailment(r)
      <4>1. Goto(r, "second") /\ "second" # "returned"
        BY <3>7 DEF RunEntailment, EntailmentReturns
      <4> QED BY <4>1
    <3>8. CASE SaveClaim(r) \/ SaveVerification(r)
      <4>1. PICK o \in Outcome : Proceed(r, o, "save_rows")
        BY <3>8 DEF SaveClaim, SaveVerification
      <4>2. "save_rows" # "returned"
        OBVIOUS
      <4> QED BY <4>1, <4>2, <3>1
    <3> QED BY <1>1, <3>2, <3>3, <3>4, <3>5, <3>6, <3>7, <3>8
  <2>2. UNCHANGED log /\ pc[r] # "returned"
    BY <1>1
    DEF Accept, CreateRun, MarkRunning, SaveChunks, DecomposeRaises,
        RunEntailment, EntailmentReturns, AtClaim, SaveClaim, SaveVerification
  <2> QED BY <2>1, <2>2, SilentMove
<1>2. ASSUME NEW r \in Runs, ProberReturns(r) \/ IndependentReturns(r)
      PROVE  AnnouncedInv'
  BY <1>2 DEF ProberReturns, IndependentReturns, AnnouncedInv
<1>3. ASSUME NEW r \in Runs, Start(r) PROVE AnnouncedInv'
  <2>1. Ev("run.started", 0, "pending") \in Event
    BY EvType DEF Status
  <2>2. /\ <<Ev("run.started", 0, "pending")>> \in Seq(Event)
        /\ Quiet(<<Ev("run.started", 0, "pending")>>)
    BY <2>1, QuietOne DEF Ev
  <2>3. /\ Goto(r, "create") /\ "create" # "returned" /\ pc[r] # "returned"
        /\ Publish(r, <<Ev("run.started", 0, "pending")>>)
    BY <1>3 DEF Start
  <2> QED BY <2>2, <2>3, LoudMove
<1>4. ASSUME NEW r \in Runs, Decompose(r) PROVE AnnouncedInv'
  <2>1. Ev("claims.decomposed", 0, "running") \in Event
    BY EvType DEF Status
  <2>2. /\ <<Ev("claims.decomposed", 0, "running")>> \in Seq(Event)
        /\ Quiet(<<Ev("claims.decomposed", 0, "running")>>)
    BY <2>1, QuietOne DEF Ev
  <2>3. /\ Goto(r, "claim") /\ "claim" # "returned" /\ pc[r] # "returned"
        /\ Publish(r, <<Ev("claims.decomposed", 0, "running")>>)
    BY <1>4 DEF Decompose
  <2> QED BY <2>2, <2>3, LoudMove
<1>5. ASSUME NEW r \in Runs,
             MarkSkipped(r) \/ FailDecompose(r) \/ Finalize(r) \/ Abort(r)
      PROVE  AnnouncedInv'
  <2>1. pc[r] # "returned"
    BY <1>5 DEF MarkSkipped, FailDecompose, Finalize, Abort
  <2>2. /\ Ev("run.completed", 0, "skipped") \in Event
        /\ Ev("run.completed", 0, "complete") \in Event
        /\ Ev("run.error", 0, "error") \in Event
    BY EvType DEF Status
  <2>3. \/ \E e \in Event : /\ e.ev \in Terminal
                            /\ Publish(r, <<e>>)
                            /\ Goto(r, "returned")
        \/ \E label : /\ label # "returned"
                       /\ Goto(r, label)
                       /\ UNCHANGED log
    BY <1>5, <2>2
    DEF MarkSkipped, FailDecompose, Finalize, Abort, Proceed, PublishIf, Ev
  <2> QED BY <2>1, <2>3, SilentMove, FinalMove
<1>6. ASSUME NEW r \in Runs, SaveResolved(r) \/ SaveBudgetExceeded(r)
      PROVE  AnnouncedInv'
  <2>1. PICK by : SettleUnverified(r, by) /\ pc[r] = "claim"
    BY <1>6 DEF SaveResolved, SaveBudgetExceeded, AtClaim
  <2>2. ClaimVerified(r, "UNVERIFIABLE") \in Event
    BY VerifiedType DEF Verdict
  <2>3. /\ <<ClaimVerified(r, "UNVERIFIABLE")>> \in Seq(Event)
        /\ Quiet(<<ClaimVerified(r, "UNVERIFIABLE")>>)
    BY <2>2, QuietOne DEF ClaimVerified, Ev
  <2>4. \E label : /\ label # "returned"
                   /\ Goto(r, label)
                   /\ \/ UNCHANGED log
                      \/ Publish(r, <<ClaimVerified(r, "UNVERIFIABLE")>>)
    BY <2>1 DEF SettleUnverified, Proceed, PublishIf
  <2>5. pc[r] # "returned"
    BY <2>1
  <2>6. PICK label : /\ label # "returned"
                     /\ Goto(r, label)
                     /\ \/ UNCHANGED log
                        \/ Publish(r, <<ClaimVerified(r, "UNVERIFIABLE")>>)
    BY <2>4
  <2> QED BY <2>3, <2>5, <2>6, SilentMove, LoudMove
<1>7. ASSUME NEW r \in Runs, CollectProbes(r) PROVE AnnouncedInv'
  <2> DEFINE e == ClaimVerified(r, Reconcile(vote[r]))
  <2>1. e \in Event
    BY VerifiedType, ReconcileType DEF TypeOK
  <2>2. <<e>> \in Seq(Event) /\ Quiet(<<e>>)
    BY <2>1, QuietOne DEF ClaimVerified, Ev
  <2>3. \/ Goto(r, "claim") /\ Publish(r, <<e>>)
        \/ Goto(r, "save_probe") /\ UNCHANGED log
    BY <1>7 DEF CollectProbes
  <2>4. pc[r] # "returned" /\ "claim" # "returned" /\ "save_probe" # "returned"
    BY <1>7 DEF CollectProbes
  <2> QED BY <2>2, <2>3, <2>4, SilentMove, LoudMove
<1>8. ASSUME NEW r \in Runs, SaveProbe(r) PROVE AnnouncedInv'
  <2> DEFINE d == Ev("probe.completed", idx[r], NoVote)
             e == ClaimVerified(r, Reconcile(vote[r]))
             last == Len(probeQ[r]) = 1
             es == <<d>> \o (IF last THEN <<e>> ELSE << >>)
  <2>1. d \in Event /\ e \in Event
    BY EvType, VerifiedType, ReconcileType DEF TypeOK, Vote
  <2>2. /\ <<d>> \in Seq(Event) /\ Quiet(<<d>>)
        /\ <<e>> \in Seq(Event) /\ Quiet(<<e>>)
    BY <2>1, QuietOne DEF ClaimVerified, Ev
  <2>3. << >> \in Seq(Event) /\ Quiet(<< >>)
    BY DEF Quiet
  <2>4. \A t \in Seq(Event) :
            Quiet(t) => <<d>> \o t \in Seq(Event) /\ Quiet(<<d>> \o t)
    BY <2>2, QuietConcat, ConcatProperties
  <2>5. es \in Seq(Event) /\ Quiet(es)
    <3>1. CASE last
      <4>1. es = <<d>> \o <<e>>
        BY <3>1
      <4> QED BY <4>1, <2>2, <2>4
    <3>2. CASE ~last
      <4>1. es = <<d>> \o << >>
        BY <3>2
      <4> QED BY <4>1, <2>3, <2>4
    <3> QED BY <3>1, <3>2
  <2> HIDE DEF d, e
  <2>6. \/ Goto(r, "abort") /\ UNCHANGED log
        \/ \E o \in Outcome :
              /\ Proceed(r, o, IF last THEN "claim" ELSE "save_probe")
              /\ PublishIf(o = "ok", r, es)
    BY <1>8 DEF SaveProbe, d, e
  <2>7. PICK label \in {"abort", "claim", "save_probe"} :
            Goto(r, label) /\ (UNCHANGED log \/ Publish(r, es))
    BY <2>6 DEF Proceed, PublishIf
  <2>8. pc[r] # "returned" /\ label # "returned"
    BY <1>8 DEF SaveProbe
  <2> QED BY <2>5, <2>7, <2>8, SilentMove, LoudMove
<1>9. CASE Crash
  BY <1>9 DEF Crash, AnnouncedInv, TypeOK, Active
<1>10. CASE UNCHANGED vars
  BY <1>10 DEF vars, AnnouncedInv
<1> QED
  BY <1>1, <1>2, <1>3, <1>4, <1>5, <1>6, <1>7, <1>8, <1>9, <1>10
  DEF Next, Step, AllEnded

LEMMA AlwaysAnnounced == Spec => []AnnouncedInv
<1>1. Init => AnnouncedInv
  BY DEF Init, AnnouncedInv, OneAtEnd, Quiet
<1>2. TypeOK /\ InLoop /\ AnnouncedInv /\ [Next]_vars => AnnouncedInv'
  BY AnnouncedStep
<1> QED BY <1>1, <1>2, TypeCorrect, PTL DEF Spec

(* Every stream carries at most one terminal event, as its last, and a run *)
(* that returned has published it, whatever calls of the store failed:     *)
(* TERMINAL_EVENTS in attest/api/stream.py ends the generator there, so a  *)
(* second one or an event after it would be lost.                          *)
THEOREM TerminalEvents ==
    Spec => []TerminalOnceAndLast /\ []ReturnsAnnounced
<1>1. AnnouncedInv => TerminalOnceAndLast /\ ReturnsAnnounced
  BY DEF AnnouncedInv, OneAtEnd, Quiet, TerminalOnceAndLast,
         ReturnsAnnounced, Closed
<1> QED BY <1>1, AlwaysAnnounced, PTL

-----------------------------------------------------------------------------
(* The budget.                                                             *)

(* While the prober, the only call of the second pass that reports a cost, *)
(* is still out, the budget is not used up.                                *)
CostInv ==
    \A r \in Runs :
        /\ cost[r] < Budget + MaxCallCost
        /\ pc[r] = "second" /\ "prober" \in todo[r] => cost[r] < Budget

(* A step that leaves the costs alone and launches nothing.                *)
LEMMA CostKept ==
    ASSUME TypeOK, CostInv, UNCHANGED cost,
           \A r \in Runs : pc'[r] = "second" /\ "prober" \in todo'[r]
                           => pc[r] = "second" /\ "prober" \in todo[r]
    PROVE  CostInv'
BY DEF CostInv

LEMMA CostStep == TypeOK /\ CostInv /\ [Next]_vars => CostInv'
<1> SUFFICES ASSUME TypeOK, CostInv, [Next]_vars PROVE CostInv'
  OBVIOUS
<1>1. ASSUME NEW r \in Runs,
             \/ Accept(r) \/ Start(r) \/ CreateRun(r) \/ MarkSkipped(r)
             \/ MarkRunning(r) \/ SaveChunks(r) \/ Decompose(r)
             \/ DecomposeRaises(r) \/ FailDecompose(r) \/ SaveResolved(r)
             \/ SaveBudgetExceeded(r) \/ CollectProbes(r) \/ SaveProbe(r)
             \/ Finalize(r) \/ Abort(r)
      PROVE  CostInv'
  <2>1. UNCHANGED <<cost, todo>>
    BY <1>1
    DEF Accept, Start, CreateRun, MarkSkipped, MarkRunning, SaveChunks,
        Decompose, DecomposeRaises, FailDecompose, SaveResolved,
        SaveBudgetExceeded, SettleUnverified, CollectProbes, SaveProbe,
        Finalize, Abort, task
  <2>2. \A q \in Runs : pc'[q] = "second" => pc[q] = "second"
    BY <1>1
    DEF Accept, Start, CreateRun, MarkSkipped, MarkRunning, SaveChunks,
        Decompose, DecomposeRaises, FailDecompose, SaveResolved,
        SaveBudgetExceeded, SettleUnverified, CollectProbes, SaveProbe,
        Finalize, Abort, Proceed, Goto, TypeOK
  <2> QED BY <2>1, <2>2, CostKept
<1>2. ASSUME NEW r \in Runs, RunEntailment(r) PROVE CostInv'
  <2>1. PICK o \in EntailmentOutcomes :
            /\ cost[r] < Budget
            /\ EntailmentReturns(r, o, cost[r] + o.cost < Budget)
    BY <1>2 DEF RunEntailment
  <2>2. o.cost \in 0..MaxCallCost
    BY OrchestratorAssumption
  <2>3. cost'[r] = cost[r] + o.cost /\ cost[r] \in Nat
    BY <2>1 DEF EntailmentReturns, TypeOK
  <2>4. "prober" \in todo'[r] => cost[r] + o.cost < Budget
    BY <2>1 DEF EntailmentReturns, TypeOK
  <2>5. \A q \in Runs \ {r} :
            cost'[q] = cost[q] /\ todo'[q] = todo[q] /\ pc'[q] = pc[q]
    BY <2>1 DEF EntailmentReturns, Goto, TypeOK
  <2>6. cost'[r] < Budget + MaxCallCost
    BY <2>1, <2>2, <2>3, OrchestratorAssumption
  <2> QED BY <2>3, <2>4, <2>5, <2>6 DEF CostInv
<1>3. ASSUME NEW r \in Runs, ProberReturns(r) PROVE CostInv'
  <2>1. PICK o \in ProberOutcomes : cost' = [cost EXCEPT ![r] = @ + o.cost]
    BY <1>3 DEF ProberReturns
  <2>2. o.cost \in 0..MaxCallCost
    BY OrchestratorAssumption
  <2>3. cost[r] < Budget /\ cost[r] \in Nat
    BY <1>3 DEF ProberReturns, CostInv, TypeOK
  <2>4. cost'[r] < Budget + MaxCallCost
    BY <2>1, <2>2, <2>3, OrchestratorAssumption DEF TypeOK
  <2>5. "prober" \notin todo'[r] /\ UNCHANGED pc
    BY <1>3 DEF ProberReturns, TypeOK
  <2>6. \A q \in Runs \ {r} : cost'[q] = cost[q] /\ todo'[q] = todo[q]
    BY <1>3, <2>1 DEF ProberReturns, TypeOK
  <2> QED BY <2>4, <2>5, <2>6 DEF CostInv
<1>4. ASSUME NEW r \in Runs, IndependentReturns(r) PROVE CostInv'
  <2>1. UNCHANGED <<pc, cost>>
    BY <1>4 DEF IndependentReturns
  <2>2. \A q \in Runs : todo'[q] \subseteq todo[q]
    BY <1>4 DEF IndependentReturns, TypeOK
  <2> QED BY <2>1, <2>2, CostKept
<1>5. ASSUME NEW r \in Runs, SaveClaim(r) \/ SaveVerification(r)
      PROVE  CostInv'
  <2>1. PICK o \in Outcome : Proceed(r, o, "save_rows")
    BY <1>5 DEF SaveClaim, SaveVerification
  <2>2. UNCHANGED cost
    BY <1>5 DEF SaveClaim, SaveVerification
  <2>3. pc'[r] # "second"
    BY <2>1 DEF Proceed, Goto, TypeOK
  <2>4. \A q \in Runs \ {r} : pc'[q] = pc[q] /\ todo'[q] = todo[q]
    BY <1>5, <2>1 DEF SaveClaim, SaveVerification, Proceed, Goto, TypeOK
  <2>5. \A q \in Runs : pc'[q] = "second" /\ "prober" \in todo'[q]
                        => pc[q] = "second" /\ "prober" \in todo[q]
    BY <2>3, <2>4
  <2> QED BY <2>2, <2>5, CostKept
<1>6. CASE Crash
  BY <1>6 DEF Crash, CostInv, TypeOK, Active, task
<1>7. CASE UNCHANGED vars
  BY <1>7 DEF vars, task, CostInv
<1> QED
  BY <1>1, <1>2, <1>3, <1>4, <1>5, <1>6, <1>7 DEF Next, Step, AllEnded

(* Whatever the verifiers charge, a run's reported cost overshoots its     *)
(* budget by less than the price of one call.                              *)
THEOREM Overshoot == Spec => []OvershootBounded
<1>1. Init => CostInv
  BY OrchestratorAssumption DEF Init, CostInv
<1>2. TypeOK /\ CostInv /\ [Next]_vars => CostInv'
  BY CostStep
<1>3. CostInv => OvershootBounded
  BY DEF CostInv, OvershootBounded
<1> QED BY <1>1, <1>2, <1>3, TypeCorrect, PTL DEF Spec

-----------------------------------------------------------------------------
(* The orchestrator implements RunLifecycle: the status column and the     *)
(* terminal event of every run change together the way the abstract        *)
(* specification allows.                                                   *)

MidClaim == {"second", "save_rows", "save_probe"}

(* Where a run's task is determines the row it has.                        *)
StatusInv ==
    \A r \in Runs :
        /\ pc[r] \in {"idle", "queued", "create"} => status[r] = "absent"
        /\ pc[r] \in {"skip", "mark_running"} => status[r] = "pending"
        /\ pc[r] \in {"save_chunks", "decompose", "decompose_failed"} \cup MidClaim
               \cup {"claim"} => status[r] = "running"

LastTerminal(s) == IF Quiet(s) THEN "none" ELSE s[Len(s)].ev

LEMMA AnnouncedIs ==
    ASSUME NEW r \in Runs
    PROVE  /\ Announced(r) = LastTerminal(log[r])
           /\ Announced(r)' = LastTerminal(log[r]')
BY DEF Announced, Closed, LastTerminal, Quiet

-----------------------------------------------------------------------------
(* The invariant.                                                          *)

LEMMA StatusStep == TypeOK /\ StatusInv /\ [Next]_vars => StatusInv'
<1> SUFFICES ASSUME TypeOK, StatusInv, [Next]_vars PROVE StatusInv'
  OBVIOUS
<1> USE DEF Outcome, MidClaim
<1>1. ASSUME NEW r \in Runs,
             \/ Accept(r) \/ Start(r) \/ SaveChunks(r) \/ Decompose(r)
             \/ DecomposeRaises(r) \/ SaveResolved(r) \/ SaveBudgetExceeded(r)
             \/ RunEntailment(r) \/ SaveClaim(r) \/ SaveVerification(r)
             \/ CollectProbes(r) \/ SaveProbe(r)
      PROVE  StatusInv'
  <2>1. UNCHANGED status
    BY <1>1
    DEF Accept, Start, SaveChunks, Decompose, DecomposeRaises, SaveResolved,
        SaveBudgetExceeded, SettleUnverified, RunEntailment,
        EntailmentReturns, SaveClaim, SaveVerification, CollectProbes,
        SaveProbe, store
  <2>2. \A q \in Runs \ {r} : pc'[q] = pc[q]
    BY <1>1
    DEF Accept, Start, SaveChunks, Decompose, DecomposeRaises, SaveResolved,
        SaveBudgetExceeded, SettleUnverified, RunEntailment,
        EntailmentReturns, SaveClaim, SaveVerification, CollectProbes,
        SaveProbe, Proceed, Goto, TypeOK
  <2>3. CASE Accept(r) \/ Start(r)
    BY <2>1, <2>2, <2>3 DEF Accept, Start, Goto, StatusInv, TypeOK
  <2>4. CASE SaveChunks(r) \/ Decompose(r) \/ DecomposeRaises(r)
    BY <2>1, <2>2, <2>4
    DEF SaveChunks, Decompose, DecomposeRaises, Proceed, Goto, StatusInv, TypeOK
  <2>5. CASE SaveResolved(r) \/ SaveBudgetExceeded(r) \/ RunEntailment(r)
    BY <2>1, <2>2, <2>5
    DEF SaveResolved, SaveBudgetExceeded, SettleUnverified, RunEntailment,
        EntailmentReturns, AtClaim, Proceed, Goto, StatusInv, TypeOK
  <2>6. CASE SaveClaim(r) \/ SaveVerification(r) \/ CollectProbes(r)
             \/ SaveProbe(r)
    BY <2>1, <2>2, <2>6
    DEF SaveClaim, SaveVerification, CollectProbes, SaveProbe, Proceed, Goto,
        StatusInv, TypeOK
  <2> QED BY <1>1, <2>3, <2>4, <2>5, <2>6
<1>2. ASSUME NEW r \in Runs, ProberReturns(r) \/ IndependentReturns(r)
      PROVE  StatusInv'
  BY <1>2 DEF ProberReturns, IndependentReturns, StatusInv, store
<1>3. ASSUME NEW r \in Runs, CreateRun(r) \/ MarkRunning(r)
      PROVE  StatusInv'
  <2>1. \A q \in Runs \ {r} : pc'[q] = pc[q] /\ status'[q] = status[q]
    BY <1>3
    DEF CreateRun, MarkRunning, SetStatus, Proceed, Goto, TypeOK
  <2>2. CASE CreateRun(r)
    <3>1. \/ pc'[r] \in {"skip", "mark_running"} /\ status'[r] = "pending"
          \/ pc'[r] = "abort"
      BY <2>2 DEF CreateRun, Applied, Proceed, Goto, TypeOK
    <3> QED BY <2>1, <3>1 DEF StatusInv
  <2>3. CASE MarkRunning(r)
    <3>1. status[r] = "pending"
      BY <2>3 DEF MarkRunning, StatusInv
    <3>2. \/ pc'[r] = "save_chunks" /\ status'[r] = "running"
          \/ pc'[r] = "abort"
      BY <2>3, <3>1
      DEF MarkRunning, SetStatus, Applied, Proceed, Goto, TypeOK
    <3> QED BY <2>1, <3>2 DEF StatusInv
  <2> QED BY <1>3, <2>2, <2>3
<1>4. ASSUME NEW r \in Runs,
             MarkSkipped(r) \/ FailDecompose(r) \/ Finalize(r) \/ Abort(r)
      PROVE  StatusInv'
  <2>1. pc'[r] \in {"returned", "raised", "abort"}
    BY <1>4
    DEF MarkSkipped, FailDecompose, Finalize, Abort, Proceed, Goto, TypeOK
  <2>2. \A q \in Runs \ {r} : pc'[q] = pc[q] /\ status'[q] = status[q]
    BY <1>4
    DEF MarkSkipped, FailDecompose, Finalize, Abort, SetStatus, Proceed, Goto,
        TypeOK
  <2> QED BY <2>1, <2>2 DEF StatusInv
<1>5. CASE Crash
  BY <1>5 DEF Crash, StatusInv, TypeOK, Active, store
<1>6. CASE UNCHANGED vars
  BY <1>6 DEF vars, store, StatusInv
<1> QED
  BY <1>1, <1>2, <1>3, <1>4, <1>5, <1>6 DEF Next, Step, AllEnded

-----------------------------------------------------------------------------
(* The steps.                                                              *)

(* A step of a run that stays open moves its row to a successor or not at  *)
(* all.                                                                    *)
LEMMA OpenStep ==
    ASSUME TypeOK, AnnouncedInv, AnnouncedInv', NEW r \in Runs,
           pc[r] # "returned", pc'[r] # "returned",
           \A q \in Runs \ {r} : log'[q] = log[q],
           \/ UNCHANGED status
           \/ \E s \in Lifecycle!Successors[status[r]] :
                  status' = [status EXCEPT ![r] = s]
    PROVE  [Lifecycle!Next]_(Lifecycle!vars)
<1>1. Announced(r) = "none" /\ Announced(r)' = "none"
  BY AnnouncedIs DEF AnnouncedInv, LastTerminal
<1>2. \A q \in Runs : Announced(q)' = Announced(q)
  BY <1>1, AnnouncedIs
<1>3. [q \in Runs |-> Announced(q)]' = [q \in Runs |-> Announced(q)]
  BY <1>2
<1>4. CASE UNCHANGED status
  BY <1>3, <1>4 DEF Lifecycle!vars
<1>5. ASSUME NEW s \in Lifecycle!Successors[status[r]],
             status' = [status EXCEPT ![r] = s]
      PROVE  Lifecycle!Next
  <2>1. s \in Lifecycle!Status
    BY <1>5 DEF Lifecycle!Successors, Lifecycle!Status, TypeOK, Status
  <2>2. Lifecycle!Advance(r, s)
    BY <1>1, <1>3, <1>5 DEF Lifecycle!Advance
  <2> QED BY <2>1, <2>2 DEF Lifecycle!Next
<1> QED BY <1>4, <1>5

(* A step that publishes a terminal event e.                               *)
LEMMA ClosingStep ==
    ASSUME TypeOK, AnnouncedInv, NEW r \in Runs, pc[r] # "returned",
           NEW e \in Event, e.ev \in Terminal, Publish(r, <<e>>)
    PROVE  /\ Announced(r) = "none"
           /\ [q \in Runs |-> Announced(q)]'
                  = [[q \in Runs |-> Announced(q)] EXCEPT ![r] = e.ev]
<1>1. Quiet(log[r]) /\ log[r] \in Seq(Event)
  BY DEF AnnouncedInv, TypeOK
<1>2. ~Quiet(log[r] \o <<e>>)
  BY <1>1, QuietAppend
<1>3. (log[r] \o <<e>>)[Len(log[r] \o <<e>>)] = e
  BY <1>1
<1>4. LastTerminal(log[r] \o <<e>>) = e.ev
  BY <1>2, <1>3 DEF LastTerminal
<1>5. /\ log'[r] = log[r] \o <<e>>
      /\ \A q \in Runs \ {r} : log'[q] = log[q]
  BY DEF Publish, TypeOK
<1>6. \A q \in Runs : Announced(q)' = IF q = r THEN e.ev ELSE Announced(q)
  BY <1>4, <1>5, AnnouncedIs
<1>7. Announced(r) = "none"
  BY <1>1, AnnouncedIs DEF LastTerminal
<1> QED BY <1>6, <1>7

LEMMA RefinementStep ==
    TypeOK /\ AnnouncedInv /\ AnnouncedInv' /\ StatusInv /\ [Next]_vars
        => [Lifecycle!Next]_(Lifecycle!vars)
<1> SUFFICES ASSUME TypeOK, AnnouncedInv, AnnouncedInv', StatusInv, [Next]_vars
             PROVE  [Lifecycle!Next]_(Lifecycle!vars)
  OBVIOUS
<1> USE DEF Outcome
<1>1. ASSUME NEW r \in Runs,
             \/ Accept(r) \/ Start(r) \/ SaveChunks(r) \/ Decompose(r)
             \/ DecomposeRaises(r) \/ SaveResolved(r) \/ SaveBudgetExceeded(r)
             \/ RunEntailment(r) \/ ProberReturns(r) \/ IndependentReturns(r)
             \/ SaveClaim(r) \/ SaveVerification(r) \/ CollectProbes(r)
             \/ SaveProbe(r)
      PROVE  [Lifecycle!Next]_(Lifecycle!vars)
  <2>1. UNCHANGED status
    BY <1>1
    DEF Accept, Start, SaveChunks, Decompose, DecomposeRaises, SaveResolved,
        SaveBudgetExceeded, SettleUnverified, RunEntailment,
        EntailmentReturns, ProberReturns, IndependentReturns, SaveClaim,
        SaveVerification, CollectProbes, SaveProbe, store
  <2>2. pc[r] # "returned" /\ pc'[r] # "returned"
    BY <1>1
    DEF Accept, Start, SaveChunks, Decompose, DecomposeRaises, SaveResolved,
        SaveBudgetExceeded, SettleUnverified, AtClaim, RunEntailment,
        EntailmentReturns, ProberReturns, IndependentReturns, SaveClaim,
        SaveVerification, CollectProbes, SaveProbe, Proceed, Goto, TypeOK
  <2>3. \A q \in Runs \ {r} : log'[q] = log[q]
    BY <1>1
    DEF Accept, Start, SaveChunks, Decompose, DecomposeRaises, SaveResolved,
        SaveBudgetExceeded, SettleUnverified, RunEntailment,
        EntailmentReturns, ProberReturns, IndependentReturns, SaveClaim,
        SaveVerification, CollectProbes, SaveProbe, PublishIf, Publish, TypeOK
  <2> QED BY <2>1, <2>2, <2>3, OpenStep
<1>2. ASSUME NEW r \in Runs, CreateRun(r) \/ MarkRunning(r)
      PROVE  [Lifecycle!Next]_(Lifecycle!vars)
  <2>1. /\ pc[r] # "returned" /\ pc'[r] # "returned"
        /\ \A q \in Runs \ {r} : log'[q] = log[q]
    BY <1>2 DEF CreateRun, MarkRunning, Proceed, Goto, TypeOK
  <2>2. CASE CreateRun(r)
    <3>1. status[r] = "absent"
      BY <2>2 DEF CreateRun, StatusInv
    <3>2. UNCHANGED status \/ status' = [status EXCEPT ![r] = "pending"]
      BY <2>2 DEF CreateRun
    <3>3. "pending" \in Lifecycle!Successors[status[r]]
      BY <3>1 DEF Lifecycle!Successors
    <3> QED BY <2>1, <3>2, <3>3, OpenStep
  <2>3. CASE MarkRunning(r)
    <3>1. status[r] = "pending"
      BY <2>3 DEF MarkRunning, StatusInv
    <3>2. UNCHANGED status \/ status' = [status EXCEPT ![r] = "running"]
      BY <2>3 DEF MarkRunning, SetStatus
    <3>3. "running" \in Lifecycle!Successors[status[r]]
      BY <3>1 DEF Lifecycle!Successors
    <3> QED BY <2>1, <3>2, <3>3, OpenStep
  <2> QED BY <1>2, <2>2, <2>3
<1>3. ASSUME NEW r \in Runs, MarkSkipped(r) \/ Finalize(r)
      PROVE  [Lifecycle!Next]_(Lifecycle!vars)
  <2> DEFINE s == IF MarkSkipped(r) THEN "skipped" ELSE "complete"
             e == Ev("run.completed", 0, s)
  <2>1. pc[r] # "returned"
    BY <1>3 DEF MarkSkipped, Finalize
  <2>2. \/ status[r] = "pending" /\ s = "skipped"
        \/ status[r] = "running" /\ s = "complete"
    BY <1>3 DEF MarkSkipped, Finalize, StatusInv
  <2>3. s \in Lifecycle!Successors[status[r]]
    BY <2>2 DEF Lifecycle!Successors
  <2>4. PICK o \in Outcome :
            /\ SetStatus(r, o, s)
            /\ Proceed(r, o, "returned")
            /\ PublishIf(o = "ok", r, <<e>>)
    BY <1>3 DEF MarkSkipped, Finalize
  <2>5. CASE o # "ok"
    <3>1. /\ pc'[r] # "returned"
          /\ \A q \in Runs \ {r} : log'[q] = log[q]
          /\ UNCHANGED status \/ status' = [status EXCEPT ![r] = s]
      BY <2>4, <2>5 DEF Proceed, PublishIf, Goto, SetStatus, TypeOK
    <3> QED BY <2>1, <2>3, <3>1, OpenStep
  <2>6. CASE o = "ok"
    <3>1. e \in Event /\ e.ev = "run.completed" /\ e.ev \in Terminal
      BY <2>2, EvType DEF Status, Ev, Terminal
    <3>2. Publish(r, <<e>>) /\ status' = [status EXCEPT ![r] = s]
      BY <2>2, <2>4, <2>6 DEF PublishIf, SetStatus, Applied
    <3>3. Lifecycle!Complete(r)
      BY <2>1, <2>2, <3>1, <3>2, ClosingStep DEF Lifecycle!Complete
    <3> QED BY <3>3 DEF Lifecycle!Next
  <2> QED BY <2>5, <2>6
<1>4. ASSUME NEW r \in Runs, FailDecompose(r) \/ Abort(r)
      PROVE  [Lifecycle!Next]_(Lifecycle!vars)
  <2> DEFINE e == Ev("run.error", 0, "error")
  <2>1. pc[r] # "returned"
    BY <1>4 DEF FailDecompose, Abort
  <2>2. \/ UNCHANGED status
        \/ /\ status' = [status EXCEPT ![r] = "error"]
           /\ "error" \in Lifecycle!Successors[status[r]]
    <3>1. \/ UNCHANGED status
          \/ status[r] # "absent" /\ status' = [status EXCEPT ![r] = "error"]
      BY <1>4 DEF FailDecompose, Abort, SetStatus
    <3>2. CASE status[r] = "error"
      BY <3>1, <3>2 DEF TypeOK
    <3>3. CASE status[r] # "error"
      BY <3>1, <3>3 DEF TypeOK, Status, Lifecycle!Successors
    <3> QED BY <3>2, <3>3
  <2>3. \/ pc'[r] = "raised" /\ UNCHANGED log
        \/ Publish(r, <<e>>)
    BY <1>4 DEF FailDecompose, Abort, PublishIf, Goto, TypeOK
  <2>4. CASE pc'[r] = "raised" /\ UNCHANGED log
    <3>1. pc'[r] # "returned" /\ \A q \in Runs \ {r} : log'[q] = log[q]
      BY <2>4
    <3> QED BY <2>1, <2>2, <3>1, OpenStep
  <2>5. CASE Publish(r, <<e>>)
    <3>1. e \in Event /\ e.ev = "run.error" /\ e.ev \in Terminal
      BY EvType DEF Status, Ev, Terminal
    <3>2. Lifecycle!Fail(r)
      BY <2>1, <2>2, <2>5, <3>1, ClosingStep DEF Lifecycle!Fail
    <3> QED BY <3>2 DEF Lifecycle!Next
  <2> QED BY <2>3, <2>4, <2>5
<1>5. CASE Crash \/ UNCHANGED vars
  <2>1. UNCHANGED <<status, log>>
    BY <1>5 DEF Crash, vars, store
  <2>2. \A q \in Runs : Announced(q)' = Announced(q)
    BY <2>1, AnnouncedIs
  <2> QED BY <2>1, <2>2 DEF Lifecycle!vars
<1> QED
  BY <1>1, <1>2, <1>3, <1>4, <1>5 DEF Next, Step, AllEnded

(* What the runs table and the event streams show is a RunLifecycle,       *)
(* however many runs are interleaved and whatever fails: run.completed     *)
(* only with a row that says complete or skipped, one terminal event, no   *)
(* status change after it and never a step back.                           *)
THEOREM ImplementsLifecycle == Spec => LifecycleSpec
<1>1. Init => StatusInv /\ Lifecycle!Init
  <2> SUFFICES ASSUME Init PROVE StatusInv /\ Lifecycle!Init
    OBVIOUS
  <2>1. StatusInv
    BY DEF Init, StatusInv, MidClaim
  <2>2. \A r \in Runs : Announced(r) = "none"
    BY AnnouncedIs DEF Init, LastTerminal, Quiet
  <2> QED BY <2>1, <2>2 DEF Init, Lifecycle!Init
<1>2. TypeOK /\ StatusInv /\ [Next]_vars => StatusInv'
  BY StatusStep
<1>3. TypeOK /\ AnnouncedInv /\ AnnouncedInv' /\ StatusInv /\ [Next]_vars
          => [Lifecycle!Next]_(Lifecycle!vars)
  BY RefinementStep
<1>4. Spec => []AnnouncedInv
  BY AlwaysAnnounced
<1> QED
  BY <1>1, <1>2, <1>3, <1>4, TypeCorrect, PTL
  DEF Spec, LifecycleSpec, Lifecycle!Spec

=============================================================================
