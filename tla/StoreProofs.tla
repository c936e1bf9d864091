---------------------------- MODULE StoreProofs ----------------------------
(***************************************************************************)
(* What the tables hold, for every value of the constants: a row that says *)
(* complete agrees with what its task computed in memory, an announced     *)
(* verdict is explained by the rows, a spent budget stays spent, and the   *)
(* rows are written in order; and what those see who read the tables while *)
(* they are written.                                                       *)
(***************************************************************************)
EXTENDS OrchestratorProofs, Dashboard

BeforeLoop == {"idle", "queued", "create", "skip", "mark_running", "save_chunks",
               "decompose"}

Looping == {"claim", "second", "save_rows", "save_probe"}

Whole(r) ==
    /\ \A i \in 1..Len(claims[r]) : Present(r, i)
    /\ final[r] = [total      |-> Len(claims[r]),
                   grounded   |-> RowVerdicts(r, {"GROUNDED"}),
                   fragile    |-> RowVerdicts(r, {"FRAGILE"}),
                   verifiable |-> RowVerdicts(r, Verdict \ {"UNVERIFIABLE"})]

(* In the loop the verdicts in memory are those of the rows before the     *)
(* current claim; once the current claim's row is saved, it has the        *)
(* verdict of the votes. A complete row is whole, and only a task that is  *)
(* past its loop has one.                                                  *)
Matching(r) ==
    /\ pc[r] \in BeforeLoop => idx[r] = 1 /\ details[r] = << >>
    /\ pc[r] \in Looping =>
           /\ idx[r] <= Len(claims[r]) + 1
           /\ Len(details[r]) = idx[r] - 1
           /\ \A i \in 1..(idx[r] - 1) : claimRow[r][i].verdict = details[r][i]
    /\ pc[r] \in {"save_rows", "save_probe"} =>
           claimRow[r][idx[r]].verdict = Reconcile(vote[r])
    /\ status[r] = "complete" => pc[r] \notin BeforeLoop \cup Looping /\ Whole(r)

RowsMatch == \A r \in Runs : Matching(r)

-----------------------------------------------------------------------------
(* How one run's part of the invariant survives a step.                    *)

(* A run none of whose variables changed.                                  *)
LEMMA Untouched ==
    ASSUME NEW r \in Runs, Matching(r), pc'[r] = pc[r], idx'[r] = idx[r],
           claims'[r] = claims[r], details'[r] = details[r], vote'[r] = vote[r],
           claimRow'[r] = claimRow[r], status'[r] = status[r], final'[r] = final[r]
    PROVE  Matching(r)'
<1>1. RowVerdicts(r, {"GROUNDED"})' = RowVerdicts(r, {"GROUNDED"})
  BY DEF RowVerdicts
<1>2. RowVerdicts(r, {"FRAGILE"})' = RowVerdicts(r, {"FRAGILE"})
  BY DEF RowVerdicts
<1>3. RowVerdicts(r, Verdict \ {"UNVERIFIABLE"})'
          = RowVerdicts(r, Verdict \ {"UNVERIFIABLE"})
  BY DEF RowVerdicts
<1> QED BY <1>1, <1>2, <1>3 DEF Matching, Whole, Present

(* A run that leaves for a place outside the loop, its row not complete.   *)
LEMMA Left ==
    ASSUME NEW r \in Runs, pc'[r] \notin BeforeLoop \cup Looping,
           status'[r] # "complete"
    PROVE  Matching(r)'
BY DEF Matching, BeforeLoop, Looping

(* A run whose row is complete and that changes neither rows nor claims.   *)
LEMMA StaysWhole ==
    ASSUME NEW r \in Runs, Matching(r), status[r] = "complete",
           pc'[r] \notin BeforeLoop \cup Looping, claims'[r] = claims[r],
           claimRow'[r] = claimRow[r], final'[r] = final[r]
    PROVE  Matching(r)'
<1>1. Whole(r)
  BY DEF Matching
<1>2. RowVerdicts(r, {"GROUNDED"})' = RowVerdicts(r, {"GROUNDED"})
  BY DEF RowVerdicts
<1>3. RowVerdicts(r, {"FRAGILE"})' = RowVerdicts(r, {"FRAGILE"})
  BY DEF RowVerdicts
<1>4. RowVerdicts(r, Verdict \ {"UNVERIFIABLE"})'
          = RowVerdicts(r, Verdict \ {"UNVERIFIABLE"})
  BY DEF RowVerdicts
<1>5. Whole(r)'
  BY <1>1, <1>2, <1>3, <1>4 DEF Whole, Present
<1> QED BY <1>5 DEF Matching, BeforeLoop, Looping

(* The end of the loop body, with the claim's row saved.                   *)
LEMMA Finished ==
    ASSUME TypeOK, NEW r \in Runs, Matching(r), pc[r] \in Looping,
           idx[r] <= Len(claims[r]), NEW v \in Verdict, FinishClaim(r, v),
           pc'[r] = "claim", claims'[r] = claims[r], status'[r] = status[r],
           claimRow'[r][idx[r]].verdict = v,
           \A i \in 1..(idx[r] - 1) : claimRow'[r][i] = claimRow[r][i]
    PROVE  Matching(r)'
<1>1. /\ details[r] \in Seq(Verdict) /\ claims[r] \in Seq(Kind)
      /\ idx[r] \in 1..(MaxClaims + 1) /\ MaxClaims \in Nat
  BY OrchestratorAssumption DEF TypeOK
<1>2. /\ Len(details[r]) = idx[r] - 1
      /\ \A i \in 1..(idx[r] - 1) : claimRow[r][i].verdict = details[r][i]
      /\ status[r] # "complete"
  BY DEF Matching
<1>3. idx'[r] = idx[r] + 1 /\ details'[r] = Append(details[r], v)
  BY DEF FinishClaim, TypeOK
<1>4. /\ Len(details'[r]) = idx[r]
      /\ details'[r][idx[r]] = v
      /\ \A i \in 1..(idx[r] - 1) : details'[r][i] = details[r][i]
  BY <1>1, <1>2, <1>3
<1>5. \A i \in 1..idx[r] : claimRow'[r][i].verdict = details'[r][i]
  BY <1>1, <1>2, <1>4
<1>6. Len(claims[r]) \in Nat
  BY <1>1
<1>7. idx'[r] - 1 = idx[r] /\ idx'[r] <= Len(claims'[r]) + 1
  BY <1>1, <1>3, <1>6
<1> QED BY <1>1, <1>2, <1>4, <1>5, <1>7 DEF Matching, BeforeLoop

(* Scores computed from memory are those of the rows.                      *)
LEMMA ScoresAgree ==
    ASSUME NEW r \in Runs, details[r] \in Seq(Verdict), claims[r] \in Seq(Kind),
           Len(details[r]) = Len(claims[r]),
           \A i \in 1..Len(claims[r]) : claimRow[r][i].verdict = details[r][i],
           final'[r] = Score(details[r]), claims'[r] = claims[r],
           claimRow'[r] = claimRow[r]
    PROVE  Whole(r)'
<1>1. DOMAIN details[r] = 1..Len(claims[r])
  OBVIOUS
<1>2. ASSUME NEW V PROVE Count(details[r], V) = RowVerdicts(r, V)'
  <2>1. {k \in DOMAIN details[r] : details[r][k] \in V}
            = {i \in 1..Len(claims'[r]) : claimRow'[r][i].verdict \in V}
    BY <1>1
  <2> QED BY <2>1 DEF Count, RowVerdicts
<1>3. \A i \in 1..Len(claims[r]) : Present(r, i)'
  BY <1>1 DEF Present, Verdict, NoVote
<1>4. Score(details[r]) =
          [total      |-> Len(claims'[r]),
           grounded   |-> RowVerdicts(r, {"GROUNDED"})',
           fragile    |-> RowVerdicts(r, {"FRAGILE"})',
           verifiable |-> RowVerdicts(r, Verdict \ {"UNVERIFIABLE"})']
  BY <1>2 DEF Score
<1> QED BY <1>3, <1>4 DEF Whole

-----------------------------------------------------------------------------
(* Steps.                                                                  *)

(* A step of one run leaves the variables of the others alone.             *)
LEMMA OthersAlone ==
    ASSUME TypeOK, NEW r \in Runs, Accept(r) \/ Step(r), NEW q \in Runs \ {r}
    PROVE  /\ pc'[q] = pc[q] /\ claims'[q] = claims[q]
           /\ idx'[q] = idx[q] /\ details'[q] = details[q]
           /\ vote'[q] = vote[q] /\ claimRow'[q] = claimRow[q]
           /\ status'[q] = status[q] /\ final'[q] = final[q]
           /\ todo'[q] = todo[q] /\ cost'[q] = cost[q]
           /\ verRow'[q] = verRow[q] /\ config'[q] = config[q]
           /\ log'[q] = log[q]
<1>1. pc'[q] = pc[q]
  <2>1. CASE \/ Accept(r) \/ Start(r) \/ Decompose(r) \/ DecomposeRaises(r)
             \/ RunEntailment(r) \/ ProberReturns(r) \/ IndependentReturns(r)
             \/ CollectProbes(r) \/ Abort(r) \/ FailDecompose(r)
    BY <2>1
    DEF Accept, Start, Decompose, DecomposeRaises, RunEntailment,
        EntailmentReturns, ProberReturns, IndependentReturns, CollectProbes,
        Abort, FailDecompose, Goto, TypeOK
  <2>2. CASE \/ CreateRun(r) \/ MarkSkipped(r) \/ MarkRunning(r)
             \/ SaveChunks(r) \/ SaveResolved(r) \/ SaveBudgetExceeded(r)
             \/ SaveClaim(r) \/ SaveVerification(r) \/ SaveProbe(r) \/ Finalize(r)
    BY <2>2
    DEF CreateRun, MarkSkipped, MarkRunning, SaveChunks, SaveResolved,
        SaveBudgetExceeded, SettleUnverified, SaveClaim, SaveVerification,
        SaveProbe, Finalize, Proceed, Goto, TypeOK
  <2> QED BY <2>1, <2>2 DEF Step
<1>2. claims'[q] = claims[q]
  BY DEF Accept, Step, Start, CreateRun, MarkSkipped, MarkRunning, SaveChunks,
     Decompose, DecomposeRaises, FailDecompose, SaveResolved,
     SaveBudgetExceeded, SettleUnverified, RunEntailment, EntailmentReturns,
     ProberReturns, IndependentReturns, SaveClaim, SaveVerification,
     CollectProbes, SaveProbe, Finalize, Abort, task, TypeOK
<1>3. idx'[q] = idx[q] /\ details'[q] = details[q]
  BY DEF Accept, Step, Start, CreateRun, MarkSkipped, MarkRunning, SaveChunks,
     Decompose, DecomposeRaises, FailDecompose, SaveResolved,
     SaveBudgetExceeded, SettleUnverified, RunEntailment, EntailmentReturns,
     ProberReturns, IndependentReturns, SaveClaim, SaveVerification,
     CollectProbes, SaveProbe, Finalize, Abort, FinishClaim, task, TypeOK
<1>4. vote'[q] = vote[q]
  BY DEF Accept, Step, Start, CreateRun, MarkSkipped, MarkRunning, SaveChunks,
     Decompose, DecomposeRaises, FailDecompose, SaveResolved,
     SaveBudgetExceeded, SettleUnverified, RunEntailment, EntailmentReturns,
     ProberReturns, IndependentReturns, SaveClaim, SaveVerification,
     CollectProbes, SaveProbe, Finalize, Abort, FinishClaim, task, TypeOK
<1>5. claimRow'[q] = claimRow[q]
  BY DEF Accept, Step, Start, CreateRun, MarkSkipped, MarkRunning, SaveChunks,
     Decompose, DecomposeRaises, FailDecompose, SaveResolved,
     SaveBudgetExceeded, SettleUnverified, RunEntailment, EntailmentReturns,
     ProberReturns, IndependentReturns, SaveClaim, SaveVerification,
     CollectProbes, SaveProbe, Finalize, Abort, InsertClaim, store, rows, TypeOK
<1>6. status'[q] = status[q] /\ final'[q] = final[q]
  BY DEF Accept, Step, Start, CreateRun, MarkSkipped, MarkRunning, SaveChunks,
     Decompose, DecomposeRaises, FailDecompose, SaveResolved,
     SaveBudgetExceeded, SettleUnverified, RunEntailment, EntailmentReturns,
     ProberReturns, IndependentReturns, SaveClaim, SaveVerification,
     CollectProbes, SaveProbe, Finalize, Abort, SetStatus, store, rows, TypeOK
<1>7. todo'[q] = todo[q] /\ cost'[q] = cost[q]
  BY DEF Accept, Step, Start, CreateRun, MarkSkipped, MarkRunning, SaveChunks,
     Decompose, DecomposeRaises, FailDecompose, SaveResolved,
     SaveBudgetExceeded, SettleUnverified, RunEntailment, EntailmentReturns,
     ProberReturns, IndependentReturns, SaveClaim, SaveVerification,
     CollectProbes, SaveProbe, Finalize, Abort, task, TypeOK
<1>8. verRow'[q] = verRow[q] /\ config'[q] = config[q]
  BY DEF Accept, Step, Start, CreateRun, MarkSkipped, MarkRunning, SaveChunks,
     Decompose, DecomposeRaises, FailDecompose, SaveResolved,
     SaveBudgetExceeded, SettleUnverified, RunEntailment, EntailmentReturns,
     ProberReturns, IndependentReturns, SaveClaim, SaveVerification,
     CollectProbes, SaveProbe, Finalize, Abort, store, rows, task, TypeOK
<1>9. log'[q] = log[q]
  BY DEF Accept, Step, Start, CreateRun, MarkSkipped, MarkRunning, SaveChunks,
     Decompose, DecomposeRaises, FailDecompose, SaveResolved,
     SaveBudgetExceeded, SettleUnverified, RunEntailment, EntailmentReturns,
     ProberReturns, IndependentReturns, SaveClaim, SaveVerification,
     CollectProbes, SaveProbe, Finalize, Abort, PublishIf, Publish, TypeOK
<1> QED BY <1>1, <1>2, <1>3, <1>4, <1>5, <1>6, <1>7, <1>8, <1>9

LEMMA OthersUntouched ==
    ASSUME TypeOK, RowsMatch, NEW r \in Runs, Accept(r) \/ Step(r),
           NEW q \in Runs \ {r}
    PROVE  Matching(q)'
BY OthersAlone, Untouched DEF RowsMatch

(* The steps before the loop and the first of them that enters it.         *)
LEMMA SetupMatches ==
    ASSUME TypeOK, RowsMatch, NEW r \in Runs,
           \/ Accept(r) \/ Start(r) \/ CreateRun(r) \/ MarkSkipped(r)
           \/ MarkRunning(r) \/ SaveChunks(r) \/ Decompose(r)
           \/ DecomposeRaises(r) \/ FailDecompose(r)
    PROVE  Matching(r)'
<1> USE DEF Outcome, BeforeLoop, Looping
<1>1. Matching(r)
  BY DEF RowsMatch
<1>2. CASE \/ Accept(r) \/ Start(r) \/ CreateRun(r) \/ MarkSkipped(r)
           \/ MarkRunning(r) \/ SaveChunks(r)
  <2>1. /\ idx'[r] = idx[r] /\ details'[r] = details[r]
        /\ pc[r] \in BeforeLoop
    BY <1>2
    DEF Accept, Start, CreateRun, MarkSkipped, MarkRunning, SaveChunks, task
  <2>2. /\ pc'[r] \notin Looping
        /\ status'[r] # "complete"
    BY <1>1, <1>2
    DEF Accept, Start, CreateRun, MarkSkipped, MarkRunning, SaveChunks,
        SetStatus, Proceed, Goto, store, Matching, TypeOK
  <2> QED BY <1>1, <2>1, <2>2 DEF Matching
<1>3. CASE Decompose(r)
  <2>1. /\ idx'[r] = 1 /\ details'[r] = << >> /\ pc'[r] = "claim"
        /\ status'[r] # "complete"
    BY <1>1, <1>3 DEF Decompose, Goto, Matching, store, TypeOK
  <2>2. claims'[r] \in Seq(Kind)
    BY <1>3, DecomposeTypes DEF TypeOK
  <2>3. Len(claims'[r]) \in Nat
    BY <2>2
  <2>4. idx'[r] <= Len(claims'[r]) + 1 /\ Len(details'[r]) = idx'[r] - 1
    BY <2>1, <2>3
  <2> QED BY <2>1, <2>4 DEF Matching
<1>4. CASE DecomposeRaises(r)
  <2>1. pc'[r] = "decompose_failed" /\ status'[r] # "complete"
    BY <1>1, <1>4 DEF DecomposeRaises, Goto, Matching, store, TypeOK
  <2> QED BY <2>1, Left
<1>5. CASE FailDecompose(r)
  <2>1. pc'[r] \in {"returned", "raised"}
    BY <1>5 DEF FailDecompose, Goto, TypeOK
  <2>2. CASE status'[r] # "complete"
    BY <2>1, <2>2, Left
  <2>3. CASE status'[r] = "complete"
    <3>1. status[r] = "complete"
      BY <1>5, <2>3 DEF FailDecompose, SetStatus, TypeOK
    <3>2. UNCHANGED <<claims, claimRow, final>>
      BY <1>5 DEF FailDecompose, task, rows
    <3> QED BY <1>1, <2>1, <3>1, <3>2, StaysWhole
  <2> QED BY <2>2, <2>3
<1> QED BY <1>2, <1>3, <1>4, <1>5

(* An insert changes the current claim's row only.                         *)
LEMMA InsertedOnly ==
    ASSUME TypeOK, NEW r \in Runs, idx[r] <= Len(claims[r]), NEW row,
           InsertClaim(r, "ok", row)
    PROVE  /\ claimRow'[r][idx[r]] = row
           /\ \A i \in 1..(idx[r] - 1) : claimRow'[r][i] = claimRow[r][i]
<1>1. idx[r] \in ClaimNo
  BY OrchestratorAssumption DEF TypeOK, ClaimNo
<1>2. claimRow' = [claimRow EXCEPT ![r][idx[r]] = row]
  BY DEF InsertClaim, Applied
<1>3. claimRow[r] \in [ClaimNo -> ClaimRow]
  BY DEF TypeOK
<1>4. claimRow'[r] = [claimRow[r] EXCEPT ![idx[r]] = row]
  BY <1>2 DEF TypeOK
<1>5. \A i \in ClaimNo : claimRow'[r][i] = IF i = idx[r] THEN row ELSE claimRow[r][i]
  BY <1>3, <1>4
<1>6. \A i \in 1..(idx[r] - 1) : i \in ClaimNo /\ i # idx[r]
  BY <1>1, OrchestratorAssumption DEF ClaimNo
<1> QED BY <1>1, <1>5, <1>6

(* A claim settled without the verifiers.                                  *)
LEMMA SettleMatches ==
    ASSUME TypeOK, RowsMatch, NEW r \in Runs, pc[r] = "claim",
           idx[r] <= Len(claims[r]), NEW by, SettleUnverified(r, by)
    PROVE  Matching(r)'
<1>1. Matching(r) /\ status[r] # "complete"
  BY DEF RowsMatch, Matching, Looping
<1>2. PICK o \in Outcome :
          /\ InsertClaim(r, o, [verdict |-> "UNVERIFIABLE", by |-> by])
          /\ Proceed(r, o, "claim")
          /\ IF o = "ok" THEN FinishClaim(r, "UNVERIFIABLE")
             ELSE UNCHANGED <<details, idx, vote>>
  BY DEF SettleUnverified
<1>3. UNCHANGED <<claims, status>>
  BY DEF SettleUnverified
<1>4. CASE o = "ok"
  <2>1. pc'[r] = "claim" /\ FinishClaim(r, "UNVERIFIABLE")
    BY <1>2, <1>4 DEF Proceed, Goto, TypeOK
  <2>2. /\ claimRow'[r][idx[r]] = [verdict |-> "UNVERIFIABLE", by |-> by]
        /\ \A i \in 1..(idx[r] - 1) : claimRow'[r][i] = claimRow[r][i]
    BY <1>2, <1>4, InsertedOnly
  <2>3. "UNVERIFIABLE" \in Verdict /\ pc[r] \in Looping
    BY DEF Verdict, Looping
  <2>4. claims'[r] = claims[r] /\ status'[r] = status[r]
    BY <1>3
  <2> QED BY <1>1, <2>1, <2>2, <2>3, <2>4, Finished
<1>5. CASE o # "ok"
  <2>1. pc'[r] = "abort"
    BY <1>2, <1>5 DEF Proceed, Goto, TypeOK
  <2> QED BY <1>1, <1>3, <2>1, Left DEF BeforeLoop, Looping
<1> QED BY <1>4, <1>5

(* The calls of the verifiers, before a row is written.                    *)
LEMMA VerifyMatches ==
    ASSUME TypeOK, RowsMatch, NEW r \in Runs,
           RunEntailment(r) \/ ProberReturns(r) \/ IndependentReturns(r)
    PROVE  Matching(r)'
<1>1. Matching(r)
  BY DEF RowsMatch
<1>2. /\ pc[r] \in {"claim", "second"} /\ pc'[r] = "second"
      /\ idx'[r] = idx[r] /\ claims'[r] = claims[r]
      /\ details'[r] = details[r] /\ claimRow'[r] = claimRow[r]
      /\ status'[r] = status[r]
  BY DEF RunEntailment, AtClaim, EntailmentReturns, ProberReturns,
     IndependentReturns, Goto, store, rows, TypeOK
<1> QED BY <1>1, <1>2 DEF Matching, BeforeLoop, Looping

(* The claim's row is saved with the verdict of its votes.                 *)
LEMMA SaveClaimMatches ==
    ASSUME TypeOK, InLoop, RowsMatch, NEW r \in Runs, SaveClaim(r)
    PROVE  Matching(r)'
<1> USE DEF BeforeLoop, Looping
<1>1. Matching(r) /\ status[r] # "complete" /\ idx[r] <= Len(claims[r])
  BY DEF SaveClaim, RowsMatch, Matching, InLoop
<1>2. PICK o \in Outcome :
          /\ InsertClaim(r, o, [verdict |-> Reconcile(vote[r]), by |-> "verifiers"])
          /\ Proceed(r, o, "save_rows")
  BY DEF SaveClaim
<1>3. /\ UNCHANGED <<claims, idx, details, vote, status>>
      /\ pc[r] = "second"
  BY DEF SaveClaim
<1>4. CASE o = "ok"
  <2>1. pc'[r] = "save_rows"
    BY <1>2, <1>4 DEF Proceed, Goto, TypeOK
  <2>2. /\ claimRow'[r][idx[r]] =
               [verdict |-> Reconcile(vote[r]), by |-> "verifiers"]
        /\ \A i \in 1..(idx[r] - 1) : claimRow'[r][i] = claimRow[r][i]
    BY <1>1, <1>2, <1>4, InsertedOnly
  <2>3. Reconcile(vote[r])' = Reconcile(vote[r])
    BY <1>3
  <2> QED BY <1>1, <1>3, <2>1, <2>2, <2>3 DEF Matching
<1>5. CASE o # "ok"
  <2>1. pc'[r] = "abort"
    BY <1>2, <1>5 DEF Proceed, Goto, TypeOK
  <2> QED BY <1>1, <1>3, <2>1, Left
<1> QED BY <1>4, <1>5

(* A verification row leaves the claim as it is.                           *)
LEMMA SaveVerificationMatches ==
    ASSUME TypeOK, RowsMatch, NEW r \in Runs, SaveVerification(r)
    PROVE  Matching(r)'
<1> USE DEF BeforeLoop, Looping
<1>1. Matching(r) /\ status[r] # "complete"
  BY DEF SaveVerification, RowsMatch, Matching
<1>2. /\ UNCHANGED <<claims, idx, details, vote, status, claimRow>>
      /\ pc[r] = "save_rows"
  BY DEF SaveVerification
<1>3. pc'[r] \in {"save_rows", "abort"}
  BY DEF SaveVerification, Proceed, Goto, TypeOK
<1>4. Reconcile(vote[r])' = Reconcile(vote[r])
  BY <1>2
<1> QED BY <1>1, <1>2, <1>3, <1>4 DEF Matching

(* Whatever becomes of its probes, a claim that is announced has its row.  *)
LEMMA ProbesMatch ==
    ASSUME TypeOK, InLoop, RowsMatch, NEW r \in Runs,
           CollectProbes(r) \/ SaveProbe(r)
    PROVE  Matching(r)'
<1> USE DEF BeforeLoop, Looping
<1>1. pc[r] \in {"save_rows", "save_probe"}
  BY DEF CollectProbes, SaveProbe
<1>2. /\ Matching(r) /\ status[r] # "complete"
      /\ idx[r] <= Len(claims[r])
      /\ claimRow[r][idx[r]].verdict = Reconcile(vote[r])
  BY <1>1 DEF RowsMatch, Matching, InLoop
<1>3. UNCHANGED <<claims, status, claimRow>>
  BY DEF CollectProbes, SaveProbe, store, rows
<1>4. Reconcile(vote[r]) \in Verdict
  BY ReconcileType DEF TypeOK
<1>5. CASE FinishClaim(r, Reconcile(vote[r])) /\ pc'[r] = "claim"
  <2>1. pc[r] \in Looping /\ claims'[r] = claims[r] /\ status'[r] = status[r]
        /\ claimRow'[r] = claimRow[r]
    BY <1>1, <1>3
  <2> QED BY <1>2, <1>4, <1>5, <2>1, Finished
<1>6. CASE /\ pc'[r] \in {"save_probe", "abort"}
           /\ UNCHANGED <<idx, details, vote>>
  <2>1. Reconcile(vote[r])' = Reconcile(vote[r])
    BY <1>6
  <2> QED BY <1>1, <1>2, <1>3, <1>6, <2>1 DEF Matching
<1>7. ASSUME CollectProbes(r)
      PROVE  \/ FinishClaim(r, Reconcile(vote[r])) /\ pc'[r] = "claim"
             \/ pc'[r] \in {"save_probe", "abort"} /\ UNCHANGED <<idx, details, vote>>
  BY <1>7 DEF CollectProbes, Goto, TypeOK
<1>8. ASSUME SaveProbe(r)
      PROVE  \/ FinishClaim(r, Reconcile(vote[r])) /\ pc'[r] = "claim"
             \/ pc'[r] \in {"save_probe", "abort"} /\ UNCHANGED <<idx, details, vote>>
  BY <1>8 DEF SaveProbe, Proceed, Goto, TypeOK
<1> QED BY <1>5, <1>6, <1>7, <1>8

(* The end of a run.                                                       *)
LEMMA EndMatches ==
    ASSUME TypeOK, RowsMatch, NEW r \in Runs, Finalize(r) \/ Abort(r)
    PROVE  Matching(r)'
<1> USE DEF BeforeLoop, Looping
<1>1. Matching(r)
  BY DEF RowsMatch
<1>2. /\ UNCHANGED <<claims, idx, details, claimRow>>
      /\ pc'[r] \in {"returned", "abort"}
  BY DEF Finalize, Abort, Proceed, Goto, task, rows, TypeOK
<1>3. CASE status'[r] # "complete"
  BY <1>2, <1>3, Left
<1>4. CASE status'[r] = "complete" /\ Finalize(r)
  <2>1. /\ status[r] # "complete"
        /\ Len(details[r]) = idx[r] - 1 /\ idx[r] = Len(claims[r]) + 1
        /\ \A i \in 1..(idx[r] - 1) : claimRow[r][i].verdict = details[r][i]
    <3>1. /\ idx[r] <= Len(claims[r]) + 1 /\ idx[r] > Len(claims[r])
          /\ Len(details[r]) = idx[r] - 1 /\ status[r] # "complete"
          /\ \A i \in 1..(idx[r] - 1) : claimRow[r][i].verdict = details[r][i]
      BY <1>1, <1>4 DEF Finalize, Matching
    <3>2. Len(claims[r]) \in Nat /\ idx[r] \in Nat
      BY DEF TypeOK
    <3> QED BY <3>1, <3>2
  <2>2. final'[r] = Score(details[r])
    BY <1>4, <2>1 DEF Finalize, SetStatus, TypeOK
  <2>3. /\ details[r] \in Seq(Verdict) /\ claims[r] \in Seq(Kind)
        /\ Len(claims[r]) \in Nat
    BY DEF TypeOK
  <2>4. /\ Len(details[r]) = Len(claims[r])
        /\ \A i \in 1..Len(claims[r]) : claimRow[r][i].verdict = details[r][i]
    BY <2>1, <2>3
  <2>5. Whole(r)'
    BY <1>2, <2>2, <2>3, <2>4, ScoresAgree
  <2> QED BY <1>2, <2>5 DEF Matching
<1>5. CASE status'[r] = "complete" /\ Abort(r)
  <2>1. status[r] = "complete" /\ UNCHANGED final
    BY <1>5 DEF Abort, SetStatus, rows, TypeOK
  <2> QED BY <1>1, <1>2, <2>1, StaysWhole
<1> QED BY <1>3, <1>4, <1>5

LEMMA RowsStep == TypeOK /\ InLoop /\ RowsMatch /\ [Next]_vars => RowsMatch'
<1> SUFFICES ASSUME TypeOK, InLoop, RowsMatch, [Next]_vars PROVE RowsMatch'
  OBVIOUS
<1>1. ASSUME NEW r \in Runs, Accept(r) \/ Step(r) PROVE RowsMatch'
  <2>1. Matching(r)'
    <3>1. CASE SaveResolved(r)
      BY <3>1, SettleMatches DEF SaveResolved, AtClaim
    <3>2. CASE SaveBudgetExceeded(r)
      BY <3>2, SettleMatches DEF SaveBudgetExceeded, AtClaim
    <3> QED
      BY <1>1, <3>1, <3>2, SetupMatches, VerifyMatches, SaveClaimMatches,
         SaveVerificationMatches, ProbesMatch, EndMatches DEF Step
  <2> QED BY <1>1, <2>1, OthersUntouched DEF RowsMatch
<1>2. CASE Crash
  <2>1. UNCHANGED <<idx, claims, details, vote, claimRow, status, final>>
    BY <1>2 DEF Crash, task, store, rows
  <2>2. ASSUME NEW r \in Runs PROVE Matching(r)'
    <3>1. Matching(r)
      BY DEF RowsMatch
    <3>2. CASE pc[r] \in Active
      <4>1. pc'[r] = "lost"
        BY <1>2, <3>2 DEF Crash
      <4>2. CASE status[r] = "complete"
        BY <2>1, <3>1, <4>1, <4>2, StaysWhole DEF BeforeLoop, Looping
      <4>3. CASE status[r] # "complete"
        BY <2>1, <4>1, <4>3, Left DEF BeforeLoop, Looping
      <4> QED BY <4>2, <4>3
    <3>3. CASE pc[r] \notin Active
      <4>1. pc'[r] = pc[r]
        BY <1>2, <3>3 DEF Crash
      <4> QED BY <2>1, <3>1, <4>1, Untouched
    <3> QED BY <3>2, <3>3
  <2> QED BY <2>2 DEF RowsMatch
<1>3. CASE UNCHANGED vars
  <2>1. UNCHANGED <<pc, idx, claims, details, vote, claimRow, status, final>>
    BY <1>3 DEF vars, task, store, rows
  <2> QED BY <2>1, Untouched DEF RowsMatch
<1> QED BY <1>1, <1>2, <1>3 DEF Next, AllEnded

LEMMA AlwaysMatching == Spec => []RowsMatch
<1>1. Init => RowsMatch
  <2> SUFFICES ASSUME Init, NEW r \in Runs PROVE Matching(r)
    BY DEF RowsMatch
  <2>1. /\ pc[r] = "idle" /\ idx[r] = 1 /\ details[r] = << >>
        /\ status[r] = "absent"
    BY DEF Init
  <2> QED BY <2>1 DEF Matching, BeforeLoop, Looping
<1>2. TypeOK /\ InLoop /\ RowsMatch /\ [Next]_vars => RowsMatch'
  BY RowsStep
<1> QED BY <1>1, <1>2, TypeCorrect, PTL DEF Spec

(* A row that says complete has a row for every claim, and the scores,     *)
(* which finalize_run was given from memory, are those of the claims table:*)
(* for any number of concurrent runs, store faults and crashes.            *)
THEOREM CompleteRowsAreWhole == Spec => []CompleteIsWhole
<1>1. RowsMatch => CompleteIsWhole
  BY DEF RowsMatch, Matching, Whole, CompleteIsWhole
<1> QED BY <1>1, AlwaysMatching, PTL

-----------------------------------------------------------------------------
(* What was announced is explained, and the budget never frees up.         *)

Events(s) == {s[k] : k \in DOMAIN s}

Filling == {"second", "save_rows", "save_probe"}

NoRowsFrom(r, n) ==
    \A i \in ClaimNo : i >= n => claimRow[r][i] = NoRow /\ verRow[r][i] = NoVotes

Settled(r, i, v) ==
    /\ claimRow[r][i].verdict = v
    /\ claimRow[r][i].by = "verifiers" => Reconcile(verRow[r][i]) = v

(* What was announced lies behind the loop's index, where no row changes.  *)
Told(r) ==
    \A e \in Events(log[r]) :
        e.ev = "claim.verified" =>
            e.claim \in 1..(idx[r] - 1) /\ Settled(r, e.claim, e.info)

(* Ahead of the index there are no rows; at it the row of the claim and    *)
(* the votes saved so far are those in memory.                             *)
Filled(r) ==
    /\ pc[r] \in BeforeLoop \cup {"claim", "second"} => NoRowsFrom(r, idx[r])
    /\ pc[r] \in {"save_rows", "save_probe"} =>
          /\ NoRowsFrom(r, idx[r] + 1)
          /\ claimRow[r][idx[r]] = [verdict |-> Reconcile(vote[r]), by |-> "verifiers"]
          /\ \A u \in Verifier :
                verRow[r][idx[r]][u] = IF u \in todo[r] THEN NoVote ELSE vote[r][u]
    /\ pc[r] = "save_probe" => todo[r] = {}

Broke(r) == \E i \in ClaimNo : claimRow[r][i].by = "budget"

(* A run that gave a claim up for lack of budget never verifies again.     *)
Thrifty(r) ==
    /\ Broke(r) => cost[r] >= Budget /\ pc[r] \notin Filling
    /\ \A i, j \in ClaimNo :
          i < j /\ claimRow[r][i].by = "budget" => claimRow[r][j].by # "verifiers"

Explained(r) == Told(r) /\ Filled(r) /\ Thrifty(r)

AllExplained == \A r \in Runs : Explained(r)

LEMMA ExplainedUntouched ==
    ASSUME NEW r \in Runs, Explained(r), pc'[r] = pc[r], idx'[r] = idx[r],
           vote'[r] = vote[r], todo'[r] = todo[r], cost'[r] = cost[r],
           claimRow'[r] = claimRow[r], verRow'[r] = verRow[r], log'[r] = log[r]
    PROVE  Explained(r)'
<1>1. Told(r)'
  BY DEF Explained, Told, Settled, Events
<1>2. Filled(r)'
  BY DEF Explained, Filled, NoRowsFrom
<1>3. Thrifty(r)'
  BY DEF Explained, Thrifty, Broke
<1> QED BY <1>1, <1>2, <1>3 DEF Explained

(* Publishing adds the events published.                                   *)
LEMMA EventsPublished ==
    ASSUME TypeOK, NEW r \in Runs, NEW es \in Seq(Event), Publish(r, es)
    PROVE  Events(log'[r]) = Events(log[r]) \cup Events(es)
<1>1. log'[r] = log[r] \o es /\ log[r] \in Seq(Event)
  BY DEF Publish, TypeOK
<1>2. ASSUME NEW s \in Seq(Event), NEW t \in Seq(Event)
      PROVE  Events(s \o t) = Events(s) \cup Events(t)
  <2>1. ASSUME NEW k \in DOMAIN (s \o t)
        PROVE  (s \o t)[k] \in Events(s) \cup Events(t)
    <3>1. CASE k <= Len(s)
      BY <3>1 DEF Events
    <3>2. CASE k > Len(s)
      <4>1. k - Len(s) \in DOMAIN t /\ (s \o t)[k] = t[k - Len(s)]
        BY <3>2
      <4> QED BY <4>1 DEF Events
    <3> QED BY <3>1, <3>2
  <2>2. ASSUME NEW k \in DOMAIN s PROVE s[k] \in Events(s \o t)
    <3>1. k \in DOMAIN (s \o t) /\ (s \o t)[k] = s[k]
      OBVIOUS
    <3> QED BY <3>1 DEF Events
  <2>3. ASSUME NEW k \in DOMAIN t PROVE t[k] \in Events(s \o t)
    <3>1. Len(s) + k \in DOMAIN (s \o t) /\ (s \o t)[Len(s) + k] = t[k]
      OBVIOUS
    <3> QED BY <3>1 DEF Events
  <2> QED BY <2>1, <2>2, <2>3 DEF Events
<1> QED BY <1>1, <1>2

LEMMA EventsOfOne == ASSUME NEW e PROVE Events(<<e>>) = {e}
BY DEF Events

(* A claim announced by a step is settled, behind the index it leaves.     *)
Announces(r) ==
    \A e \in Events(log'[r]) : e.ev = "claim.verified" =>
        \/ e \in Events(log[r])
        \/ e.claim \in 1..(idx'[r] - 1) /\ Settled(r, e.claim, e.info)'

(* The index does not go back and the rows behind it are left alone.       *)
KeepsBehind(r) ==
    /\ idx[r] \in Int /\ idx'[r] \in Int /\ idx[r] <= idx'[r]
    /\ \A i \in 1..(idx[r] - 1) :
           claimRow'[r][i] = claimRow[r][i] /\ verRow'[r][i] = verRow[r][i]

LEMMA ToldKept ==
    ASSUME NEW r \in Runs, Told(r), Announces(r), KeepsBehind(r)
    PROVE  Told(r)'
<1> SUFFICES ASSUME NEW e \in Events(log'[r]), e.ev = "claim.verified"
             PROVE  e.claim \in 1..(idx'[r] - 1) /\ Settled(r, e.claim, e.info)'
  BY DEF Told, Events
<1>1. CASE e \in Events(log[r])
  <2>1. e.claim \in 1..(idx[r] - 1) /\ Settled(r, e.claim, e.info)
    BY <1>1 DEF Told
  <2> QED BY <2>1 DEF Settled, KeepsBehind
<1>2. CASE e \notin Events(log[r])
  BY <1>2 DEF Announces
<1> QED BY <1>1, <1>2

LEMMA Silent == ASSUME NEW r \in Runs, UNCHANGED log PROVE Announces(r)
BY DEF Announces

(* A store call that inserts the claim at the index changes that row only. *)
LEMMA InsertedRow ==
    ASSUME TypeOK, NEW r \in Runs, idx[r] <= Len(claims[r]), NEW o, NEW row,
           InsertClaim(r, o, row)
    PROVE  /\ idx[r] \in ClaimNo
           /\ \A i \in ClaimNo :
                 claimRow'[r][i] = IF i = idx[r] /\ Applied(o) THEN row ELSE claimRow[r][i]
<1>1. idx[r] \in ClaimNo
  BY OrchestratorAssumption DEF TypeOK, ClaimNo
<1>2. CASE Applied(o)
  <2>1. claimRow' = [claimRow EXCEPT ![r][idx[r]] = row]
    BY <1>2 DEF InsertClaim
  <2>2. claimRow[r] \in [ClaimNo -> ClaimRow] /\ claimRow'[r] = [claimRow[r] EXCEPT ![idx[r]] = row]
    BY <2>1 DEF TypeOK
  <2> QED BY <1>1, <1>2, <2>2
<1>3. CASE ~Applied(o)
  BY <1>1, <1>3 DEF InsertClaim
<1> QED BY <1>2, <1>3

-----------------------------------------------------------------------------
(* Steps.                                                                  *)

LEMMA OthersExplained ==
    ASSUME TypeOK, AllExplained, NEW r \in Runs, Accept(r) \/ Step(r),
           NEW q \in Runs \ {r}
    PROVE  Explained(q)'
BY OthersAlone, ExplainedUntouched DEF AllExplained

(* The steps before and after the loop announce no claim and write no row. *)
LEMMA AsideExplained ==
    ASSUME TypeOK, AllExplained, NEW r \in Runs,
           \/ Accept(r) \/ Start(r) \/ CreateRun(r) \/ MarkSkipped(r)
           \/ MarkRunning(r) \/ SaveChunks(r) \/ Decompose(r)
           \/ DecomposeRaises(r) \/ FailDecompose(r) \/ Finalize(r) \/ Abort(r)
    PROVE  Explained(r)'
<1> USE DEF BeforeLoop
<1>1. UNCHANGED <<idx, vote, todo, cost, claimRow, verRow>>
  BY DEF Accept, Start, CreateRun, MarkSkipped, MarkRunning, SaveChunks,
     Decompose, DecomposeRaises, FailDecompose, Finalize, Abort, task, store, rows
<1>2. /\ pc'[r] \notin Filling
      /\ pc'[r] \in BeforeLoop \cup {"claim"} => pc[r] \in BeforeLoop \cup {"claim"}
  BY DEF Accept, Start, CreateRun, MarkSkipped, MarkRunning, SaveChunks,
     Decompose, DecomposeRaises, FailDecompose, Finalize, Abort, Proceed, Goto,
     TypeOK, Filling
<1>3. \/ UNCHANGED log
      \/ \E name \in {"run.started", "claims.decomposed", "run.completed", "run.error"},
            info \in Status : Publish(r, <<Ev(name, 0, info)>>)
  BY DEF Accept, Start, CreateRun, MarkSkipped, MarkRunning, SaveChunks,
     Decompose, DecomposeRaises, FailDecompose, Finalize, Abort, PublishIf, Status
<1>4. Announces(r)
  <2>1. CASE UNCHANGED log
    BY <2>1, Silent
  <2>2. ASSUME NEW name \in {"run.started", "claims.decomposed", "run.completed", "run.error"},
               NEW info \in Status, Publish(r, <<Ev(name, 0, info)>>)
        PROVE  Announces(r)
    <3>1. Ev(name, 0, info) \in Event
      BY EvType
    <3>2. <<Ev(name, 0, info)>> \in Seq(Event)
      BY <3>1
    <3>3. Events(log'[r]) = Events(log[r]) \cup {Ev(name, 0, info)}
      BY <2>2, <3>2, EventsPublished, EventsOfOne
    <3>4. Ev(name, 0, info).ev # "claim.verified"
      BY DEF Ev
    <3> QED BY <3>3, <3>4 DEF Announces
  <2> QED BY <1>3, <2>1, <2>2
<1>5. Explained(r) /\ idx[r] \in Int
  BY OrchestratorAssumption DEF AllExplained, TypeOK
<1>6. Told(r)'
  <2>1. KeepsBehind(r)
    BY <1>1, <1>5 DEF KeepsBehind
  <2> QED BY <1>4, <1>5, <2>1, ToldKept DEF Explained
<1>7. Filled(r)'
  BY <1>1, <1>2, <1>5 DEF Explained, Filled, Filling, NoRowsFrom
<1>8. Thrifty(r)'
  BY <1>1, <1>2, <1>5 DEF Explained, Thrifty, Broke
<1> QED BY <1>6, <1>7, <1>8 DEF Explained

(* The verifiers write no row, and are called only below the budget.       *)
LEMMA VerifyExplained ==
    ASSUME TypeOK, AllExplained, NEW r \in Runs,
           RunEntailment(r) \/ ProberReturns(r) \/ IndependentReturns(r)
    PROVE  Explained(r)'
<1>1. UNCHANGED <<idx, claimRow, verRow, log>>
  BY DEF RunEntailment, EntailmentReturns, ProberReturns, IndependentReturns, store, rows
<1>2. pc[r] \in {"claim", "second"} /\ pc'[r] = "second"
  BY DEF RunEntailment, AtClaim, EntailmentReturns, ProberReturns,
     IndependentReturns, Goto, TypeOK
<1>3. Explained(r) /\ idx[r] \in Int
  BY OrchestratorAssumption DEF AllExplained, TypeOK
<1>4. ~Broke(r)
  <2>1. CASE RunEntailment(r)
    <3>1. cost[r] < Budget /\ cost[r] \in Nat /\ Budget \in Nat
      BY <2>1, OrchestratorAssumption DEF RunEntailment, TypeOK
    <3> QED BY <1>3, <3>1 DEF Explained, Thrifty
  <2>2. CASE pc[r] = "second"
    BY <1>3, <2>2 DEF Explained, Thrifty, Filling
  <2> QED BY <2>1, <2>2 DEF ProberReturns, IndependentReturns
<1>5. Told(r)'
  BY <1>1, <1>3 DEF Explained, Told, Settled, Events
<1>6. Filled(r)'
  BY <1>1, <1>2, <1>3 DEF Explained, Filled, NoRowsFrom, BeforeLoop
<1>7. Thrifty(r)'
  BY <1>1, <1>4 DEF Thrifty, Broke
<1> QED BY <1>5, <1>6, <1>7 DEF Explained

(* A claim settled without the verifiers; when for lack of budget, there   *)
(* is none left.                                                           *)
LEMMA SettleExplained ==
    ASSUME TypeOK, AllExplained, NEW r \in Runs, pc[r] = "claim",
           idx[r] <= Len(claims[r]), NEW by \in {"decomposer", "budget"},
           by = "budget" => cost[r] >= Budget, SettleUnverified(r, by)
    PROVE  Explained(r)'
<1> DEFINE row == [verdict |-> "UNVERIFIABLE", by |-> by]
           e == ClaimVerified(r, "UNVERIFIABLE")
<1>1. PICK o \in Outcome :
          /\ InsertClaim(r, o, row)
          /\ Proceed(r, o, "claim")
          /\ IF o = "ok" THEN FinishClaim(r, "UNVERIFIABLE")
             ELSE UNCHANGED <<details, idx, vote>>
          /\ PublishIf(o = "ok", r, <<e>>)
  BY DEF SettleUnverified
<1>2. UNCHANGED <<cost, todo, verRow>>
  BY DEF SettleUnverified
<1>3. /\ idx[r] \in ClaimNo
      /\ \A i \in ClaimNo :
            claimRow'[r][i] = IF i = idx[r] /\ Applied(o) THEN row ELSE claimRow[r][i]
  BY <1>1, InsertedRow
<1>4. /\ Explained(r) /\ idx[r] \in Int /\ MaxClaims \in Nat
      /\ \A i \in 1..(idx[r] - 1) : i \in ClaimNo /\ i # idx[r]
  BY <1>3, OrchestratorAssumption DEF AllExplained, TypeOK, ClaimNo
<1>5. NoRowsFrom(r, idx[r])
  BY <1>4 DEF Explained, Filled
<1>6. /\ o = "ok" => pc'[r] = "claim" /\ idx'[r] = idx[r] + 1
      /\ o # "ok" => pc'[r] = "abort" /\ idx'[r] = idx[r]
  BY <1>1 DEF Proceed, Goto, FinishClaim, TypeOK
<1>7. Told(r)'
  <2>1. KeepsBehind(r)
    BY <1>2, <1>3, <1>4, <1>6 DEF KeepsBehind
  <2>2. CASE o = "ok"
    <3>1. e \in Event /\ <<e>> \in Seq(Event)
      BY VerifiedType DEF Verdict
    <3>2. Events(log'[r]) = Events(log[r]) \cup {e}
      BY <1>1, <2>2, <3>1, EventsPublished, EventsOfOne DEF PublishIf
    <3>3. PICK f : f = e
      OBVIOUS
    <3>4. f.claim = idx[r] /\ f.info = "UNVERIFIABLE"
      BY <3>3 DEF ClaimVerified, Ev
    <3>5. claimRow'[r][f.claim] = row
      BY <1>3, <2>2, <3>4 DEF Applied
    <3>6. f.claim \in 1..(idx'[r] - 1)
      BY <1>3, <1>4, <1>6, <2>2, <3>4 DEF ClaimNo
    <3>7. Settled(r, f.claim, f.info)'
      BY <3>4, <3>5 DEF Settled
    <3>8. Announces(r)
      BY <3>2, <3>3, <3>6, <3>7 DEF Announces
    <3> QED BY <1>4, <2>1, <3>8, ToldKept DEF Explained
  <2>3. CASE o # "ok"
    <3>1. Announces(r)
      BY <1>1, <2>3, Silent DEF PublishIf
    <3> QED BY <1>4, <2>1, <3>1, ToldKept DEF Explained
  <2> QED BY <2>2, <2>3
<1>8. Filled(r)'
  <2>1. CASE o = "ok"
    <3>1. \A i \in ClaimNo : i >= idx[r] + 1 =>
             claimRow'[r][i] = NoRow /\ verRow'[r][i] = NoVotes
      BY <1>2, <1>3, <1>4, <1>5 DEF NoRowsFrom, ClaimNo
    <3>2. NoRowsFrom(r, idx[r])'
      BY <1>6, <2>1, <3>1 DEF NoRowsFrom
    <3> QED BY <1>6, <2>1, <3>2 DEF Filled
  <2>2. CASE o # "ok"
    BY <1>6, <2>2 DEF Filled, BeforeLoop
  <2> QED BY <2>1, <2>2
<1>9. Thrifty(r)'
  <2>1. pc'[r] \notin Filling
    BY <1>6 DEF Filling
  <2>2. Broke(r)' => cost'[r] >= Budget
    BY <1>2, <1>3, <1>4 DEF Explained, Thrifty, Broke
  <2>3. \A j \in ClaimNo : j > idx[r] => claimRow[r][j].by # "verifiers"
    BY <1>4, <1>5 DEF NoRowsFrom, NoRow, ClaimNo
  <2>4. \A i, j \in ClaimNo :
           i < j /\ claimRow'[r][i].by = "budget" => claimRow'[r][j].by # "verifiers"
    BY <1>3, <1>4, <2>3 DEF Explained, Thrifty, ClaimNo
  <2> QED BY <2>1, <2>2, <2>4 DEF Thrifty
<1> QED BY <1>7, <1>8, <1>9 DEF Explained

(* The claim the verifiers settled is saved; then nothing was ever given   *)
(* up for lack of budget.                                                  *)
LEMMA SaveClaimExplained ==
    ASSUME TypeOK, InLoop, AllExplained, NEW r \in Runs, SaveClaim(r)
    PROVE  Explained(r)'
<1> DEFINE row == [verdict |-> Reconcile(vote[r]), by |-> "verifiers"]
<1>1. PICK o \in Outcome :
          /\ InsertClaim(r, o, row)
          /\ Proceed(r, o, "save_rows")
          /\ todo' = IF o = "ok" THEN [todo EXCEPT ![r] = Ran(vote[r])] ELSE todo
  BY DEF SaveClaim
<1>2. UNCHANGED <<cost, idx, vote, verRow, log>> /\ pc[r] = "second"
  BY DEF SaveClaim
<1>3. /\ idx[r] \in ClaimNo
      /\ \A i \in ClaimNo :
            claimRow'[r][i] = IF i = idx[r] /\ Applied(o) THEN row ELSE claimRow[r][i]
  BY <1>1, <1>2, InsertedRow DEF InLoop
<1>4. /\ Explained(r) /\ idx[r] \in Int
      /\ \A i \in 1..(idx[r] - 1) : i \in ClaimNo /\ i # idx[r]
  <2>1. PICK x \in 1..MaxClaims : x = idx[r]
    BY <1>3 DEF ClaimNo
  <2>2. \A i \in 1..(x - 1) : i \in 1..MaxClaims /\ i # x
    BY OrchestratorAssumption
  <2> QED BY <2>1, <2>2 DEF AllExplained, ClaimNo
<1>5. NoRowsFrom(r, idx[r]) /\ ~Broke(r)
  BY <1>2, <1>4 DEF Explained, Filled, Thrifty, Filling
<1>6. Told(r)'
  <2>1. KeepsBehind(r)
    BY <1>2, <1>3, <1>4 DEF KeepsBehind
  <2> QED BY <1>2, <1>4, <2>1, Silent, ToldKept DEF Explained
<1>7. ~Broke(r)' /\ Thrifty(r)'
  BY <1>3, <1>5 DEF Broke, Thrifty
<1>8. Filled(r)'
  <2>1. CASE o = "ok"
    <3>1. pc'[r] = "save_rows" /\ todo'[r] = Ran(vote[r])
      BY <1>1, <2>1 DEF Proceed, Goto, TypeOK
    <3>2. NoRowsFrom(r, idx[r] + 1)'
      BY <1>2, <1>3, <1>4, <1>5 DEF NoRowsFrom, ClaimNo
    <3>3. claimRow'[r][idx[r]] = row
      BY <1>3, <2>1 DEF Applied
    <3>4. \A u \in Verifier :
             verRow'[r][idx[r]][u] = IF u \in todo'[r] THEN NoVote ELSE vote[r][u]
      <4>1. verRow[r][idx[r]] = NoVotes
        BY <1>3, <1>4, <1>5 DEF NoRowsFrom
      <4> QED BY <1>2, <3>1, <4>1 DEF Ran, NoVotes
    <3>5. Reconcile(vote[r])' = Reconcile(vote[r])
      BY <1>2
    <3> QED BY <1>2, <3>1, <3>2, <3>3, <3>4, <3>5 DEF Filled, NoRowsFrom, BeforeLoop
  <2>2. CASE o # "ok"
    <3>1. pc'[r] = "abort"
      BY <1>1, <2>2 DEF Proceed, Goto, TypeOK
    <3> QED BY <3>1 DEF Filled, BeforeLoop
  <2> QED BY <2>1, <2>2
<1> QED BY <1>6, <1>7, <1>8 DEF Explained

(* The verification rows are filled in one by one.                         *)
LEMMA SaveVerificationExplained ==
    ASSUME TypeOK, InLoop, AllExplained, NEW r \in Runs, SaveVerification(r)
    PROVE  Explained(r)'
<1>0. PICK u \in todo[r] : \E o \in Outcome :
          /\ verRow' = IF Applied(o)
                       THEN [verRow EXCEPT ![r][idx[r]][u] = vote[r][u]]
                       ELSE verRow
          /\ Proceed(r, o, "save_rows")
          /\ todo' = IF o = "ok" THEN [todo EXCEPT ![r] = @ \ {u}] ELSE todo
  BY DEF SaveVerification
<1>1. PICK o \in Outcome :
          /\ verRow' = IF Applied(o)
                       THEN [verRow EXCEPT ![r][idx[r]][u] = vote[r][u]]
                       ELSE verRow
          /\ Proceed(r, o, "save_rows")
          /\ todo' = IF o = "ok" THEN [todo EXCEPT ![r] = @ \ {u}] ELSE todo
  BY <1>0
<1>2. UNCHANGED <<cost, idx, vote, claimRow, log>> /\ pc[r] = "save_rows"
  BY DEF SaveVerification
<1>3. /\ Explained(r) /\ idx[r] \in ClaimNo /\ idx[r] \in Int
      /\ \A i \in 1..(idx[r] - 1) : i \in ClaimNo /\ i # idx[r]
      /\ u \in Verifier /\ verRow[r] \in [ClaimNo -> Votes]
  BY <1>2, OrchestratorAssumption DEF AllExplained, TypeOK, ClaimNo, InLoop
<1>4. /\ \A i \in ClaimNo : i # idx[r] => verRow'[r][i] = verRow[r][i]
      /\ o = "ok" => \A w \in Verifier :
            verRow'[r][idx[r]][w] = IF w = u THEN vote[r][u] ELSE verRow[r][idx[r]][w]
  BY <1>1, <1>3 DEF Applied, TypeOK, Votes
<1>5. Told(r)'
  <2>1. KeepsBehind(r)
    BY <1>2, <1>3, <1>4 DEF KeepsBehind
  <2> QED BY <1>2, <1>3, <2>1, Silent, ToldKept DEF Explained
<1>6. pc'[r] \in {"save_rows", "abort"}
  BY <1>1 DEF Proceed, Goto, TypeOK
<1>7. Thrifty(r)'
  BY <1>2, <1>3, <1>6 DEF Explained, Thrifty, Broke, Filling
<1>8. Filled(r)'
  <2>1. CASE o = "ok"
    <3>1. pc'[r] = "save_rows" /\ todo'[r] = todo[r] \ {u}
      BY <1>1, <2>1 DEF Proceed, Goto, TypeOK
    <3>2. NoRowsFrom(r, idx[r] + 1)'
      BY <1>2, <1>3, <1>4 DEF Explained, Filled, NoRowsFrom, ClaimNo
    <3>3. \A w \in Verifier :
             verRow'[r][idx[r]][w] = IF w \in todo'[r] THEN NoVote ELSE vote[r][w]
      BY <1>2, <1>3, <1>4, <2>1, <3>1 DEF Explained, Filled
    <3>4. /\ Reconcile(vote[r])' = Reconcile(vote[r])
          /\ claimRow'[r][idx[r]] = [verdict |-> Reconcile(vote[r]), by |-> "verifiers"]
      BY <1>2, <1>3 DEF Explained, Filled
    <3> QED BY <1>2, <3>1, <3>2, <3>3, <3>4 DEF Filled, NoRowsFrom, BeforeLoop
  <2>2. CASE o # "ok"
    <3>1. pc'[r] = "abort"
      BY <1>1, <2>2 DEF Proceed, Goto, TypeOK
    <3> QED BY <3>1 DEF Filled, BeforeLoop
  <2> QED BY <2>1, <2>2
<1> QED BY <1>5, <1>7, <1>8 DEF Explained

(* A claim is announced when all votes behind it are saved.                *)
LEMMA ProbesExplained ==
    ASSUME TypeOK, InLoop, AllExplained, NEW r \in Runs,
           CollectProbes(r) \/ SaveProbe(r)
    PROVE  Explained(r)'
<1>1. PICK v, n : v = Reconcile(vote[r]) /\ n = idx[r]
  OBVIOUS
<1> DEFINE d == Ev("probe.completed", n, NoVote)
           e == Ev("claim.verified", n, v)
<1>2. /\ UNCHANGED <<cost, todo, claimRow, verRow>>
      /\ pc[r] \in {"save_rows", "save_probe"}
  BY DEF CollectProbes, SaveProbe, store, rows
<1>3. /\ Explained(r) /\ n \in ClaimNo /\ idx[r] \in Int
      /\ \A i \in 1..(idx[r] - 1) : i \in ClaimNo
  BY <1>1, <1>2, OrchestratorAssumption DEF AllExplained, TypeOK, ClaimNo, InLoop
<1>4. /\ d \in Event /\ e \in Event
      /\ d.ev # "claim.verified" /\ e.claim = n /\ e.info = v
  BY <1>1, <1>3, ReconcileType, EvType DEF TypeOK, Ev, Vote, ClaimNo
<1>5. todo[r] = {}
  BY <1>3 DEF CollectProbes, SaveProbe, Explained, Filled
<1>6. Settled(r, n, v)
  <2>1. \A u \in Verifier : verRow[r][n][u] = vote[r][u]
    BY <1>1, <1>2, <1>3, <1>5 DEF Explained, Filled
  <2>2. verRow[r][n] = vote[r]
    BY <1>3, <2>1 DEF TypeOK, Votes
  <2> QED BY <1>1, <1>2, <1>3, <2>2 DEF Settled, Explained, Filled
<1>7. Settled(r, n, v)'
  BY <1>2, <1>6 DEF Settled
<1>8. \/ pc'[r] = "claim" /\ idx'[r] = n + 1
      \/ pc'[r] \in {"save_probe", "abort"} /\ UNCHANGED <<idx, vote>>
  BY <1>1 DEF CollectProbes, SaveProbe, Proceed, Goto, FinishClaim, TypeOK
<1>9. \/ UNCHANGED log
      \/ Publish(r, <<d>>)
      \/ pc'[r] = "claim" /\ Publish(r, <<e>>)
      \/ pc'[r] = "claim" /\ Publish(r, <<d>> \o <<e>>)
  <2> HIDE DEF d, e
  <2>1. ClaimVerified(r, v) = e /\ Ev("probe.completed", idx[r], NoVote) = d
    BY <1>1 DEF ClaimVerified, d, e
  <2>2. CASE CollectProbes(r)
    BY <1>1, <2>1, <2>2 DEF CollectProbes, Goto, TypeOK
  <2>3. CASE SaveProbe(r)
    <3>1. PICK o \in Outcome, atEnd \in BOOLEAN :
             /\ Proceed(r, o, IF atEnd THEN "claim" ELSE "save_probe")
             /\ PublishIf(o = "ok", r, <<d>> \o (IF atEnd THEN <<e>> ELSE << >>))
      BY <1>1, <2>1, <2>3 DEF SaveProbe
    <3>2. <<d>> \o << >> = <<d>>
      OBVIOUS
    <3> QED BY <3>1, <3>2 DEF PublishIf, Proceed, Goto, TypeOK
  <2> QED BY <2>2, <2>3
<1>10. Told(r)'
  <2> HIDE DEF d, e
  <2>1. KeepsBehind(r)
    BY <1>1, <1>2, <1>3, <1>8 DEF KeepsBehind
  <2>2. \/ Events(log'[r]) = Events(log[r])
        \/ Events(log'[r]) = Events(log[r]) \cup {d}
        \/ pc'[r] = "claim" /\ Events(log'[r]) \subseteq Events(log[r]) \cup {d, e}
    <3>1. <<d>> \in Seq(Event) /\ <<e>> \in Seq(Event) /\ <<d>> \o <<e>> \in Seq(Event)
      BY <1>4
    <3>2. Events(<<d>> \o <<e>>) \subseteq {d, e}
      BY DEF Events
    <3>3. CASE Publish(r, <<d>>)
      BY <3>1, <3>3, EventsPublished, EventsOfOne
    <3>4. CASE pc'[r] = "claim" /\ Publish(r, <<e>>)
      <4>1. Events(log'[r]) = Events(log[r]) \cup Events(<<e>>)
        BY <3>1, <3>4, EventsPublished
      <4> QED BY <3>4, <4>1, EventsOfOne
    <3>5. CASE pc'[r] = "claim" /\ Publish(r, <<d>> \o <<e>>)
      <4>1. Events(log'[r]) = Events(log[r]) \cup Events(<<d>> \o <<e>>)
        BY <3>1, <3>5, EventsPublished
      <4> QED BY <3>2, <3>5, <4>1
    <3> QED BY <1>9, <3>3, <3>4, <3>5
  <2>3. pc'[r] = "claim" => n \in 1..(idx'[r] - 1)
    BY <1>3, <1>8 DEF ClaimNo
  <2>4. Announces(r)
    BY <1>4, <1>7, <2>2, <2>3 DEF Announces
  <2> QED BY <1>3, <2>1, <2>4, ToldKept DEF Explained
<1>11. Filled(r)'
  <2>1. NoRowsFrom(r, n + 1)
    BY <1>1, <1>2, <1>3 DEF Explained, Filled
  <2>2. NoRowsFrom(r, n + 1)'
    BY <1>2, <2>1 DEF NoRowsFrom
  <2>3. CASE pc'[r] = "claim" /\ idx'[r] = n + 1
    BY <2>2, <2>3 DEF Filled, BeforeLoop
  <2>4. CASE pc'[r] = "save_probe" /\ UNCHANGED <<idx, vote>>
    <3>1. Reconcile(vote[r])' = Reconcile(vote[r])
      BY <2>4
    <3>2. pc[r] \in {"save_rows", "save_probe"} /\ Filled(r)
      BY <1>2, <1>3 DEF Explained
    <3> QED BY <1>1, <1>2, <1>5, <2>2, <2>4, <3>1, <3>2 DEF Filled, BeforeLoop
  <2>5. CASE pc'[r] = "abort"
    BY <2>5 DEF Filled, BeforeLoop
  <2> QED BY <1>8, <2>3, <2>4, <2>5
<1>12. Thrifty(r)'
  <2>1. ~Broke(r) /\ ~Broke(r)'
    BY <1>2, <1>3 DEF Explained, Thrifty, Filling, Broke
  <2> QED BY <1>2, <1>3, <2>1 DEF Explained, Thrifty
<1> QED BY <1>10, <1>11, <1>12 DEF Explained

LEMMA ExplainedStep ==
    TypeOK /\ InLoop /\ AllExplained /\ [Next]_vars => AllExplained'
<1> SUFFICES ASSUME TypeOK, InLoop, AllExplained, [Next]_vars PROVE AllExplained'
  OBVIOUS
<1>1. ASSUME NEW r \in Runs, Accept(r) \/ Step(r) PROVE AllExplained'
  <2>1. Explained(r)'
    <3>1. CASE SaveResolved(r)
      BY <3>1, SettleExplained DEF SaveResolved, AtClaim
    <3>2. CASE SaveBudgetExceeded(r)
      BY <3>2, SettleExplained DEF SaveBudgetExceeded, AtClaim
    <3> QED
      BY <1>1, <3>1, <3>2, AsideExplained, VerifyExplained, SaveClaimExplained,
         SaveVerificationExplained, ProbesExplained DEF Step
  <2> QED BY <1>1, <2>1, OthersExplained DEF AllExplained
<1>2. CASE Crash
  <2>1. UNCHANGED <<idx, vote, todo, cost, claimRow, verRow, log>>
    BY <1>2 DEF Crash, task, store, rows
  <2>2. ASSUME NEW r \in Runs PROVE Explained(r)'
    <3>1. Explained(r)
      BY DEF AllExplained
    <3>2. CASE pc[r] \in Active
      <4>1. pc'[r] = "lost"
        BY <1>2, <3>2 DEF Crash
      <4>2. Told(r)'
        BY <2>1, <3>1 DEF Explained, Told, Settled, Events
      <4>3. Filled(r)'
        BY <4>1 DEF Filled, BeforeLoop
      <4>4. Thrifty(r)'
        BY <2>1, <3>1, <4>1 DEF Explained, Thrifty, Broke, Filling
      <4> QED BY <4>2, <4>3, <4>4 DEF Explained
    <3>3. CASE pc[r] \notin Active
      <4>1. pc'[r] = pc[r]
        BY <1>2, <3>3 DEF Crash
      <4> QED BY <2>1, <3>1, <4>1, ExplainedUntouched
    <3> QED BY <3>2, <3>3
  <2> QED BY <2>2 DEF AllExplained
<1>3. CASE UNCHANGED vars
  <2>1. UNCHANGED <<pc, idx, vote, todo, cost, claimRow, verRow, log>>
    BY <1>3 DEF vars, task, store, rows
  <2> QED BY <2>1, ExplainedUntouched DEF AllExplained
<1> QED BY <1>1, <1>2, <1>3 DEF Next, AllEnded

LEMMA AlwaysExplained == Spec => []AllExplained
<1>1. Init => AllExplained
  <2> SUFFICES ASSUME Init, NEW r \in Runs PROVE Explained(r)
    BY DEF AllExplained
  <2>1. /\ pc[r] = "idle" /\ log[r] = << >>
        /\ \A i \in ClaimNo : claimRow[r][i] = NoRow /\ verRow[r][i] = NoVotes
    BY DEF Init
  <2>2. Told(r)
    BY <2>1 DEF Told, Events
  <2>3. Filled(r)
    BY <2>1 DEF Filled, NoRowsFrom
  <2>4. Thrifty(r)
    BY <2>1 DEF Thrifty, Broke, NoRow
  <2> QED BY <2>2, <2>3, <2>4 DEF Explained
<1> QED BY <1>1, ExplainedStep, TypeCorrect, PTL DEF Spec

(* A claim.verified event on a stream is explained by the tables: the      *)
(* claim's row has the announced verdict, and the votes saved with it are  *)
(* those that reconcile to it, whatever other runs, store faults and       *)
(* crashes do before, between and after.                                   *)
THEOREM VerdictsAreExplained == Spec => []VerifiedIsPersisted
<1>1. AllExplained => VerifiedIsPersisted
  BY DEF AllExplained, Explained, Told, Settled, Events, VerifiedIsPersisted
<1> QED BY <1>1, AlwaysExplained, PTL

(* The budget of a run never frees up: after a claim given up for lack of  *)
(* it the tables show no later claim settled by the verifiers.             *)
THEOREM BudgetNeverFrees == Spec => []BudgetIsFinal
<1>1. AllExplained => BudgetIsFinal
  BY DEF AllExplained, Explained, Thrifty, BudgetIsFinal
<1> QED BY <1>1, AlwaysExplained, PTL

-----------------------------------------------------------------------------
(* How the rows of a run change: one claim after the other, and none that  *)
(* is there ever again.                                                    *)

Explains(r, i) == Reconcile(verRow[r][i]) = claimRow[r][i].verdict

Moves(r) ==
    /\ idx'[r] \in {idx[r], idx[r] + 1}
    /\ idx'[r] # idx[r] => idx[r] <= Len(claims[r])
    /\ \/ claims'[r] = claims[r]
       \/ \A i \in ClaimNo : ~Present(r, i) /\ claimRow'[r][i] = claimRow[r][i]
    /\ \A i \in ClaimNo :
          /\ Present(r, i) => claimRow'[r][i] = claimRow[r][i]
          /\ i # idx[r] => /\ claimRow'[r][i] = claimRow[r][i]
                           /\ verRow'[r][i] = verRow[r][i]
          /\ claimRow'[r][i] # claimRow[r][i] =>
                 i <= Len(claims[r]) /\ claimRow'[r][i].verdict # NoVote
          /\ verRow'[r][i] # verRow[r][i] => Present(r, i)
          /\ i = idx[r] /\ idx'[r] # idx[r] =>
                 /\ claimRow'[r][i].verdict # NoVote
                 /\ Reconcile(verRow'[r][i]) = claimRow'[r][i].verdict

LEMMA StaysPut ==
    ASSUME NEW r \in Runs, idx'[r] = idx[r], claims'[r] = claims[r],
           claimRow'[r] = claimRow[r], verRow'[r] = verRow[r]
    PROVE  Moves(r)
BY DEF Moves

LEMMA AsideMoves ==
    ASSUME TypeOK, RowsMatch, AllExplained, NEW r \in Runs,
           \/ Accept(r) \/ Start(r) \/ CreateRun(r) \/ MarkSkipped(r)
           \/ MarkRunning(r) \/ SaveChunks(r) \/ Decompose(r)
           \/ DecomposeRaises(r) \/ FailDecompose(r) \/ Finalize(r) \/ Abort(r)
           \/ RunEntailment(r) \/ ProberReturns(r) \/ IndependentReturns(r)
    PROVE  Moves(r)
<1>1. UNCHANGED <<idx, claimRow, verRow>>
  BY DEF Accept, Start, CreateRun, MarkSkipped, MarkRunning, SaveChunks,
     Decompose, DecomposeRaises, FailDecompose, Finalize, Abort, RunEntailment,
     EntailmentReturns, ProberReturns, IndependentReturns, task, store, rows
<1>2. CASE Decompose(r)
  <2>1. idx[r] = 1 /\ NoRowsFrom(r, idx[r])
    BY <1>2 DEF Decompose, RowsMatch, Matching, AllExplained, Explained, Filled,
       BeforeLoop
  <2>2. \A i \in ClaimNo : ~Present(r, i)
    BY <2>1 DEF NoRowsFrom, Present, NoRow, ClaimNo
  <2> QED BY <1>1, <2>2 DEF Moves
<1>3. CASE UNCHANGED claims
  BY <1>1, <1>3, StaysPut
<1> QED
  BY <1>2, <1>3
  DEF Accept, Start, CreateRun, MarkSkipped, MarkRunning, SaveChunks,
      DecomposeRaises, FailDecompose, Finalize, Abort, RunEntailment,
      EntailmentReturns, ProberReturns, IndependentReturns, task

LEMMA SettleMoves ==
    ASSUME TypeOK, AllExplained, NEW r \in Runs, pc[r] = "claim",
           idx[r] <= Len(claims[r]), NEW by, SettleUnverified(r, by)
    PROVE  Moves(r)
<1> DEFINE row == [verdict |-> "UNVERIFIABLE", by |-> by]
<1>1. PICK o \in Outcome :
          /\ InsertClaim(r, o, row)
          /\ IF o = "ok" THEN FinishClaim(r, "UNVERIFIABLE")
             ELSE UNCHANGED <<details, idx, vote>>
  BY DEF SettleUnverified
<1>2. UNCHANGED <<claims, verRow>>
  BY DEF SettleUnverified
<1>3. /\ idx[r] \in ClaimNo
      /\ \A i \in ClaimNo :
            claimRow'[r][i] = IF i = idx[r] /\ Applied(o) THEN row ELSE claimRow[r][i]
  BY <1>1, InsertedRow
<1>4. claimRow[r][idx[r]] = NoRow /\ verRow[r][idx[r]] = NoVotes
  <2>1. NoRowsFrom(r, idx[r])
    BY DEF AllExplained, Explained, Filled
  <2>2. idx[r] >= idx[r]
    BY <1>3 DEF ClaimNo
  <2> QED BY <1>3, <2>1, <2>2 DEF NoRowsFrom
<1>5. /\ idx'[r] \in {idx[r], idx[r] + 1}
      /\ idx'[r] # idx[r] => Applied(o)
  BY <1>1 DEF FinishClaim, Applied, TypeOK
<1>6. Reconcile(NoVotes) = "UNVERIFIABLE" /\ row.verdict = "UNVERIFIABLE"
  BY DEF Reconcile, Ran, NoVotes
<1>7. ~Present(r, idx[r]) /\ "UNVERIFIABLE" # NoVote
  BY <1>4 DEF Present, NoRow, NoVote
<1> HIDE DEF row
<1> QED BY <1>2, <1>3, <1>4, <1>5, <1>6, <1>7 DEF Moves

LEMMA SaveClaimMoves ==
    ASSUME TypeOK, InLoop, AllExplained, NEW r \in Runs, SaveClaim(r)
    PROVE  Moves(r)
<1>0. PICK row : row = [verdict |-> Reconcile(vote[r]), by |-> "verifiers"]
  OBVIOUS
<1>1. PICK o \in Outcome : InsertClaim(r, o, row)
  BY <1>0 DEF SaveClaim
<1>2. UNCHANGED <<idx, claims, verRow>> /\ pc[r] = "second" /\ idx[r] <= Len(claims[r])
  BY DEF SaveClaim, InLoop
<1>3. /\ idx[r] \in ClaimNo
      /\ \A i \in ClaimNo :
            claimRow'[r][i] = IF i = idx[r] /\ Applied(o) THEN row ELSE claimRow[r][i]
  BY <1>1, <1>2, InsertedRow
<1>4. ~Present(r, idx[r])
  <2>1. NoRowsFrom(r, idx[r])
    BY <1>2 DEF AllExplained, Explained, Filled
  <2>2. idx[r] >= idx[r]
    BY <1>3 DEF ClaimNo
  <2> QED BY <1>3, <2>1, <2>2 DEF NoRowsFrom, Present, NoRow
<1>5. row.verdict # NoVote
  <2>1. Reconcile(vote[r]) \in Verdict
    BY ReconcileType DEF TypeOK
  <2> QED BY <1>0, <2>1 DEF Verdict, NoVote
<1> QED BY <1>2, <1>3, <1>4, <1>5 DEF Moves

LEMMA SaveVerificationMoves ==
    ASSUME TypeOK, InLoop, AllExplained, NEW r \in Runs, SaveVerification(r)
    PROVE  /\ Moves(r)
           /\ \A i \in ClaimNo :
                 verRow[r][i]["prober"] # NoVote => verRow'[r][i]["prober"] # NoVote
<1>0. PICK u \in todo[r] : \E o \in Outcome :
          verRow' = IF Applied(o)
                    THEN [verRow EXCEPT ![r][idx[r]][u] = vote[r][u]]
                    ELSE verRow
  BY DEF SaveVerification
<1>1. PICK o \in Outcome :
          verRow' = IF Applied(o)
                    THEN [verRow EXCEPT ![r][idx[r]][u] = vote[r][u]]
                    ELSE verRow
  BY <1>0
<1>2. UNCHANGED <<idx, claims, claimRow>> /\ pc[r] = "save_rows"
  BY DEF SaveVerification
<1>3. /\ Explained(r) /\ idx[r] \in ClaimNo
      /\ u \in Verifier /\ verRow[r] \in [ClaimNo -> Votes] /\ vote[r] \in Votes
  BY <1>2, OrchestratorAssumption DEF AllExplained, TypeOK, ClaimNo, InLoop
<1>4. /\ \A i \in ClaimNo : i # idx[r] => verRow'[r][i] = verRow[r][i]
      /\ \A w \in Verifier : w # u => verRow'[r][idx[r]][w] = verRow[r][idx[r]][w]
  BY <1>1, <1>3 DEF TypeOK, Votes
<1>5. Present(r, idx[r])
  <2>1. claimRow[r][idx[r]].verdict = Reconcile(vote[r])
    BY <1>2, <1>3 DEF Explained, Filled
  <2> QED BY <1>3, <2>1, ReconcileType DEF Present, Verdict, NoVote
<1>6. Moves(r)
  BY <1>2, <1>3, <1>4, <1>5 DEF Moves
<1>7. verRow[r][idx[r]][u] = NoVote
  BY <1>2, <1>3 DEF Explained, Filled
<1>8. "prober" \in Verifier
  BY DEF Verifier
<1> QED BY <1>4, <1>6, <1>7, <1>8

LEMMA ProbesMove ==
    ASSUME TypeOK, InLoop, AllExplained, NEW r \in Runs,
           CollectProbes(r) \/ SaveProbe(r)
    PROVE  Moves(r)
<1>1. /\ UNCHANGED <<claims, claimRow, verRow>>
      /\ pc[r] \in {"save_rows", "save_probe"} /\ idx[r] <= Len(claims[r])
  BY DEF CollectProbes, SaveProbe, store, rows, InLoop
<1>2. idx'[r] \in {idx[r], idx[r] + 1}
  BY DEF CollectProbes, SaveProbe, FinishClaim, TypeOK
<1>3. Explained(r) /\ idx[r] \in ClaimNo /\ vote[r] \in Votes
  BY <1>1, OrchestratorAssumption DEF AllExplained, TypeOK, ClaimNo, InLoop
<1>4. todo[r] = {}
  BY <1>3 DEF CollectProbes, SaveProbe, Explained, Filled
<1>5. verRow[r][idx[r]] = vote[r]
  <2>1. \A u \in Verifier : verRow[r][idx[r]][u] = vote[r][u]
    BY <1>1, <1>3, <1>4 DEF Explained, Filled
  <2> QED BY <1>3, <2>1 DEF TypeOK, Votes
<1>6. claimRow[r][idx[r]].verdict = Reconcile(vote[r])
  BY <1>1, <1>3 DEF Explained, Filled
<1>7. Reconcile(vote[r]) # NoVote
  BY <1>3, ReconcileType DEF Verdict, NoVote
<1> QED BY <1>1, <1>2, <1>3, <1>5, <1>6, <1>7 DEF Moves

LEMMA RowsMove ==
    ASSUME TypeOK, InLoop, RowsMatch, AllExplained, [Next]_vars
    PROVE  \A r \in Runs : Moves(r)
<1>1. ASSUME NEW r \in Runs, Accept(r) \/ Step(r) PROVE Moves(r)
  <2>1. CASE SaveResolved(r)
    BY <2>1, SettleMoves DEF SaveResolved, AtClaim
  <2>2. CASE SaveBudgetExceeded(r)
    BY <2>2, SettleMoves DEF SaveBudgetExceeded, AtClaim
  <2> QED
    BY <1>1, <2>1, <2>2, AsideMoves, SaveClaimMoves, SaveVerificationMoves,
       ProbesMove DEF Step
<1>2. ASSUME NEW r \in Runs, Accept(r) \/ Step(r), NEW q \in Runs \ {r}
      PROVE  Moves(q)
  BY <1>2, OthersAlone, StaysPut
<1>3. CASE Crash \/ UNCHANGED vars
  <2>1. UNCHANGED <<idx, claims, claimRow, verRow>>
    BY <1>3 DEF Crash, vars, task, store, rows
  <2> QED BY <2>1, StaysPut
<1> QED BY <1>1, <1>2, <1>3 DEF Next, AllEnded

(* Behind the index every claim has its row and the votes that explain it; *)
(* beyond it there is nothing.                                             *)
Ordered(r) ==
    /\ \A i \in ClaimNo : i < idx[r] => Present(r, i) /\ Explains(r, i)
    /\ \A i \in ClaimNo : i > idx[r] => ~Present(r, i)
    /\ \A i \in ClaimNo : ~Present(r, i) => verRow[r][i] = NoVotes
    /\ \A i \in ClaimNo : Present(r, i) => i <= Len(claims[r])

LEMMA OrderedStep ==
    ASSUME TypeOK, NEW r \in Runs, Ordered(r), Moves(r) PROVE Ordered(r)'
<1>1. PICK n \in Nat, m \in Nat : n = idx[r] /\ m = idx'[r] /\ m \in {n, n + 1}
  BY DEF TypeOK, Moves
<1>2. \A i \in ClaimNo : i \in Nat
  BY DEF ClaimNo
<1>3. ASSUME NEW i \in ClaimNo, i < m PROVE (Present(r, i) /\ Explains(r, i))'
  <2>1. CASE i = n
    BY <1>1, <1>3, <2>1 DEF Moves, Present, Explains
  <2>2. CASE i # n
    <3>1. i < n
      BY <1>1, <1>2, <1>3, <2>2
    <3> QED BY <1>1, <2>2, <3>1 DEF Moves, Ordered, Present, Explains
  <2> QED BY <2>1, <2>2
<1>4. ASSUME NEW i \in ClaimNo, i > m PROVE ~Present(r, i)'
  <2>1. i > n
    BY <1>1, <1>2, <1>4
  <2> QED BY <1>1, <1>2, <2>1 DEF Moves, Ordered, Present
<1>5. ASSUME NEW i \in ClaimNo, ~Present(r, i)' PROVE verRow'[r][i] = NoVotes
  <2>1. ~Present(r, i)
    BY <1>5 DEF Moves, Present
  <2> QED BY <2>1 DEF Moves, Ordered
<1>6. ASSUME NEW i \in ClaimNo, Present(r, i)' PROVE i <= Len(claims'[r])
  BY <1>6 DEF Moves, Ordered, Present
<1> QED BY <1>1, <1>3, <1>4, <1>5, <1>6 DEF Ordered, Present

LEMMA AlwaysOrdered ==
    Spec => [](TypeOK /\ InLoop /\ RowsMatch /\ AllExplained /\ \A r \in Runs : Ordered(r))
<1> DEFINE AllOrdered == \A r \in Runs : Ordered(r)
<1>1. Init => AllOrdered
  <2> SUFFICES ASSUME Init, NEW r \in Runs PROVE Ordered(r)
    OBVIOUS
  <2>1. /\ idx[r] = 1
        /\ \A i \in ClaimNo : claimRow[r][i] = NoRow /\ verRow[r][i] = NoVotes
    BY DEF Init
  <2>2. \A i \in ClaimNo : ~Present(r, i) /\ ~(i < 1)
    BY <2>1 DEF Present, NoRow, ClaimNo
  <2> QED BY <2>1, <2>2 DEF Ordered
<1>2. TypeOK /\ InLoop /\ RowsMatch /\ AllExplained /\ AllOrdered /\ [Next]_vars
         => AllOrdered'
  <2> SUFFICES ASSUME TypeOK, InLoop, RowsMatch, AllExplained, AllOrdered, [Next]_vars,
                      NEW r \in Runs
               PROVE  Ordered(r)'
    OBVIOUS
  <2>1. Moves(r)
    BY RowsMove
  <2> QED BY <2>1, OrderedStep
<1> HIDE DEF AllOrdered
<1>3. Spec => []AllOrdered
  BY <1>1, <1>2, TypeCorrect, AlwaysMatching, AlwaysExplained, PTL DEF Spec
<1>4. Spec => [](TypeOK /\ InLoop /\ RowsMatch /\ AllExplained /\ AllOrdered)
  BY <1>3, TypeCorrect, AlwaysMatching, AlwaysExplained, PTL
<1> QED BY <1>4 DEF AllOrdered

-----------------------------------------------------------------------------
(* The shared prober.  Another run may save the probes a run's own prober  *)
(* call has left, but only once that call has judged the claim.            *)

(* The prober's verification of p's claim is saved, or the run is still at *)
(* the claim and has the prober's vote.                                    *)
Judged(p) ==
    \/ verRow[p.run][p.claim]["prober"] # NoVote
    \/ p.claim = idx[p.run] /\ vote[p.run]["prober"] # NoVote

(* A saved probe has its claim; if the verification is missing, another    *)
(* run that uses the prober has saved it.                                  *)
Filed(p) ==
    /\ Judged(p)
    /\ Present(p.run, p.claim)
    /\ \/ verRow[p.run][p.claim]["prober"] # NoVote
       \/ \E q \in Runs \ {p.run} : config[q].prober

(* The prober votes between the first pass and the end of the claim, and   *)
(* only if it is enabled.                                                  *)
Voting(r) ==
    /\ pc[r] \in BeforeLoop \cup {"claim"} => vote[r]["prober"] = NoVote
    /\ pc[r] = "second" /\ "prober" \in todo[r] =>
           config[r].prober /\ vote[r]["prober"] = NoVote
    /\ vote[r]["prober"] # NoVote => config[r].prober
    /\ pc[r] = "save_probe" => vote[r]["prober"] # NoVote

(* A probe in memory: left in the prober, or waiting to be saved.          *)
Held(p) ==
    \/ \E k \in DOMAIN lastProbes : lastProbes[k] = p
    \/ \E r \in Runs : \E k \in DOMAIN probeQ[r] : probeQ[r][k] = p

ProbesJudged ==
    /\ \A r \in Runs : Voting(r)
    /\ \A p \in Probe : Held(p) => Judged(p)
    /\ \A p \in probeRows : Filed(p)

(* What a step leaves of what was judged in a run.                         *)
Keeps(r) ==
    /\ Voting(r)'
    /\ config'[r] = config[r]
    /\ \A i \in ClaimNo :
          /\ verRow[r][i]["prober"] # NoVote => verRow'[r][i]["prober"] # NoVote
          /\ Present(r, i) => Present(r, i)'
    /\ vote[r]["prober"] # NoVote =>
          \/ idx'[r] = idx[r] /\ vote'[r]["prober"] # NoVote
          \/ verRow'[r][idx[r]]["prober"] # NoVote

LEMMA NoProberVote == NoVotes["prober"] = NoVote
BY DEF NoVotes, Verifier

LEMMA JudgedKept ==
    ASSUME NEW p \in Probe, Judged(p), Keeps(p.run) PROVE Judged(p)'
BY DEF Judged, Keeps, Probe

LEMMA FiledKept ==
    ASSUME NEW p \in Probe, Filed(p), \A r \in Runs : Keeps(r) PROVE Filed(p)'
<1>1. p.run \in Runs /\ p.claim \in ClaimNo
  BY DEF Probe
<1>2. Judged(p)'
  BY <1>1, JudgedKept DEF Filed
<1>3. Present(p.run, p.claim)'
  BY <1>1 DEF Filed, Keeps
<1>4. verRow[p.run][p.claim]["prober"] # NoVote =>
          verRow'[p.run][p.claim]["prober"] # NoVote
  BY <1>1 DEF Keeps
<1>5. ASSUME NEW q \in Runs \ {p.run}, config[q].prober PROVE config'[q].prober
  BY <1>5 DEF Keeps
<1> QED BY <1>2, <1>3, <1>4, <1>5 DEF Filed

(* A run none of whose variables changed.                                  *)
LEMMA KeepsUntouched ==
    ASSUME NEW r \in Runs, Voting(r), pc'[r] = pc[r] \/ pc'[r] = "lost",
           idx'[r] = idx[r], vote'[r] = vote[r], todo'[r] = todo[r],
           config'[r] = config[r], verRow'[r] = verRow[r], claimRow'[r] = claimRow[r]
    PROVE  Keeps(r)
<1>1. "lost" \notin BeforeLoop \cup {"claim", "second", "save_probe"}
  BY DEF BeforeLoop
<1> QED BY <1>1 DEF Keeps, Voting, Present

LEMMA SetupKeeps ==
    ASSUME TypeOK, NEW r \in Runs, Voting(r),
           \/ Accept(r) \/ Start(r) \/ CreateRun(r) \/ MarkSkipped(r)
           \/ MarkRunning(r) \/ SaveChunks(r) \/ Decompose(r)
           \/ DecomposeRaises(r) \/ FailDecompose(r) \/ Finalize(r) \/ Abort(r)
    PROVE  Keeps(r)
<1>1. UNCHANGED <<vote, idx, config, claimRow, verRow>>
  BY DEF Accept, Start, CreateRun, MarkSkipped, MarkRunning, SaveChunks,
     Decompose, DecomposeRaises, FailDecompose, Finalize, Abort, task, store, rows
<1>2. /\ pc'[r] \notin {"second", "save_probe"}
      /\ pc'[r] \in BeforeLoop \cup {"claim"} => pc[r] \in BeforeLoop \cup {"claim"}
  <2>1. CASE \/ Accept(r) \/ Start(r) \/ Decompose(r) \/ DecomposeRaises(r)
             \/ Abort(r) \/ FailDecompose(r)
    BY <2>1 DEF Accept, Start, Decompose, DecomposeRaises, Abort, FailDecompose,
       Goto, TypeOK, BeforeLoop
  <2>2. CASE \/ CreateRun(r) \/ MarkSkipped(r) \/ MarkRunning(r)
             \/ SaveChunks(r) \/ Finalize(r)
    BY <2>2 DEF CreateRun, MarkSkipped, MarkRunning, SaveChunks, Finalize,
       Proceed, Goto, TypeOK, BeforeLoop
  <2> QED BY <2>1, <2>2
<1> QED BY <1>1, <1>2 DEF Keeps, Voting, Present

LEMMA SettleKeeps ==
    ASSUME TypeOK, NEW r \in Runs, Voting(r), Moves(r), pc[r] = "claim",
           NEW by, SettleUnverified(r, by)
    PROVE  Keeps(r)
<1>1. UNCHANGED <<config, verRow>>
  BY DEF SettleUnverified
<1>2. pc'[r] \in {"claim", "abort"}
  BY DEF SettleUnverified, Proceed, Goto, TypeOK
<1>3. vote[r]["prober"] = NoVote
  BY DEF Voting
<1>4. vote'[r] = NoVotes \/ vote'[r] = vote[r]
  BY DEF SettleUnverified, FinishClaim, TypeOK
<1>5. vote'[r]["prober"] = NoVote
  BY <1>3, <1>4, NoProberVote
<1>6. \A i \in ClaimNo : Present(r, i) => Present(r, i)'
  BY DEF Moves, Present
<1> QED BY <1>1, <1>2, <1>3, <1>5, <1>6 DEF Keeps, Voting

LEMMA EntailmentKeeps ==
    ASSUME TypeOK, NEW r \in Runs, Voting(r), RunEntailment(r)
    PROVE  Keeps(r)
<1>1. /\ UNCHANGED <<idx, config, claimRow, verRow>>
      /\ pc[r] = "claim" /\ pc'[r] = "second"
      /\ "prober" \in todo'[r] => config[r]["prober"]
  BY DEF RunEntailment, EntailmentReturns, AtClaim, Goto, store, rows, TypeOK
<1>2. vote'[r]["prober"] = vote[r]["prober"]
  BY DEF RunEntailment, EntailmentReturns, TypeOK, Votes
<1>3. vote[r]["prober"] = NoVote
  BY <1>1 DEF Voting
<1>4. Voting(r)'
  BY <1>1, <1>2, <1>3 DEF Voting, BeforeLoop
<1> QED BY <1>1, <1>3, <1>4 DEF Keeps, Present

LEMMA ProberKeeps ==
    ASSUME TypeOK, NEW r \in Runs, Voting(r), ProberReturns(r)
    PROVE  Keeps(r)
<1>1. /\ UNCHANGED <<pc, idx, config, claimRow, verRow>>
      /\ pc[r] = "second" /\ "prober" \in todo[r] /\ "prober" \notin todo'[r]
  BY DEF ProberReturns, store, rows, TypeOK
<1>2. config[r].prober /\ vote[r]["prober"] = NoVote
  BY <1>1 DEF Voting
<1> QED BY <1>1, <1>2 DEF Keeps, Voting, Present, BeforeLoop

LEMMA SaveKeeps ==
    ASSUME TypeOK, InLoop, AllExplained, NEW r \in Runs, Voting(r), Moves(r),
           \/ IndependentReturns(r) \/ SaveClaim(r) \/ SaveVerification(r)
    PROVE  Keeps(r)
<1>1. UNCHANGED <<idx, config>>
  BY DEF IndependentReturns, SaveClaim, SaveVerification
<1>2. vote'[r]["prober"] = vote[r]["prober"]
  <2>1. CASE IndependentReturns(r)
    <3>1. PICK v : vote' = [vote EXCEPT ![r]["independent"] = v]
      BY <2>1 DEF IndependentReturns
    <3> QED BY <3>1 DEF TypeOK, Votes, Verifier
  <2>2. CASE UNCHANGED vote
    BY <2>2
  <2> QED BY <2>1, <2>2 DEF SaveClaim, SaveVerification
<1>3. /\ pc'[r] \notin BeforeLoop \cup {"claim", "save_probe"}
      /\ pc'[r] = "second" => pc[r] = "second" /\ todo'[r] \subseteq todo[r]
  BY DEF IndependentReturns, SaveClaim, SaveVerification, Proceed, Goto, TypeOK,
     BeforeLoop
<1>4. \A i \in ClaimNo :
          verRow[r][i]["prober"] # NoVote => verRow'[r][i]["prober"] # NoVote
  BY SaveVerificationMoves DEF IndependentReturns, SaveClaim, store, rows
<1>5. \A i \in ClaimNo : Present(r, i) => Present(r, i)'
  BY DEF Moves, Present
<1> QED BY <1>1, <1>2, <1>3, <1>4, <1>5 DEF Keeps, Voting

(* Once probes are collected all verifications of the claim are saved.     *)
LEMMA VerificationSaved ==
    ASSUME AllExplained, NEW r \in Runs,
           \/ pc[r] = "save_probe"
           \/ pc[r] = "save_rows" /\ todo[r] = {}
    PROVE  verRow[r][idx[r]]["prober"] = vote[r]["prober"]
<1>1. Filled(r)
  BY DEF AllExplained, Explained
<1> QED BY <1>1 DEF Filled, Verifier

LEMMA QueueIs ==
    ASSUME NEW S, NEW s \in Seq(S), s # << >>
    PROVE  /\ 1 \in DOMAIN s /\ Head(s) = s[1]
           /\ \A k \in DOMAIN Tail(s) : k + 1 \in DOMAIN s /\ Tail(s)[k] = s[k + 1]
OBVIOUS

LEMMA CollectKeeps ==
    ASSUME TypeOK, AllExplained, NEW r \in Runs, Voting(r), CollectProbes(r)
    PROVE  Keeps(r)
<1>1. PICK ps \in {lastProbes, << >>} :
          /\ vote[r]["prober"] = NoVote => ps = << >>
          /\ IF ps = << >>
             THEN /\ FinishClaim(r, Reconcile(vote[r]))
                  /\ Goto(r, "claim")
             ELSE /\ Goto(r, "save_probe")
                  /\ UNCHANGED <<details, idx, vote>>
  BY DEF CollectProbes
<1>2. UNCHANGED <<config, claimRow, verRow>> /\ pc[r] = "save_rows" /\ todo[r] = {}
  BY DEF CollectProbes, store, rows
<1>3. verRow[r][idx[r]]["prober"] = vote[r]["prober"]
  BY <1>2, VerificationSaved
<1>4. CASE ps = << >>
  <2>1. vote'[r] = NoVotes /\ pc'[r] = "claim"
    BY <1>1, <1>4 DEF FinishClaim, Goto, TypeOK
  <2> QED BY <1>2, <1>3, <2>1, NoProberVote DEF Keeps, Voting, Present
<1>5. CASE ps # << >>
  <2>1. /\ pc'[r] = "save_probe" /\ UNCHANGED <<idx, vote>>
        /\ vote[r]["prober"] # NoVote
    BY <1>1, <1>5 DEF Goto, TypeOK
  <2> QED BY <1>2, <2>1 DEF Keeps, Voting, Present, BeforeLoop
<1> QED BY <1>4, <1>5

LEMMA SaveProbeKeeps ==
    ASSUME TypeOK, AllExplained, NEW r \in Runs, Voting(r), SaveProbe(r)
    PROVE  Keeps(r)
<1>1. PICK o \in Outcome, atEnd \in BOOLEAN :
          /\ Proceed(r, o, IF atEnd THEN "claim" ELSE "save_probe")
          /\ IF o = "ok" /\ atEnd THEN FinishClaim(r, Reconcile(vote[r]))
             ELSE UNCHANGED <<details, idx, vote>>
  BY DEF SaveProbe
<1>2. UNCHANGED <<config, claimRow, verRow>> /\ pc[r] = "save_probe"
  BY DEF SaveProbe
<1>3. verRow[r][idx[r]]["prober"] = vote[r]["prober"] /\ vote[r]["prober"] # NoVote
  BY <1>2, VerificationSaved DEF Voting
<1>4. CASE o = "ok" /\ atEnd
  <2>1. vote'[r] = NoVotes /\ pc'[r] = "claim"
    BY <1>1, <1>4 DEF FinishClaim, Proceed, Goto, TypeOK
  <2> QED BY <1>2, <1>3, <2>1, NoProberVote DEF Keeps, Voting, Present
<1>5. CASE ~(o = "ok" /\ atEnd)
  <2>1. pc'[r] \in {"save_probe", "abort"} /\ UNCHANGED <<idx, vote>>
    BY <1>1, <1>5 DEF Proceed, Goto, TypeOK
  <2> QED BY <1>2, <1>3, <2>1 DEF Keeps, Voting, Present, BeforeLoop
<1> QED BY <1>4, <1>5

LEMMA AllKeep ==
    ASSUME TypeOK, InLoop, RowsMatch, AllExplained, ProbesJudged, [Next]_vars
    PROVE  \A r \in Runs : Keeps(r)
<1>1. \A r \in Runs : Voting(r) /\ Moves(r)
  BY RowsMove DEF ProbesJudged
<1>2. ASSUME NEW r \in Runs, Accept(r) \/ Step(r) PROVE Keeps(r)
  <2>1. CASE SaveResolved(r)
    BY <1>1, <2>1, SettleKeeps DEF SaveResolved, AtClaim
  <2>2. CASE SaveBudgetExceeded(r)
    BY <1>1, <2>2, SettleKeeps DEF SaveBudgetExceeded, AtClaim
  <2> QED
    BY <1>1, <1>2, <2>1, <2>2, SetupKeeps, EntailmentKeeps, ProberKeeps,
       SaveKeeps, CollectKeeps, SaveProbeKeeps DEF Step
<1>3. ASSUME NEW r \in Runs, Accept(r) \/ Step(r), NEW q \in Runs \ {r}
      PROVE  Keeps(q)
  BY <1>1, <1>3, OthersAlone, KeepsUntouched
<1>4. CASE Crash \/ UNCHANGED vars
  <2>1. UNCHANGED <<idx, vote, todo, config, verRow, claimRow>>
    BY <1>4 DEF Crash, vars, task, store, rows
  <2>2. \A r \in Runs : pc'[r] = pc[r] \/ pc'[r] = "lost"
    BY <1>4 DEF Crash, vars
  <2> QED BY <1>1, <2>1, <2>2, KeepsUntouched
<1> QED BY <1>2, <1>3, <1>4 DEF Next, AllEnded

(* What a step of run r does to the probes in memory and in the table.     *)
LEMMA ProbesChange ==
    ASSUME TypeOK, InLoop, NEW r \in Runs, Accept(r) \/ Step(r)
    PROVE  /\ \/ lastProbes' = lastProbes
              \/ /\ ProberReturns(r) /\ vote'[r]["prober"] # NoVote /\ idx'[r] = idx[r]
                 /\ \A k \in DOMAIN lastProbes' :
                       lastProbes'[k].run = r /\ lastProbes'[k].claim = idx[r]
           /\ \A q \in Runs : \A k \in DOMAIN probeQ'[q] :
                 \/ \E j \in DOMAIN probeQ[q] : probeQ'[q][k] = probeQ[q][j]
                 \/ \E j \in DOMAIN lastProbes : probeQ'[q][k] = lastProbes[j]
           /\ probeRows \subseteq probeRows'
           /\ \A p \in probeRows' \ probeRows :
                 /\ pc[r] = "save_probe" /\ p = Head(probeQ[r])
                 /\ \E j \in DOMAIN probeQ[r] : p = probeQ[r][j]
                 /\ Present(p.run, p.claim)
<1>1. CASE ProberReturns(r)
  <2>1. PICK o \in ProberOutcomes :
            /\ vote' = [vote EXCEPT ![r]["prober"] = o.vote]
            /\ lastProbes' =
                   IF o.vote = NoVote THEN lastProbes
                   ELSE [k \in 1..o.probes |->
                            [run |-> r, claim |-> idx[r], no |-> k]]
    BY <1>1 DEF ProberReturns
  <2>2. vote'[r]["prober"] = o.vote
    BY <2>1 DEF TypeOK, Votes, Verifier
  <2>3. UNCHANGED <<idx, probeQ, probeRows>>
    BY <1>1 DEF ProberReturns, store, rows
  <2>4. CASE o.vote = NoVote
    BY <2>1, <2>3, <2>4
  <2>5. CASE o.vote # NoVote
    BY <1>1, <2>1, <2>2, <2>3, <2>5
  <2> QED BY <2>4, <2>5
<1>2. CASE CollectProbes(r)
  <2>1. UNCHANGED <<lastProbes, probeRows>>
    BY <1>2 DEF CollectProbes, store, rows
  <2>2. probeQ' = probeQ \/ probeQ' = [probeQ EXCEPT ![r] = lastProbes]
    BY <1>2 DEF CollectProbes
  <2>3. \A q \in Runs : probeQ'[q] = probeQ[q] \/ probeQ'[q] = lastProbes
    BY <2>2 DEF TypeOK
  <2> QED BY <2>1, <2>3
<1>3. CASE SaveProbe(r)
  <2>1. PICK s \in Seq(Probe) : s = probeQ[r]
    BY DEF TypeOK
  <2>2. PICK o \in Outcome :
            /\ Refused(Head(s)) => o = "failed"
            /\ probeRows' = IF Applied(o) THEN probeRows \cup {Head(s)} ELSE probeRows
            /\ probeQ' = IF o = "ok" THEN [probeQ EXCEPT ![r] = Tail(@)] ELSE probeQ
    BY <1>3, <2>1 DEF SaveProbe
  <2>3. UNCHANGED lastProbes /\ pc[r] = "save_probe" /\ s # << >>
    BY <1>3, <2>1 DEF SaveProbe, InLoop
  <2>4. \A q \in Runs : probeQ'[q] = probeQ[q] \/ (q = r /\ probeQ'[q] = Tail(s))
    BY <2>1, <2>2 DEF TypeOK
  <2>5. \A q \in Runs : \A k \in DOMAIN probeQ'[q] :
            \E j \in DOMAIN probeQ[q] : probeQ'[q][k] = probeQ[q][j]
    <3> SUFFICES ASSUME NEW q \in Runs, NEW k \in DOMAIN probeQ'[q]
                 PROVE  \E j \in DOMAIN probeQ[q] : probeQ'[q][k] = probeQ[q][j]
      OBVIOUS
    <3>1. CASE probeQ'[q] = probeQ[q]
      BY <3>1
    <3>2. CASE q = r /\ probeQ'[q] = Tail(s)
      BY <2>1, <2>3, <3>2, QueueIs
    <3> QED BY <2>4, <3>1, <3>2
  <2>6. ASSUME NEW p \in probeRows' \ probeRows
        PROVE  /\ p = Head(s) /\ \E j \in DOMAIN s : p = s[j]
               /\ Present(p.run, p.claim)
    <3>1. Applied(o) /\ p = Head(s)
      BY <2>2, <2>6
    <3>2. ~Refused(p)
      BY <2>2, <3>1 DEF Applied
    <3> QED BY <2>3, <3>1, <3>2, QueueIs DEF Refused, Present
  <2>7. probeRows \subseteq probeRows'
    BY <2>2
  <2> QED BY <2>1, <2>3, <2>5, <2>6, <2>7
<1>4. CASE ~(ProberReturns(r) \/ CollectProbes(r) \/ SaveProbe(r))
  <2>1. UNCHANGED <<lastProbes, probeQ, probeRows>>
    BY <1>4
    DEF Accept, Step, Start, CreateRun, MarkSkipped, MarkRunning, SaveChunks,
        Decompose, DecomposeRaises, FailDecompose, SaveResolved,
        SaveBudgetExceeded, SettleUnverified, RunEntailment, EntailmentReturns,
        IndependentReturns, SaveClaim, SaveVerification, Finalize, Abort,
        task, store, rows
  <2> QED BY <2>1
<1> QED BY <1>1, <1>2, <1>3, <1>4

LEMMA HeldChange ==
    ASSUME TypeOK, InLoop, NEW r \in Runs, Accept(r) \/ Step(r),
           NEW p \in Probe, Held(p)'
    PROVE  \/ Held(p)
           \/ /\ p.run = r /\ p.claim = idx[r]
              /\ vote'[r]["prober"] # NoVote /\ idx'[r] = idx[r]
<1>1. CASE \E k \in DOMAIN lastProbes' : lastProbes'[k] = p
  BY <1>1, ProbesChange DEF Held
<1>2. ASSUME NEW q \in Runs, NEW k \in DOMAIN probeQ'[q], probeQ'[q][k] = p
      PROVE  Held(p)
  <2>1. \/ \E j \in DOMAIN probeQ[q] : probeQ'[q][k] = probeQ[q][j]
        \/ \E j \in DOMAIN lastProbes : probeQ'[q][k] = lastProbes[j]
    BY ProbesChange
  <2> QED BY <1>2, <2>1 DEF Held
<1> QED BY <1>1, <1>2 DEF Held

LEMMA JudgedStep ==
    TypeOK /\ InLoop /\ RowsMatch /\ AllExplained /\ ProbesJudged /\ [Next]_vars
        => ProbesJudged'
<1> SUFFICES ASSUME TypeOK, InLoop, RowsMatch, AllExplained, ProbesJudged, [Next]_vars
             PROVE  ProbesJudged'
  OBVIOUS
<1>1. \A r \in Runs : Keeps(r)
  BY AllKeep
<1>2. probeRows \subseteq Probe /\ \A p \in Probe : p.run \in Runs /\ p.claim \in ClaimNo
  BY DEF TypeOK, Probe
<1>3. ASSUME NEW p \in Probe, Judged(p) PROVE Judged(p)'
  BY <1>1, <1>2, <1>3, JudgedKept
<1>4. ASSUME NEW p \in probeRows PROVE Filed(p)'
  BY <1>1, <1>2, <1>4, FiledKept DEF ProbesJudged
<1>5. \A r \in Runs : Voting(r)'
  BY <1>1 DEF Keeps
<1>6. ASSUME NEW r \in Runs, Accept(r) \/ Step(r) PROVE ProbesJudged'
  <2>1. ASSUME NEW p \in Probe, Held(p)' PROVE Judged(p)'
    <3>1. CASE Held(p)
      BY <1>3, <3>1 DEF ProbesJudged
    <3>2. CASE ~Held(p)
      BY <1>6, <2>1, <3>2, HeldChange DEF Judged
    <3> QED BY <3>1, <3>2
  <2>2. ASSUME NEW p \in probeRows', p \notin probeRows PROVE Filed(p)'
    <3>1. /\ pc[r] = "save_probe" /\ Present(p.run, p.claim)
          /\ \E j \in DOMAIN probeQ[r] : p = probeQ[r][j]
      BY <1>6, <2>2, ProbesChange
    <3>2. p \in Probe /\ Held(p)
      <4>1. probeQ[r] \in Seq(Probe)
        BY DEF TypeOK
      <4> QED BY <3>1, <4>1 DEF Held
    <3>3. Judged(p) /\ p.run \in Runs /\ p.claim \in ClaimNo
      BY <1>2, <3>2 DEF ProbesJudged
    <3>4. Judged(p)' /\ Present(p.run, p.claim)'
      BY <1>1, <1>3, <3>1, <3>2, <3>3 DEF Keeps
    <3>5. Voting(r)
      BY DEF ProbesJudged
    <3>6. CASE p.run = r
      <4>1. verRow[r][p.claim]["prober"] # NoVote
        BY <3>1, <3>3, <3>6, VerificationSaved DEF Judged
      <4>2. verRow'[r][p.claim]["prober"] # NoVote
        BY <1>1, <3>3, <4>1 DEF Keeps
      <4> QED BY <3>4, <3>6, <4>2 DEF Filed
    <3>7. CASE p.run # r
      <4>1. config'[r].prober
        BY <1>1, <3>1, <3>5 DEF Voting, Keeps
      <4> QED BY <3>4, <3>7, <4>1 DEF Filed
    <3> QED BY <3>6, <3>7
  <2> QED BY <1>4, <1>5, <2>1, <2>2 DEF ProbesJudged
<1>7. CASE Crash \/ UNCHANGED vars
  <2>1. /\ lastProbes' = lastProbes \/ lastProbes' = << >>
        /\ UNCHANGED <<probeQ, probeRows>>
    BY <1>7 DEF Crash, vars, task, store, rows
  <2>2. \A p \in Probe : Held(p)' => Held(p)
    BY <2>1 DEF Held
  <2>3. \A p \in Probe : Held(p)' => Judged(p)'
    BY <1>3, <2>2 DEF ProbesJudged
  <2> QED BY <1>4, <1>5, <2>1, <2>3 DEF ProbesJudged
<1> QED BY <1>6, <1>7 DEF Next, AllEnded

LEMMA AlwaysJudged == Spec => []ProbesJudged
<1>1. Init => ProbesJudged
  <2> SUFFICES ASSUME Init PROVE ProbesJudged
    OBVIOUS
  <2>1. lastProbes = << >> /\ probeRows = {} /\ \A r \in Runs : probeQ[r] = << >>
    BY DEF Init
  <2>2. ASSUME NEW r \in Runs PROVE Voting(r)
    <3>1. pc[r] = "idle" /\ vote[r] = NoVotes
      BY DEF Init
    <3> QED BY <3>1, NoProberVote DEF Voting
  <2> QED BY <2>1, <2>2 DEF ProbesJudged, Held
<1> QED BY <1>1, JudgedStep, TypeCorrect, AlwaysMatching, AlwaysExplained, PTL DEF Spec

(* However many runs share the prober, and whatever store faults and       *)
(* crashes happen, the rows of every run are written in order, parents     *)
(* first.  Only the probes of the claim a run is at may precede the        *)
(* prober's verification of it, once the prober has judged the claim and   *)
(* if another run uses the prober too.                                     *)
THEOREM RowsOrdered == Spec => []RowsInOrder
<1>1. TypeOK /\ (\A r \in Runs : Ordered(r)) /\ ProbesJudged => RowsInOrder
  <2> SUFFICES ASSUME TypeOK, \A r \in Runs : Ordered(r), ProbesJudged,
                      NEW r \in Runs, NEW i \in ClaimNo
               PROVE  /\ Present(r, i) => \A j \in 1..(i - 1) : Present(r, j)
                      /\ verRow[r][i] # NoVotes => Present(r, i)
                      /\ i < MaxClaims /\ Present(r, i + 1) => Explains(r, i)
                      /\ \A p \in probeRows : p.run = r /\ p.claim = i =>
                             /\ Present(r, i)
                             /\ verRow[r][i]["prober"] # NoVote \/ Forestalled(r, i)
    BY DEF RowsInOrder, Explains
  <2>1. PICK n \in Nat : n = idx[r]
    BY DEF TypeOK
  <2>2. MaxClaims \in Nat /\ \A j \in ClaimNo : j \in Nat
    BY OrchestratorAssumption DEF ClaimNo
  <2>3. ASSUME NEW k \in ClaimNo, Present(r, k), NEW j \in 1..(k - 1)
        PROVE  Present(r, j) /\ Explains(r, j)
    <3>1. ~(k > n)
      BY <2>1, <2>3 DEF Ordered
    <3>2. j \in ClaimNo /\ j < n
      BY <2>2, <2>3, <3>1 DEF ClaimNo
    <3> QED BY <2>1, <3>2 DEF Ordered
  <2>4. i < MaxClaims => i + 1 \in ClaimNo /\ i \in 1..((i + 1) - 1)
    BY <2>2 DEF ClaimNo
  <2>5. verRow[r][i] # NoVotes => Present(r, i)
    BY DEF Ordered
  <2>6. ASSUME NEW p \in probeRows, p.run = r, p.claim = i
        PROVE  /\ Present(r, i)
               /\ verRow[r][i]["prober"] # NoVote \/ Forestalled(r, i)
    <3>1. Filed(p)
      BY DEF ProbesJudged
    <3> QED BY <2>6, <3>1 DEF Filed, Judged, Forestalled
  <2> QED BY <2>3, <2>4, <2>5, <2>6
<1> QED BY <1>1, AlwaysOrdered, AlwaysJudged, PTL

(* What may still happen to a run that has ended.                          *)
QuietRun(r) ==
    /\ UNCHANGED <<status[r], final[r], claimRow[r], verRow[r], log[r]>>
    /\ probeRows \subseteq probeRows'
    /\ \A p \in probeRows' \ probeRows : p.run = r =>
          \E q \in Runs \ {r} : pc[q] = "save_probe" /\ p = Head(probeQ[q])

(* However many runs share the prober, nothing of a run changes after its  *)
(* terminal event, neither in the tables nor on its stream, but for a      *)
(* probe of it that another run has taken for its own and saves: a client  *)
(* that fetches the trace when the stream ends fetches the final verdicts. *)
THEOREM QuietAfterTheEnd == Spec => QuietAfterTerminal
<1>1. TypeOK /\ InLoop /\ AnnouncedInv /\ [Next]_vars
          => [\A r \in Runs : Closed(r) => QuietRun(r)]_vars
  <2> SUFFICES ASSUME TypeOK, InLoop, AnnouncedInv, Next, NEW q \in Runs, Closed(q)
               PROVE  QuietRun(q)
    OBVIOUS
  <2>1. pc[q] = "returned"
    BY DEF Closed, AnnouncedInv, Quiet
  <2>2. ASSUME NEW r \in Runs, Accept(r) \/ Step(r) PROVE QuietRun(q)
    <3>1. q # r
      BY <2>1, <2>2
      DEF Accept, Step, Start, CreateRun, MarkSkipped, MarkRunning, SaveChunks,
          Decompose, DecomposeRaises, FailDecompose, SaveResolved, AtClaim,
          SaveBudgetExceeded, SettleUnverified, RunEntailment, EntailmentReturns,
          ProberReturns, IndependentReturns, SaveClaim, SaveVerification,
          CollectProbes, SaveProbe, Finalize, Abort
    <3>2. UNCHANGED <<status[q], final[q], claimRow[q], verRow[q], log[q]>>
      BY <2>2, <3>1, OthersAlone
    <3>3. /\ probeRows \subseteq probeRows'
          /\ \A p \in probeRows' \ probeRows :
                pc[r] = "save_probe" /\ p = Head(probeQ[r])
      BY <2>2, ProbesChange
    <3> QED BY <3>1, <3>2, <3>3 DEF QuietRun
  <2>3. CASE Crash \/ UNCHANGED vars
    BY <2>3 DEF Crash, vars, store, rows, QuietRun
  <2> QED BY <2>2, <2>3 DEF Next, AllEnded
<1>2. [\A r \in Runs : Closed(r) => QuietRun(r)]_vars
          => [\A r \in Runs : Closed(r) =>
                /\ UNCHANGED <<status[r], final[r], claimRow[r], verRow[r], log[r]>>
                /\ probeRows \subseteq probeRows'
                /\ \A p \in probeRows' \ probeRows : p.run = r =>
                      \E q \in Runs \ {r} :
                          pc[q] = "save_probe" /\ p = Head(probeQ[q])]_vars
  BY DEF QuietRun
<1>3. Spec => [][\A r \in Runs : Closed(r) =>
                /\ UNCHANGED <<status[r], final[r], claimRow[r], verRow[r], log[r]>>
                /\ probeRows \subseteq probeRows'
                /\ \A p \in probeRows' \ probeRows : p.run = r =>
                      \E q \in Runs \ {r} :
                          pc[q] = "save_probe" /\ p = Head(probeQ[q])]_vars
  BY <1>1, <1>2, TypeCorrect, AlwaysExplained, AlwaysMatching, AlwaysAnnounced, PTL DEF Spec
<1> QED BY <1>3, PTL DEF QuietAfterTerminal

-----------------------------------------------------------------------------
(* Readers: a detail is put together while its run goes on.                *)

(* A run that is past its loop, all of it in the tables.                   *)
Done(r) ==
    /\ pc[r] \notin BeforeLoop \cup Looping
    /\ idx[r] = Len(claims[r]) + 1
    /\ Whole(r)

DoneInv == \A r \in Runs : status[r] = "complete" => Done(r)

StoreInv ==
    /\ TypeOK /\ InLoop /\ RowsMatch /\ AllExplained /\ StatusInv /\ DoneInv
    /\ \A r \in Runs : Ordered(r)

(* What a step may do to a run that a client has read of.                  *)
RunKept(r) ==
    /\ \A i \in ClaimNo : Present(r, i) => claimRow'[r][i] = claimRow[r][i]
    /\ status[r] # "absent" =>
          /\ status'[r] # "absent"
          /\ Progress[status[r]] <= Progress[status'[r]]
    /\ Done(r) => /\ Done(r)'
                  /\ final'[r] = final[r] /\ claims'[r] = claims[r]

LEMMA StatusGoesForward ==
    ASSUME TypeOK, StatusInv, [Next]_vars, NEW r \in Runs, status[r] # "absent"
    PROVE  status'[r] # "absent" /\ Progress[status[r]] <= Progress[status'[r]]
<1> USE DEF Progress
<1>1. status[r] \in Status
  BY DEF TypeOK
<1>2. CASE status'[r] = status[r]
  BY <1>1, <1>2 DEF Status
<1>3. CASE CreateRun(r)
  BY <1>3 DEF CreateRun, StatusInv
<1>4. CASE MarkSkipped(r)
  <2>1. status[r] = "pending" /\ status'[r] \in {status[r], "skipped"}
    BY <1>4 DEF MarkSkipped, SetStatus, StatusInv, TypeOK
  <2> QED BY <2>1
<1>5. CASE MarkRunning(r)
  <2>1. status[r] = "pending" /\ status'[r] \in {status[r], "running"}
    BY <1>5 DEF MarkRunning, SetStatus, StatusInv, TypeOK
  <2> QED BY <2>1
<1>6. CASE Finalize(r)
  <2>1. status[r] = "running" /\ status'[r] \in {status[r], "complete"}
    BY <1>6 DEF Finalize, SetStatus, StatusInv, TypeOK
  <2> QED BY <2>1
<1>7. CASE FailDecompose(r) \/ Abort(r)
  <2>1. status'[r] \in {status[r], "error"}
    BY <1>7 DEF FailDecompose, Abort, SetStatus, TypeOK
  <2> QED BY <1>1, <2>1 DEF Status
<1>8. ASSUME NEW q \in Runs, Accept(q) \/ Step(q), q # r PROVE status'[r] = status[r]
  BY <1>8, OthersAlone
<1>9. CASE \/ Accept(r) \/ Start(r) \/ SaveChunks(r) \/ Decompose(r)
           \/ DecomposeRaises(r) \/ SaveResolved(r) \/ SaveBudgetExceeded(r)
           \/ RunEntailment(r) \/ ProberReturns(r) \/ IndependentReturns(r)
           \/ SaveClaim(r) \/ SaveVerification(r) \/ CollectProbes(r)
           \/ SaveProbe(r) \/ Crash \/ UNCHANGED vars
  <2>1. UNCHANGED status
    BY <1>9
    DEF Accept, Start, SaveChunks, Decompose, DecomposeRaises, SaveResolved,
        SaveBudgetExceeded, SettleUnverified, RunEntailment, EntailmentReturns,
        ProberReturns, IndependentReturns, SaveClaim, SaveVerification,
        CollectProbes, SaveProbe, Crash, vars, store
  <2> QED BY <1>2, <2>1
<1>10. ASSUME Accept(r) \/ Step(r)
       PROVE  status'[r] # "absent" /\ Progress[status[r]] <= Progress[status'[r]]
  BY <1>3, <1>4, <1>5, <1>6, <1>7, <1>9, <1>10 DEF Step
<1> QED BY <1>2, <1>8, <1>9, <1>10 DEF Next, AllEnded

LEMMA WholeStays ==
    ASSUME NEW r \in Runs, Whole(r), claims'[r] = claims[r],
           claimRow'[r] = claimRow[r], final'[r] = final[r]
    PROVE  Whole(r)'
<1>1. RowVerdicts(r, {"GROUNDED"})' = RowVerdicts(r, {"GROUNDED"})
  BY DEF RowVerdicts
<1>2. RowVerdicts(r, {"FRAGILE"})' = RowVerdicts(r, {"FRAGILE"})
  BY DEF RowVerdicts
<1>3. RowVerdicts(r, Verdict \ {"UNVERIFIABLE"})'
          = RowVerdicts(r, Verdict \ {"UNVERIFIABLE"})
  BY DEF RowVerdicts
<1> QED BY <1>1, <1>2, <1>3 DEF Whole, Present

LEMMA DoneStays ==
    ASSUME TypeOK, [Next]_vars, NEW r \in Runs, Done(r)
    PROVE  Done(r)' /\ final'[r] = final[r] /\ claims'[r] = claims[r]
<1> USE DEF BeforeLoop, Looping
<1>1. /\ pc'[r] \notin BeforeLoop \cup Looping /\ idx'[r] = idx[r]
      /\ claims'[r] = claims[r] /\ claimRow'[r] = claimRow[r] /\ final'[r] = final[r]
  <2>1. CASE Accept(r) \/ Step(r)
    <3>1. FailDecompose(r) \/ Abort(r)
      BY <2>1
      DEF Done, Accept, Step, Start, CreateRun, MarkSkipped, MarkRunning,
          SaveChunks, Decompose, DecomposeRaises, SaveResolved, AtClaim,
          SaveBudgetExceeded, SettleUnverified, RunEntailment,
          EntailmentReturns, ProberReturns, IndependentReturns, SaveClaim,
          SaveVerification, CollectProbes, SaveProbe, Finalize
    <3>2. UNCHANGED <<idx, claims, claimRow, final>>
      BY <3>1 DEF FailDecompose, Abort, task, rows
    <3>3. pc'[r] \in {"returned", "raised"}
      BY <3>1 DEF FailDecompose, Abort, Goto, TypeOK
    <3> QED BY <3>2, <3>3
  <2>2. ASSUME NEW q \in Runs, Accept(q) \/ Step(q), q # r
        PROVE  /\ pc'[r] = pc[r] /\ idx'[r] = idx[r]
               /\ claims'[r] = claims[r] /\ claimRow'[r] = claimRow[r]
               /\ final'[r] = final[r]
    BY <2>2, OthersAlone
  <2>3. CASE Crash \/ UNCHANGED vars
    <3>1. UNCHANGED <<idx, claims, claimRow, final>>
      BY <2>3 DEF Crash, vars, task, store, rows
    <3>2. pc'[r] \in {pc[r], "lost"}
      BY <2>3 DEF Crash, vars
    <3> QED BY <3>1, <3>2 DEF Done
  <2> QED BY <2>1, <2>2, <2>3 DEF Next, AllEnded, Done
<1>2. Whole(r)'
  BY <1>1, WholeStays DEF Done
<1> QED BY <1>1, <1>2 DEF Done

LEMMA DoneStep ==
    ASSUME TypeOK, InLoop, RowsMatch, RowsMatch', DoneInv, [Next]_vars
    PROVE  DoneInv'
<1> SUFFICES ASSUME NEW r \in Runs, status'[r] = "complete" PROVE Done(r)'
  BY DEF DoneInv
<1> USE DEF BeforeLoop, Looping
<1>1. CASE status[r] = "complete"
  BY <1>1, DoneStays DEF DoneInv
<1>2. CASE status[r] # "complete"
  <2>1. Finalize(r)
    <3>1. ASSUME NEW q \in Runs, Accept(q) \/ Step(q) PROVE q = r
      BY <1>2, <3>1, OthersAlone
    <3>2. ~Crash /\ ~UNCHANGED vars
      BY <1>2 DEF Crash, vars, store
    <3>3. Accept(r) \/ Step(r)
      BY <3>1, <3>2 DEF Next, AllEnded
    <3> QED BY <1>2, <3>3
      DEF Accept, Step, Start, CreateRun, MarkSkipped, MarkRunning, SetStatus,
          SaveChunks, Decompose, DecomposeRaises, FailDecompose, SaveResolved,
          SaveBudgetExceeded, SettleUnverified, RunEntailment,
          EntailmentReturns, ProberReturns, IndependentReturns, SaveClaim,
          SaveVerification, CollectProbes, SaveProbe, Abort, store, TypeOK
  <2>2. pc'[r] \notin BeforeLoop \cup Looping /\ Whole(r)'
    BY DEF RowsMatch, Matching
  <2>3. idx'[r] = idx[r] /\ claims'[r] = claims[r] /\ idx[r] > Len(claims[r])
    BY <2>1 DEF Finalize, task
  <2>4. idx[r] <= Len(claims[r]) + 1
    BY <2>1 DEF Finalize, RowsMatch, Matching
  <2>5. PICK n \in Nat, m \in Nat : n = idx[r] /\ m = Len(claims[r])
    BY DEF TypeOK
  <2>6. n = m + 1
    BY <2>3, <2>4, <2>5
  <2> QED BY <2>2, <2>3, <2>5, <2>6 DEF Done
<1> QED BY <1>1, <1>2

LEMMA RunsKept ==
    ASSUME StoreInv, [Next]_vars PROVE \A r \in Runs : RunKept(r)
<1> SUFFICES ASSUME NEW r \in Runs PROVE RunKept(r)
  OBVIOUS
<1>1. Moves(r)
  BY RowsMove DEF StoreInv
<1>2. \A i \in ClaimNo : Present(r, i) => claimRow'[r][i] = claimRow[r][i]
  BY <1>1 DEF Moves
<1>3. status[r] # "absent" =>
          status'[r] # "absent" /\ Progress[status[r]] <= Progress[status'[r]]
  BY StatusGoesForward DEF StoreInv
<1>4. Done(r) => Done(r)' /\ final'[r] = final[r] /\ claims'[r] = claims[r]
  BY DoneStays DEF StoreInv
<1> QED BY <1>2, <1>3, <1>4 DEF RunKept

LEMMA AlwaysStored == Spec => []StoreInv
<1>1. Init => StatusInv
  BY DEF Init, StatusInv, MidClaim
<1>2. TypeOK /\ StatusInv /\ [Next]_vars => StatusInv'
  BY StatusStep
<1>3. Spec => []StatusInv
  BY <1>1, <1>2, TypeCorrect, PTL DEF Spec
<1>4. Init => DoneInv
  BY DEF Init, DoneInv
<1>5. TypeOK /\ InLoop /\ RowsMatch /\ RowsMatch' /\ DoneInv /\ [Next]_vars => DoneInv'
  BY DoneStep
<1>6. Spec => []DoneInv
  BY <1>4, <1>5, TypeCorrect, AlwaysMatching, PTL DEF Spec
<1> DEFINE AllOrdered == \A r \in Runs : Ordered(r)
<1>7. Spec => [](TypeOK /\ InLoop /\ RowsMatch /\ AllExplained /\ AllOrdered)
  BY AlwaysOrdered
<1>8. TypeOK /\ InLoop /\ RowsMatch /\ AllExplained /\ AllOrdered /\ StatusInv /\ DoneInv
         => StoreInv
  BY DEF StoreInv
<1> HIDE DEF AllOrdered
<1> QED BY <1>3, <1>6, <1>7, <1>8, PTL

(* The claims a reader finds: those up to some number, in order.           *)
LEMMA NthOfInterval ==
    ASSUME NEW m \in Nat, NEW k \in 1..m
    PROVE  (CHOOSE i \in 1..m : Cardinality({j \in 1..m : j < i}) = k - 1) = k
<1>1. ASSUME NEW i \in 1..m PROVE Cardinality({j \in 1..m : j < i}) = i - 1
  <2>1. {j \in 1..m : j < i} = 1..(i - 1)
    OBVIOUS
  <2>2. i - 1 \in Int /\ 1 \in Int
    OBVIOUS
  <2>3. Cardinality(1..(i - 1)) = IF 1 > i - 1 THEN 0 ELSE (i - 1) - 1 + 1
    BY <2>2, FS_Interval
  <2>4. (IF 1 > i - 1 THEN 0 ELSE (i - 1) - 1 + 1) = i - 1
    OBVIOUS
  <2> QED BY <2>1, <2>3, <2>4
<1> DEFINE C(i) == Cardinality({j \in 1..m : j < i})
<1>2. \A i \in 1..m : C(i) = i - 1
  BY <1>1
<1> HIDE DEF C
<1>3. (CHOOSE i \in 1..m : C(i) = k - 1) = k
  <2>1. \A i \in 1..m : C(i) = k - 1 <=> i = k
    BY <1>2
  <2> QED BY <2>1
<1> QED BY <1>3 DEF C

(* s are the verdicts of the first claims in a run's rows.                 *)
Shows(s, row) == \A i \in 1..Len(s) : i \in ClaimNo /\ row[i].verdict = s[i]

LEMMA ClaimsAre ==
    ASSUME TypeOK, NEW r \in Runs, Ordered(r)
    PROVE  \E m \in Nat :
              /\ \A i \in ClaimNo : Present(r, i) <=> i <= m
              /\ m <= Len(claims[r])
              /\ \A i \in 1..m : i \in ClaimNo
              /\ ClaimsOf(r) \in Seq(Verdict)
              /\ Len(ClaimsOf(r)) = m
              /\ Shows(ClaimsOf(r), claimRow[r])
<1>1. PICK n \in Nat, c \in Nat :
          n = idx[r] /\ c = Len(claims[r]) /\ 1 <= n /\ n <= MaxClaims + 1
  BY OrchestratorAssumption DEF TypeOK
<1>2. MaxClaims \in Nat
  BY OrchestratorAssumption
<1>3. \A i \in ClaimNo : i \in Nat /\ 1 <= i /\ i <= MaxClaims
  BY <1>2 DEF ClaimNo
<1>4. \E m \in Nat : m <= MaxClaims /\ \A i \in ClaimNo : Present(r, i) <=> i <= m
  <2>1. \A i \in ClaimNo : (i < n => Present(r, i)) /\ (i > n => ~Present(r, i))
    BY <1>1 DEF Ordered
  <2>2. CASE n \in ClaimNo /\ Present(r, n)
    <3>1. n <= MaxClaims
      BY <1>3, <2>2
    <3>2. \A i \in ClaimNo : Present(r, i) <=> i <= n
      BY <1>1, <1>3, <2>1, <2>2
    <3> QED BY <3>1, <3>2
  <2>3. CASE ~(n \in ClaimNo /\ Present(r, n))
    <3>1. n - 1 \in Nat /\ n - 1 <= MaxClaims
      BY <1>1, <1>2
    <3>2. \A i \in ClaimNo : Present(r, i) <=> i <= n - 1
      BY <1>1, <1>3, <2>1, <2>3
    <3> QED BY <3>1, <3>2
  <2> QED BY <2>2, <2>3
<1>5. PICK m \in Nat : m <= MaxClaims /\ \A i \in ClaimNo : Present(r, i) <=> i <= m
  BY <1>4
<1>6. \A i \in 1..m : i \in ClaimNo
  BY <1>2, <1>5 DEF ClaimNo
<1>7. {i \in ClaimNo : Present(r, i)} = 1..m
  BY <1>3, <1>5, <1>6
<1>8. Cardinality(1..m) = m
  <2>1. Cardinality(1..m) = IF 1 > m THEN 0 ELSE m - 1 + 1
    BY FS_Interval
  <2> QED BY <2>1
<1>9. ClaimsOf(r) = [k \in 1..m |-> claimRow[r][k].verdict]
  <2> DEFINE Nth(S, k) == CHOOSE i \in S : Cardinality({j \in S : j < i}) = k - 1
             Listed(S) == [k \in 1..Cardinality(S) |-> claimRow[r][Nth(S, k)].verdict]
  <2>1. ClaimsOf(r) = Listed({i \in ClaimNo : Present(r, i)})
    BY DEF ClaimsOf
  <2>2. \A k \in 1..m : Nth(1..m, k) = k
    BY NthOfInterval
  <2>3. Listed(1..m) = [k \in 1..m |-> claimRow[r][Nth(1..m, k)].verdict]
    BY <1>8
  <2> HIDE DEF Nth
  <2>4. Listed(1..m) = [k \in 1..m |-> claimRow[r][k].verdict]
    BY <2>2, <2>3
  <2> HIDE DEF Listed
  <2> QED BY <1>7, <2>1, <2>4
<1>10. \A k \in 1..m : claimRow[r][k].verdict \in Verdict
  BY <1>5, <1>6 DEF TypeOK, Present, ClaimRow, Vote
<1>11. ClaimsOf(r) \in Seq(Verdict) /\ Len(ClaimsOf(r)) = m
  BY <1>9, <1>10
<1>12. Shows(ClaimsOf(r), claimRow[r])
  BY <1>6, <1>9, <1>11 DEF Shows
<1>13. m <= c
  <2>1. CASE m = 0
    BY <1>1, <2>1
  <2>2. CASE m # 0
    <3>1. m \in ClaimNo /\ Present(r, m)
      BY <1>5, <1>6, <2>2
    <3> QED BY <1>1, <3>1 DEF Ordered
  <2> QED BY <2>1, <2>2
<1> QED BY <1>1, <1>5, <1>6, <1>11, <1>12, <1>13

-----------------------------------------------------------------------------
(* What a flow has read was so, and still is.                              *)

Phase == {"off", "posting", "accepted", "listing", "loading", "polling"}

PageType ==
    /\ stage \in [Reads -> {"idle"} \cup UnderWay \cup Answers]
    /\ target \in [Reads -> Runs \cup {NoRun}]
    /\ rowSeen \in [Reads -> [status : Status, final : Totals]]
    /\ seen \in [Reads -> Seq(Verdict)]
    /\ votesSeen \in [Reads -> Seq(Votes)]
    /\ phase \in [Reads -> Phase]
    /\ last \in [Reads -> [status : Status, claims : Seq(Verdict)]]
    /\ doing \in [Reads -> {"none", "ask", "verify", "load"}]
    /\ runid \in Runs \cup {NoRun}

(* A detail under way, or complete: the votes on the last claim of a run   *)
(* that goes on are the only ones that may not explain its verdict yet.    *)
ReadInv(g, r) ==
    /\ stage[g] \in UnderWay \cup {"detail"} => r \in Runs
    /\ stage[g] \in {"idle", "run", "claims"} =>
           seen[g] = << >> /\ votesSeen[g] = << >>
    /\ stage[g] \in {"claims", "verifications", "detail"} =>
           /\ rowSeen[g].status # "absent"
           /\ status[r] # "absent"
           /\ Progress[rowSeen[g].status] <= Progress[status[r]]
           /\ rowSeen[g].status = "complete" => Done(r) /\ rowSeen[g].final = final[r]
    /\ stage[g] \in {"verifications", "detail"} =>
           /\ Shows(seen[g], claimRow[r])
           /\ rowSeen[g].status = "complete" => Len(seen[g]) = Len(claims[r])
           /\ stage[g] = "detail" => Len(votesSeen[g]) = Len(seen[g])
           /\ stage[g] = "verifications" => Len(votesSeen[g]) < Len(seen[g])
           /\ \A i \in 1..Len(votesSeen[g]) :
                 i < Len(seen[g]) \/ rowSeen[g].status = "complete" =>
                     Reconcile(votesSeen[g][i]) = seen[g][i]

(* No query under way has gone back behind what a polling flow rendered.   *)
LastInv(g, r) ==
    last[g] # NoDetail =>
        /\ stage[g] # "not_found"
        /\ last[g].status # "absent"
        /\ status[r] # "absent"
        /\ Progress[last[g].status] <= Progress[status[r]]
        /\ Shows(last[g].claims, claimRow[r])
        /\ stage[g] \in {"claims", "verifications", "detail"} =>
               Progress[last[g].status] <= Progress[rowSeen[g].status]
        /\ stage[g] \in {"verifications", "detail"} =>
               Len(last[g].claims) <= Len(seen[g])

(* A flow that asks for no trace has none under way.                       *)
PhaseInv(g, r) ==
    /\ phase[g] \in {"off", "posting", "accepted", "listing"} => stage[g] = "idle"
    /\ phase[g] # "polling" => last[g] = NoDetail
    /\ phase[g] \in {"accepted", "polling", "loading"} => r \in Runs

Flowing(g, r) == ReadInv(g, r) /\ LastInv(g, r) /\ PhaseInv(g, r)

FlowInv(g) == \A r \in Runs \cup {NoRun} : target[g] = r => Flowing(g, r)

LEMMA ProgressType == Progress \in [Status -> 0..4]
BY DEF Progress, Status

LEMMA ShowsKept ==
    ASSUME NEW r \in Runs, RunKept(r), NEW s \in Seq(Verdict), Shows(s, claimRow[r])
    PROVE  Shows(s, claimRow'[r])
<1> SUFFICES ASSUME NEW i \in 1..Len(s)
             PROVE  i \in ClaimNo /\ claimRow'[r][i].verdict = s[i]
  BY DEF Shows
<1>1. i \in ClaimNo /\ claimRow[r][i].verdict = s[i] /\ s[i] \in Verdict
  BY DEF Shows
<1>2. Present(r, i)
  BY <1>1 DEF Present, Verdict, NoVote
<1> QED BY <1>1, <1>2 DEF RunKept

LEMMA FlowKept ==
    ASSUME TypeOK, TypeOK', PageType, \A q \in Runs : RunKept(q),
           NEW g \in Reads, NEW r, Flowing(g, r),
           UNCHANGED <<rowSeen[g], seen[g], votesSeen[g], phase[g], last[g]>>,
           \/ stage'[g] = stage[g]
           \/ stage[g] \in UnderWay /\ stage'[g] = "unavailable"
    PROVE  Flowing(g, r)'
<1> USE DEF UnderWay
<1>1. /\ rowSeen[g].status \in Status /\ seen[g] \in Seq(Verdict)
      /\ last[g].status \in Status /\ last[g].claims \in Seq(Verdict)
  BY DEF PageType
<1>2. ASSUME r \in Runs, status[r] # "absent", NEW x \in Status,
             Progress[x] <= Progress[status[r]]
      PROVE  status'[r] # "absent" /\ Progress[x] <= Progress[status'[r]]
  <2>1. status[r] \in Status /\ status'[r] \in Status
    BY <1>2 DEF TypeOK
  <2>2. Progress[x] \in Nat /\ Progress[status[r]] \in Nat /\ Progress[status'[r]] \in Nat
    BY <2>1, ProgressType
  <2>3. status'[r] # "absent" /\ Progress[status[r]] <= Progress[status'[r]]
    BY <1>2 DEF RunKept
  <2> QED BY <1>2, <2>2, <2>3
<1>3. ReadInv(g, r)'
  <2>1. CASE stage'[g] = "unavailable"
    BY <2>1 DEF ReadInv
  <2>2. CASE stage'[g] = stage[g] /\ stage[g] \in {"claims", "verifications", "detail"}
    <3>1. r \in Runs
      BY <2>2 DEF Flowing, ReadInv
    <3>2. status'[r] # "absent" /\ Progress[rowSeen[g].status] <= Progress[status'[r]]
      BY <1>1, <1>2, <2>2, <3>1 DEF Flowing, ReadInv
    <3>3. rowSeen[g].status = "complete" =>
              Done(r)' /\ final'[r] = final[r] /\ claims'[r] = claims[r]
                       /\ rowSeen[g].final = final[r]
      BY <2>2, <3>1 DEF Flowing, ReadInv, RunKept
    <3>4. stage[g] # "claims" => Shows(seen[g], claimRow'[r])
      BY <1>1, <2>2, <3>1, ShowsKept DEF Flowing, ReadInv
    <3> QED BY <2>2, <3>1, <3>2, <3>3, <3>4 DEF Flowing, ReadInv
  <2>3. CASE stage'[g] = stage[g] /\ stage[g] \notin {"claims", "verifications", "detail"}
    BY <2>3 DEF Flowing, ReadInv
  <2> QED BY <2>1, <2>2, <2>3
<1>4. LastInv(g, r)'
  <2> SUFFICES ASSUME last[g] # NoDetail PROVE LastInv(g, r)'
    BY DEF LastInv
  <2>1. r \in Runs
    BY DEF Flowing, PhaseInv
  <2>2. status'[r] # "absent" /\ Progress[last[g].status] <= Progress[status'[r]]
    BY <1>1, <1>2, <2>1 DEF Flowing, LastInv
  <2>3. Shows(last[g].claims, claimRow'[r])
    BY <1>1, <2>1, ShowsKept DEF Flowing, LastInv
  <2> QED BY <2>2, <2>3 DEF Flowing, LastInv
<1>5. PhaseInv(g, r)'
  BY DEF Flowing, PhaseInv
<1> QED BY <1>3, <1>4, <1>5 DEF Flowing

(* A flow with nothing read: it asks for a trace, or for none.             *)
LEMMA FlowAsks ==
    ASSUME NEW g \in Reads, NEW r, stage'[g] \in {"idle", "run"},
           seen'[g] = << >>, votesSeen'[g] = << >>, last'[g] = NoDetail,
           stage'[g] = "run" => phase'[g] \in {"polling", "loading"},
           phase'[g] \in {"accepted", "polling", "loading"} => r \in Runs
    PROVE  Flowing(g, r)'
BY DEF Flowing, ReadInv, LastInv, PhaseInv, UnderWay

LEMMA DoneSame ==
    ASSUME NEW r \in Runs, UNCHANGED vars PROVE Done(r)' <=> Done(r)
<1>1. UNCHANGED <<pc, idx, claims, claimRow, final>>
  BY DEF vars, store, rows, task
<1>2. RowVerdicts(r, {"GROUNDED"})' = RowVerdicts(r, {"GROUNDED"})
  BY <1>1 DEF RowVerdicts
<1>3. RowVerdicts(r, {"FRAGILE"})' = RowVerdicts(r, {"FRAGILE"})
  BY <1>1 DEF RowVerdicts
<1>4. RowVerdicts(r, Verdict \ {"UNVERIFIABLE"})'
          = RowVerdicts(r, Verdict \ {"UNVERIFIABLE"})
  BY <1>1 DEF RowVerdicts
<1>5. Whole(r)' <=> Whole(r)
  BY <1>1, <1>2, <1>3, <1>4 DEF Whole, Present
<1> QED BY <1>1, <1>5 DEF Done

(* The steps of a reader, while the runs rest.                             *)
LEMMA RunReadOk ==
    ASSUME StoreInv, PageType, NEW g \in Reads, NEW r, target[g] = r,
           Flowing(g, r), ReadRun(g), UNCHANGED <<vars, pageVars>>
    PROVE  Flowing(g, r)'
<1> USE DEF UnderWay
<1>1. r \in Runs /\ seen[g] = << >> /\ votesSeen[g] = << >>
  BY DEF ReadRun, Flowing, ReadInv
<1>2. /\ UNCHANGED <<seen, votesSeen, status, claimRow, final, claims>>
      /\ UNCHANGED <<phase, last>>
  BY DEF ReadRun, vars, store, rows, task, pageVars
<1>3. CASE status[r] = "absent"
  <2>1. stage'[g] = "not_found" /\ rowSeen' = rowSeen
    BY <1>3 DEF ReadRun, PageType
  <2>2. last[g] = NoDetail
    BY <1>3 DEF Flowing, LastInv
  <2> QED BY <1>2, <2>1, <2>2 DEF ReadRun, Flowing, ReadInv, LastInv, PhaseInv
<1>4. CASE status[r] # "absent"
  <2>1. /\ stage'[g] = "claims" /\ rowSeen'[g].status = status[r]
        /\ rowSeen'[g].final = final[r]
    BY <1>4 DEF ReadRun, PageType
  <2>2. status[r] = "complete" => Done(r)
    BY <1>1 DEF StoreInv, DoneInv
  <2>3. Done(r)' <=> Done(r)
    BY <1>1, DoneSame
  <2>4. Progress[status[r]] <= Progress[status[r]]
    <3>1. status[r] \in Status
      BY <1>1 DEF StoreInv, TypeOK
    <3> QED BY <3>1, ProgressType
  <2>5. ReadInv(g, r)'
    BY <1>1, <1>2, <1>4, <2>1, <2>2, <2>3, <2>4 DEF ReadInv
  <2>6. LastInv(g, r)'
    BY <1>2, <2>1 DEF Flowing, LastInv
  <2>7. PhaseInv(g, r)'
    BY <1>2, <2>1 DEF ReadRun, Flowing, PhaseInv
  <2> QED BY <2>5, <2>6, <2>7 DEF Flowing
<1> QED BY <1>3, <1>4

LEMMA ClaimsReadOk ==
    ASSUME StoreInv, PageType, NEW g \in Reads, NEW r, target[g] = r,
           Flowing(g, r), ReadClaims(g), UNCHANGED <<vars, pageVars>>
    PROVE  Flowing(g, r)' /\ ClaimsOf(r) \in Seq(Verdict)
<1> USE DEF UnderWay
<1>1. r \in Runs /\ votesSeen[g] = << >> /\ stage[g] = "claims"
  BY DEF ReadClaims, Flowing, ReadInv
<1>2. /\ UNCHANGED <<votesSeen, rowSeen, target, status, claimRow, final, claims>>
      /\ UNCHANGED <<phase, last>>
  BY DEF ReadClaims, vars, store, rows, task, pageVars
<1>3. PICK m \in Nat :
          /\ \A i \in ClaimNo : Present(r, i) <=> i <= m
          /\ m <= Len(claims[r])
          /\ \A i \in 1..m : i \in ClaimNo
          /\ ClaimsOf(r) \in Seq(Verdict)
          /\ Len(ClaimsOf(r)) = m
          /\ Shows(ClaimsOf(r), claimRow[r])
  BY <1>1, ClaimsAre DEF StoreInv
<1>4. PICK s \in Seq(Verdict) : s = ClaimsOf(r)
  BY <1>3
<1>5. seen'[g] = s
  BY <1>4 DEF ReadClaims, PageType
<1>6. stage'[g] = IF s = << >> THEN "detail" ELSE "verifications"
  BY <1>5 DEF ReadClaims, PageType
<1>7. Len(s) = m /\ Shows(s, claimRow[r])
  BY <1>3, <1>4
<1>8. s = << >> <=> m = 0
  BY <1>7
<1>9. Done(r)' <=> Done(r)
  BY <1>1, DoneSame
<1>10. rowSeen[g].status = "complete" => Len(claims[r]) = m
  <2> SUFFICES ASSUME rowSeen[g].status = "complete" PROVE Len(claims[r]) = m
    OBVIOUS
  <2>1. Done(r)
    BY <1>1 DEF Flowing, ReadInv
  <2>2. PICK c \in Nat : c = Len(claims[r]) /\ c <= MaxClaims
    BY <1>1 DEF StoreInv, TypeOK
  <2>3. \A i \in 1..c : i \in ClaimNo /\ Present(r, i)
    BY <2>1, <2>2, OrchestratorAssumption DEF Done, Whole, ClaimNo
  <2>4. c > 0 => c \in 1..c
    BY <2>2
  <2>5. c > 0 => c <= m
    BY <1>3, <2>3, <2>4
  <2> QED BY <1>3, <2>2, <2>5
<1>11. last[g] # NoDetail => Len(last[g].claims) <= m
  <2> SUFFICES ASSUME last[g] # NoDetail PROVE Len(last[g].claims) <= m
    OBVIOUS
  <2>1. PICK l \in Seq(Verdict) : l = last[g].claims
    BY DEF PageType
  <2>2. Shows(l, claimRow[r])
    BY <2>1 DEF Flowing, LastInv
  <2>3. PICK n \in Nat : n = Len(l)
    OBVIOUS
  <2>4. CASE n = 0
    BY <2>1, <2>3, <2>4
  <2>5. CASE n # 0
    <3>1. n \in 1..Len(l) /\ l[n] \in Verdict
      BY <2>3, <2>5
    <3>2. n \in ClaimNo /\ claimRow[r][n].verdict = l[n]
      BY <2>2, <3>1 DEF Shows
    <3>3. Present(r, n)
      BY <3>1, <3>2 DEF Present, Verdict, NoVote
    <3> QED BY <1>3, <2>1, <2>3, <3>2, <3>3
  <2> QED BY <2>4, <2>5
<1>12. stage'[g] = "detail" => m = 0
  BY <1>6, <1>8
<1>13. stage'[g] = "verifications" => 0 < m
  BY <1>6, <1>8
<1>14. stage'[g] \in {"detail", "verifications"}
  BY <1>6
<1>15. Len(seen'[g]) = m /\ Shows(seen'[g], claimRow'[r]) /\ Len(votesSeen'[g]) = 0
  BY <1>1, <1>2, <1>5, <1>7
<1>16. ReadInv(g, r)'
  <2>1. \A i \in 1..Len(votesSeen'[g]) : FALSE
    BY <1>15
  <2> QED BY <1>1, <1>2, <1>9, <1>10, <1>12, <1>13, <1>14, <1>15, <2>1
          DEF Flowing, ReadInv
<1>17. LastInv(g, r)'
  BY <1>1, <1>2, <1>11, <1>14, <1>15 DEF Flowing, LastInv
<1>18. PhaseInv(g, r)'
  BY <1>1, <1>2, <1>14 DEF Flowing, PhaseInv
<1> QED BY <1>3, <1>16, <1>17, <1>18 DEF Flowing

LEMMA VotesReadOk ==
    ASSUME StoreInv, PageType, NEW g \in Reads, NEW r, target[g] = r,
           Flowing(g, r), ReadVerifications(g), UNCHANGED <<vars, pageVars>>
    PROVE  /\ Flowing(g, r)' /\ stage'[g] \in {"verifications", "detail"}
           /\ votesSeen' = [votesSeen EXCEPT ![g] = votesSeen'[g]]
           /\ votesSeen'[g] \in Seq(Votes)
<1> USE DEF UnderWay
<1>1. r \in Runs /\ stage[g] = "verifications"
  BY DEF ReadVerifications, Flowing, ReadInv
<1>2. /\ UNCHANGED <<seen, rowSeen, target, status, claimRow, final, claims>>
      /\ UNCHANGED <<phase, last>>
  BY DEF ReadVerifications, vars, store, rows, task, pageVars
<1>3. PICK s \in Seq(Verdict), vs \in Seq(Votes) : s = seen[g] /\ vs = votesSeen[g]
  BY DEF PageType
<1>4. PICK m \in Nat, k \in Nat : m = Len(s) /\ k = Len(vs) /\ k < m
  BY <1>1, <1>3 DEF Flowing, ReadInv
<1>5. k + 1 \in 1..Len(s) /\ s[k + 1] \in Verdict
  BY <1>4
<1>6. k + 1 \in ClaimNo /\ claimRow[r][k + 1].verdict = s[k + 1] /\ Shows(s, claimRow[r])
  BY <1>1, <1>3, <1>5 DEF Flowing, ReadInv, Shows
<1>7. PICK v \in Votes : v = verRow[r][k + 1]
  BY <1>1, <1>6 DEF StoreInv, TypeOK
<1>8. votesSeen'[g] = Append(vs, v)
  BY <1>1, <1>3, <1>4, <1>7 DEF ReadVerifications, PageType
<1>9. stage'[g] = IF k + 1 = m THEN "detail" ELSE "verifications"
  BY <1>1, <1>3, <1>4 DEF ReadVerifications, PageType
<1>10. /\ Len(Append(vs, v)) = k + 1 /\ Append(vs, v)[k + 1] = v
       /\ \A i \in 1..k : Append(vs, v)[i] = vs[i]
  BY <1>4
<1>11. k + 1 < m \/ rowSeen[g].status = "complete" => Reconcile(v) = s[k + 1]
  <2> SUFFICES ASSUME k + 1 < m \/ rowSeen[g].status = "complete"
               PROVE  Reconcile(v) = s[k + 1]
    OBVIOUS
  <2>1. PICK n \in Nat : n = idx[r]
    BY <1>1 DEF StoreInv, TypeOK
  <2>2. k + 1 < n
    <3>1. CASE k + 1 < m
      <4>1. k + 2 \in 1..Len(s) /\ s[k + 2] \in Verdict
        BY <1>4, <3>1
      <4>2. k + 2 \in ClaimNo /\ claimRow[r][k + 2].verdict = s[k + 2]
        BY <1>6, <4>1 DEF Shows
      <4>3. Present(r, k + 2)
        BY <4>1, <4>2 DEF Present, Verdict, NoVote
      <4>4. ~(k + 2 > n)
        BY <1>1, <2>1, <4>2, <4>3 DEF StoreInv, Ordered
      <4> QED BY <1>4, <2>1, <4>4
    <3>2. CASE rowSeen[g].status = "complete"
      <4>1. Done(r) /\ Len(claims[r]) = m
        BY <1>1, <1>3, <1>4, <3>2 DEF Flowing, ReadInv
      <4>2. n = m + 1
        BY <2>1, <4>1 DEF Done
      <4> QED BY <1>4, <4>2
    <3> QED BY <3>1, <3>2
  <2>3. Explains(r, k + 1)
    BY <1>1, <1>6, <2>1, <2>2 DEF StoreInv, Ordered
  <2> QED BY <1>6, <1>7, <2>3 DEF Explains
<1>12. \A i \in 1..(k + 1) :
           i < m \/ rowSeen[g].status = "complete" => Reconcile(Append(vs, v)[i]) = s[i]
  <2> SUFFICES ASSUME NEW i \in 1..(k + 1), i < m \/ rowSeen[g].status = "complete"
               PROVE  Reconcile(Append(vs, v)[i]) = s[i]
    OBVIOUS
  <2>1. CASE i = k + 1
    BY <1>10, <1>11, <2>1
  <2>2. CASE i # k + 1
    <3>1. i \in 1..k /\ i < m
      BY <1>4, <2>2
    <3>2. Reconcile(vs[i]) = s[i]
      BY <1>1, <1>3, <1>4, <3>1 DEF Flowing, ReadInv
    <3> QED BY <1>10, <3>1, <3>2
  <2> QED BY <2>1, <2>2
<1>13. stage'[g] \in {"verifications", "detail"}
  BY <1>9
<1>14. stage'[g] = "detail" => k + 1 = m
  BY <1>9
<1>15. stage'[g] = "verifications" => k + 1 < m
  BY <1>4, <1>9
<1>16. Done(r)' <=> Done(r)
  BY <1>1, DoneSame
<1>17. ReadInv(g, r)'
  <2> HIDE DEF UnderWay
  <2>1. /\ Len(votesSeen'[g]) = k + 1 /\ seen'[g] = s /\ Len(seen'[g]) = m
        /\ votesSeen'[g] = Append(vs, v)
    BY <1>2, <1>3, <1>4, <1>8, <1>10
  <2>2. \A i \in 1..Len(votesSeen'[g]) :
            i < Len(seen'[g]) \/ rowSeen'[g].status = "complete" =>
                Reconcile(votesSeen'[g][i]) = seen'[g][i]
    BY <1>2, <1>12, <2>1
  <2>3. Shows(seen'[g], claimRow'[r])
    BY <1>2, <1>6, <2>1
  <2>4. /\ rowSeen'[g].status # "absent" /\ status'[r] # "absent"
        /\ Progress[rowSeen'[g].status] <= Progress[status'[r]]
        /\ rowSeen'[g].status = "complete" =>
              /\ Done(r)' /\ rowSeen'[g].final = final'[r]
              /\ Len(seen'[g]) = Len(claims'[r])
    BY <1>1, <1>2, <1>3, <1>16 DEF Flowing, ReadInv
  <2> QED BY <1>1, <1>13, <1>14, <1>15, <2>1, <2>2, <2>3, <2>4 DEF ReadInv
<1>18. LastInv(g, r)'
  BY <1>1, <1>2, <1>13 DEF Flowing, LastInv
<1>19. PhaseInv(g, r)'
  BY <1>1, <1>2, <1>13 DEF Flowing, PhaseInv
<1>20. votesSeen' = [votesSeen EXCEPT ![g] = votesSeen'[g]]
  BY DEF ReadVerifications, PageType
<1> QED BY <1>8, <1>13, <1>17, <1>18, <1>19, <1>20 DEF Flowing

(* The steps of a flow. Those of one flow leave the others alone.          *)
FlowSame(d) ==
    UNCHANGED <<stage[d], target[d], rowSeen[d], seen[d], votesSeen[d],
                phase[d], last[d]>>

LEMMA OtherFlows ==
    ASSUME PageType, NEW g \in Reads,
           \/ ReadStep(g) /\ UNCHANGED pageVars
           \/ Flow(g),
           NEW d \in Reads, d # g
    PROVE  FlowSame(d)
<1> USE DEF FlowSame, PageType
<1>1. CASE ReadStep(g) /\ UNCHANGED pageVars
  BY <1>1 DEF ReadStep, ReadRun, ReadClaims, ReadVerifications, Unavailable, pageVars
<1>2. CASE Ask(g) \/ VerifyExternal(g)
  BY <1>2 DEF Ask, VerifyExternal, Begin, readVars
<1>3. CASE Route(g)
  BY <1>3 DEF Route, End, query
<1>4. CASE Accepted(g)
  BY <1>4 DEF Accepted, GetRun, End, query
<1>5. CASE Poll(g)
  BY <1>5 DEF Poll, GetRun
<1>6. CASE Load(g)
  BY <1>6 DEF Load, Begin, GetRun, query
<1>7. CASE ListRuns(g)
  BY <1>7 DEF ListRuns, GetRun, End, query
<1>8. CASE TakeDetail(g)
  BY <1>8 DEF TakeDetail, Answered, End
<1>9. CASE TakeFailure(g)
  BY <1>9 DEF TakeFailure, Answered, End
<1> QED BY <1>1, <1>2, <1>3, <1>4, <1>5, <1>6, <1>7, <1>8, <1>9 DEF Flow

(* A flow that asks for nothing has read nothing.                          *)
LEMMA Resting ==
    ASSUME NEW g \in Reads, NEW r, Flowing(g, r)
    PROVE  /\ phase[g] \in {"off", "posting", "accepted", "listing"} =>
                  stage[g] = "idle"
           /\ stage[g] = "idle" => seen[g] = << >> /\ votesSeen[g] = << >>
           /\ phase[g] # "polling" => last[g] = NoDetail
           /\ phase[g] \in {"accepted", "polling", "loading"} => r \in Runs
BY DEF Flowing, ReadInv, PhaseInv

LEMMA AskOk ==
    ASSUME PageType, NEW g \in Reads, NEW r, target[g] = r, Flowing(g, r),
           Ask(g) \/ VerifyExternal(g)
    PROVE  target'[g] = r /\ Flowing(g, r)'
<1>1. /\ phase[g] = "off" /\ phase'[g] = "posting"
      /\ UNCHANGED <<stage, target, seen, votesSeen, last>>
  BY DEF Ask, VerifyExternal, Begin, readVars, PageType
<1> QED BY <1>1, Resting, FlowAsks

LEMMA EndOk ==
    ASSUME PageType, NEW g \in Reads, End(g), stage'[g] = "idle",
           seen'[g] = << >>, votesSeen'[g] = << >>
    PROVE  target'[g] = NoRun /\ Flowing(g, NoRun)'
<1>1. phase'[g] = "off" /\ target'[g] = NoRun /\ last'[g] = NoDetail
  BY DEF End, PageType
<1> QED BY <1>1, FlowAsks

LEMMA RouteOk ==
    ASSUME PageType, NEW g \in Reads, NEW r, target[g] = r, Flowing(g, r), Route(g)
    PROVE  \E q \in Runs \cup {NoRun} : target'[g] = q /\ Flowing(g, q)'
<1>1. /\ phase[g] = "posting" /\ UNCHANGED <<stage, seen, votesSeen>>
  BY DEF Route, query
<1>2. stage'[g] = "idle" /\ seen'[g] = << >> /\ votesSeen'[g] = << >> /\ last[g] = NoDetail
  BY <1>1, Resting
<1>3. CASE End(g)
  BY <1>2, <1>3, EndOk
<1>4. ASSUME NEW q \in Runs, target' = [target EXCEPT ![g] = q],
             phase' = [phase EXCEPT ![g] = "accepted"], last' = last
      PROVE  target'[g] = q /\ Flowing(g, q)'
  <2>1. target'[g] = q /\ phase'[g] = "accepted" /\ last'[g] = NoDetail
    BY <1>2, <1>4 DEF PageType
  <2> QED BY <1>2, <2>1, FlowAsks
<1> QED BY <1>3, <1>4 DEF Route

LEMMA AcceptedOk ==
    ASSUME PageType, NEW g \in Reads, NEW r \in Runs \cup {NoRun}, target[g] = r,
           Flowing(g, r), Accepted(g)
    PROVE  \E q \in Runs \cup {NoRun} : target'[g] = q /\ Flowing(g, q)'
<1>1. /\ stage[g] = "idle" /\ seen[g] = << >> /\ votesSeen[g] = << >>
      /\ last[g] = NoDetail /\ r \in Runs
  BY Resting DEF Accepted
<1>2. CASE End(g) /\ UNCHANGED query
  BY <1>1, <1>2, EndOk DEF query
<1>3. CASE phase' = [phase EXCEPT ![g] = "polling"] /\ GetRun(g)
           /\ UNCHANGED <<last, target>>
  <2>1. /\ phase'[g] = "polling" /\ stage'[g] = "run" /\ seen'[g] = << >>
        /\ votesSeen'[g] = << >> /\ last'[g] = NoDetail /\ target'[g] = r
    BY <1>1, <1>3 DEF GetRun, PageType
  <2> QED BY <1>1, <2>1, FlowAsks
<1> QED BY <1>2, <1>3 DEF Accepted

LEMMA PollOk ==
    ASSUME PageType, NEW g \in Reads, NEW r, target[g] = r, Flowing(g, r), Poll(g)
    PROVE  target'[g] = r /\ Flowing(g, r)'
<1>1. /\ phase[g] = "polling" /\ stage[g] = "idle" /\ stage'[g] = "run"
      /\ UNCHANGED <<target, seen, votesSeen, rowSeen, phase, last, status, claimRow>>
  BY DEF Poll, GetRun, PageType, vars, store, rows
<1>2. r \in Runs /\ seen[g] = << >> /\ votesSeen[g] = << >>
  BY <1>1, Resting
<1>3. ReadInv(g, r)'
  BY <1>1, <1>2 DEF ReadInv
<1>4. LastInv(g, r)'
  BY <1>1 DEF Flowing, LastInv
<1>5. PhaseInv(g, r)'
  BY <1>1, <1>2 DEF PhaseInv
<1> QED BY <1>1, <1>3, <1>4, <1>5 DEF Flowing

LEMMA LoadOk ==
    ASSUME PageType, NEW g \in Reads, NEW r \in Runs \cup {NoRun}, target[g] = r,
           Flowing(g, r), Load(g)
    PROVE  \E q \in Runs \cup {NoRun} : target'[g] = q /\ Flowing(g, q)'
<1>1. phase[g] = "off" /\ last' = last
  BY DEF Load, Begin
<1>2. /\ stage[g] = "idle" /\ seen[g] = << >> /\ votesSeen[g] = << >>
      /\ last'[g] = NoDetail
  BY <1>1, Resting
<1>3. CASE runid = NoRun
  <2>1. /\ phase'[g] = "listing" /\ stage'[g] = "idle" /\ seen'[g] = << >>
        /\ votesSeen'[g] = << >> /\ target'[g] = r
    BY <1>2, <1>3 DEF Load, Begin, query, PageType
  <2> QED BY <1>2, <2>1, FlowAsks
<1>4. CASE runid # NoRun
  <2>1. PICK q \in Runs : q = runid
    BY <1>4 DEF PageType
  <2>2. /\ phase'[g] = "loading" /\ stage'[g] = "run" /\ seen'[g] = << >>
        /\ votesSeen'[g] = << >> /\ target'[g] = q
    BY <1>2, <1>4, <2>1 DEF Load, Begin, GetRun, PageType
  <2> QED BY <1>2, <2>1, <2>2, FlowAsks
<1> QED BY <1>3, <1>4

LEMMA ListOk ==
    ASSUME PageType, NEW g \in Reads, NEW r, target[g] = r, Flowing(g, r), ListRuns(g)
    PROVE  \E q \in Runs \cup {NoRun} : target'[g] = q /\ Flowing(g, q)'
<1>1. /\ stage[g] = "idle" /\ seen[g] = << >> /\ votesSeen[g] = << >>
      /\ last[g] = NoDetail
  BY Resting DEF ListRuns
<1>2. CASE End(g) /\ UNCHANGED query
  BY <1>1, <1>2, EndOk DEF query
<1>3. ASSUME NEW q \in Runs, target' = [target EXCEPT ![g] = q],
             phase' = [phase EXCEPT ![g] = "loading"], GetRun(g), last' = last
      PROVE  target'[g] = q /\ Flowing(g, q)'
  <2>1. /\ phase'[g] = "loading" /\ stage'[g] = "run" /\ seen'[g] = << >>
        /\ votesSeen'[g] = << >> /\ last'[g] = NoDetail /\ target'[g] = q
    BY <1>1, <1>3 DEF GetRun, PageType
  <2> QED BY <2>1, FlowAsks
<1> QED BY <1>2, <1>3 DEF ListRuns

LEMMA TakeOk ==
    ASSUME PageType, NEW g \in Reads, NEW r \in Runs \cup {NoRun}, target[g] = r,
           Flowing(g, r), TakeDetail(g) \/ TakeFailure(g)
    PROVE  \E q \in Runs \cup {NoRun} : target'[g] = q /\ Flowing(g, q)'
<1>1. stage'[g] = "idle" /\ seen'[g] = << >> /\ votesSeen'[g] = << >>
  BY DEF TakeDetail, TakeFailure, Answered, PageType
<1>2. CASE End(g)
  BY <1>1, <1>2, EndOk
<1>3. CASE ~End(g)
  <2>1. /\ stage[g] = "detail" /\ phase[g] = "polling"
        /\ last' = [last EXCEPT ![g] = Shown(g)]
        /\ UNCHANGED <<phase, target, status, claimRow>>
    BY <1>3 DEF TakeDetail, TakeFailure, vars, store, rows
  <2>2. last'[g] = [status |-> rowSeen[g].status, claims |-> seen[g]]
    BY <2>1 DEF Shown, PageType
  <2>3. r \in Runs
    BY <2>1, Resting
  <2>4. ReadInv(g, r)'
    BY <1>1, <2>3 DEF ReadInv, UnderWay
  <2>5. LastInv(g, r)'
    BY <1>1, <2>1, <2>2 DEF Flowing, ReadInv, LastInv
  <2>6. PhaseInv(g, r)'
    BY <2>1, <2>3 DEF PhaseInv
  <2> QED BY <2>1, <2>4, <2>5, <2>6 DEF Flowing
<1> QED BY <1>2, <1>3

(* What the page does to the runs, they may do by themselves.              *)
LEMMA PageStepsRuns == [PageNext]_allVars => [Next]_vars
<1> SUFFICES ASSUME [PageNext]_allVars PROVE [Next]_vars
  OBVIOUS
<1>1. ASSUME NEW r \in Runs, Accept(r) \/ Step(r) PROVE Next
  BY <1>1 DEF Next
<1>2. ASSUME NEW g \in Reads, Flow(g) PROVE [Next]_vars
  <2>1. CASE Ask(g) \/ VerifyExternal(g)
    BY <2>1 DEF Ask, VerifyExternal
  <2>2. CASE Route(g)
    BY <1>1, <2>2 DEF Route
  <2>3. CASE Accepted(g) \/ ListRuns(g)
    BY <2>3 DEF Accepted, ListRuns
  <2>4. CASE Poll(g) \/ Load(g) \/ TakeDetail(g) \/ TakeFailure(g)
    BY <2>4 DEF Poll, Load, TakeDetail, TakeFailure
  <2> QED BY <1>2, <2>1, <2>2, <2>3, <2>4 DEF Flow
<1>3. CASE ServerCrash
  BY <1>3 DEF ServerCrash, Next
<1>4. CASE UNCHANGED allVars
  BY <1>4 DEF allVars
<1> QED BY <1>1, <1>2, <1>3, <1>4 DEF PageNext

LEMMA PageTypeInit == PageInit => PageType
<1> SUFFICES ASSUME PageInit PROVE PageType
  OBVIOUS
<1>1. NoRead \in [status : Status, final : Totals]
  BY DEF NoRead, Status, Totals, NoTotals
<1>2. NoDetail \in [status : Status, claims : Seq(Verdict)]
  BY DEF NoDetail, Status
<1> QED BY <1>1, <1>2 DEF PageInit, ReadInit, PageType, Phase

FlowTypes ==
    /\ target \in [Reads -> Runs \cup {NoRun}]
    /\ phase \in [Reads -> Phase]
    /\ last \in [Reads -> [status : Status, claims : Seq(Verdict)]]
    /\ doing \in [Reads -> {"none", "ask", "verify", "load"}]

QueryTypes ==
    /\ stage \in [Reads -> {"idle"} \cup UnderWay \cup Answers]
    /\ rowSeen \in [Reads -> [status : Status, final : Totals]]
    /\ seen \in [Reads -> Seq(Verdict)]
    /\ votesSeen \in [Reads -> Seq(Votes)]

LEMMA TypeParts ==
    /\ PageType <=> FlowTypes /\ QueryTypes /\ runid \in Runs \cup {NoRun}
    /\ PageType' <=> FlowTypes' /\ QueryTypes' /\ runid' \in Runs \cup {NoRun}
BY DEF PageType, FlowTypes, QueryTypes

LEMMA EndType == ASSUME FlowTypes, NEW g \in Reads, End(g) PROVE FlowTypes'
<1>1. NoDetail \in [status : Status, claims : Seq(Verdict)]
  BY DEF NoDetail, Status
<1>2. /\ target' \in [Reads -> Runs \cup {NoRun}]
      /\ phase' \in [Reads -> Phase]
      /\ doing' \in [Reads -> {"none", "ask", "verify", "load"}]
  BY DEF End, FlowTypes, Phase
<1>3. last' \in [Reads -> [status : Status, claims : Seq(Verdict)]]
  BY <1>1 DEF End, FlowTypes
<1> QED BY <1>2, <1>3 DEF FlowTypes

LEMMA GetRunType == ASSUME QueryTypes, NEW g \in Reads, GetRun(g) PROVE QueryTypes'
BY DEF GetRun, QueryTypes, UnderWay

LEMMA AnsweredType == ASSUME QueryTypes, NEW g \in Reads, Answered(g) PROVE QueryTypes'
<1>1. NoRead \in [status : Status, final : Totals]
  BY DEF NoRead, Status, Totals, NoTotals
<1>2. rowSeen' \in [Reads -> [status : Status, final : Totals]]
  BY <1>1 DEF Answered, QueryTypes
<1>3. /\ stage' \in [Reads -> {"idle"} \cup UnderWay \cup Answers]
      /\ seen' \in [Reads -> Seq(Verdict)] /\ votesSeen' \in [Reads -> Seq(Votes)]
  BY DEF Answered, QueryTypes
<1> QED BY <1>2, <1>3 DEF QueryTypes

LEMMA PageTypeStep ==
    ASSUME StoreInv, PageType, \A g \in Reads : FlowInv(g), [PageNext]_allVars
    PROVE  PageType'
<1> USE DEF UnderWay, Answers, Phase
<1>3. ASSUME NEW g \in Reads, ReadStep(g), UNCHANGED <<vars, pageVars>> PROVE PageType'
  <2>1. PICK r \in Runs \cup {NoRun} : r = target[g]
    BY DEF PageType
  <2>2. Flowing(g, r)
    BY <2>1 DEF FlowInv
  <2>3. UNCHANGED <<target, doing, phase, last, runid>>
    BY <1>3 DEF ReadStep, ReadRun, ReadClaims, ReadVerifications, Unavailable, pageVars
  <2>4. CASE ReadRun(g)
    <3>1. r \in Runs
      BY <2>2, <2>4, <2>1 DEF ReadRun, Flowing, ReadInv
    <3>2. [status |-> status[r], final |-> final[r]] \in [status : Status, final : Totals]
      BY <3>1 DEF StoreInv, TypeOK
    <3>3. rowSeen' \in [Reads -> [status : Status, final : Totals]]
      BY <2>1, <2>4, <3>2 DEF ReadRun, PageType
    <3>4. stage' \in [Reads -> {"idle"} \cup UnderWay \cup Answers]
      BY <2>4 DEF ReadRun, PageType
    <3> QED BY <2>3, <2>4, <3>3, <3>4 DEF ReadRun, PageType
  <2>5. CASE ReadClaims(g)
    <3>1. ClaimsOf(r) \in Seq(Verdict)
      BY <1>3, <2>1, <2>2, <2>5, ClaimsReadOk
    <3>2. seen' \in [Reads -> Seq(Verdict)]
      BY <2>1, <2>5, <3>1 DEF ReadClaims, PageType
    <3>3. stage' \in [Reads -> {"idle"} \cup UnderWay \cup Answers]
      BY <2>5 DEF ReadClaims, PageType
    <3> QED BY <2>3, <2>5, <3>2, <3>3 DEF ReadClaims, PageType
  <2>6. CASE ReadVerifications(g)
    <3>1. /\ votesSeen' = [votesSeen EXCEPT ![g] = votesSeen'[g]]
          /\ votesSeen'[g] \in Seq(Votes)
      BY <1>3, <2>1, <2>2, <2>6, VotesReadOk
    <3>2. votesSeen' \in [Reads -> Seq(Votes)]
      BY <3>1 DEF PageType
    <3>3. stage' \in [Reads -> {"idle"} \cup UnderWay \cup Answers]
      BY <2>6 DEF ReadVerifications, PageType
    <3> QED BY <2>3, <2>6, <3>2, <3>3 DEF ReadVerifications, PageType
  <2>7. CASE Unavailable(g)
    BY <2>3, <2>7 DEF Unavailable, PageType
  <2> QED BY <1>3, <2>4, <2>5, <2>6, <2>7 DEF ReadStep
<1>4. ASSUME NEW g \in Reads, Flow(g) PROVE PageType'
  <2>1. CASE Ask(g) \/ VerifyExternal(g)
    BY <2>1 DEF Ask, VerifyExternal, Begin, PageType, readVars
  <2>2. FlowTypes /\ QueryTypes /\ runid \in Runs \cup {NoRun}
    BY TypeParts
  <2>3. CASE Route(g)
    <3>1. QueryTypes' /\ runid' = runid
      BY <2>2, <2>3 DEF Route, query, QueryTypes
    <3>2. ASSUME NEW q \in Runs, target' = [target EXCEPT ![g] = q],
                 phase' = [phase EXCEPT ![g] = "accepted"], UNCHANGED <<doing, last>>
          PROVE  FlowTypes'
      BY <2>2, <3>2 DEF FlowTypes
    <3>3. FlowTypes'
      BY <2>2, <2>3, <3>2, EndType DEF Route
    <3> QED BY <2>2, <3>1, <3>3, TypeParts
  <2>4. CASE Accepted(g)
    <3>1. QueryTypes'
      <4>1. CASE UNCHANGED query
        BY <2>2, <4>1 DEF query, QueryTypes
      <4> QED BY <2>2, <2>4, <4>1, GetRunType DEF Accepted
    <3>2. ASSUME phase' = [phase EXCEPT ![g] = "polling"], UNCHANGED <<doing, last, target>>
          PROVE  FlowTypes'
      BY <2>2, <3>2 DEF FlowTypes
    <3>3. FlowTypes'
      BY <2>2, <2>4, <3>2, EndType DEF Accepted
    <3>4. runid' \in Runs \cup {NoRun}
      BY <2>2, <2>4 DEF Accepted, FlowTypes
    <3> QED BY <3>1, <3>3, <3>4, TypeParts
  <2>5. CASE Poll(g)
    <3>1. QueryTypes'
      BY <2>2, <2>5, GetRunType DEF Poll
    <3>2. FlowTypes' /\ runid' = runid
      BY <2>2, <2>5 DEF Poll, FlowTypes
    <3> QED BY <2>2, <3>1, <3>2, TypeParts
  <2>6. CASE Load(g)
    <3>1. QueryTypes'
      <4>1. CASE UNCHANGED query
        BY <2>2, <4>1 DEF query, QueryTypes
      <4> QED BY <2>2, <2>6, <4>1, GetRunType DEF Load
    <3>2. /\ runid' = runid /\ last' = last
          /\ phase' \in [Reads -> Phase]
          /\ doing' \in [Reads -> {"none", "ask", "verify", "load"}]
      BY <2>2, <2>6 DEF Load, Begin, FlowTypes
    <3>3. target' \in [Reads -> Runs \cup {NoRun}]
      BY <2>2, <2>6 DEF Load, FlowTypes
    <3> QED BY <2>2, <3>1, <3>2, <3>3, TypeParts DEF FlowTypes
  <2>7. CASE ListRuns(g)
    <3>1. QueryTypes'
      <4>1. CASE UNCHANGED query
        BY <2>2, <4>1 DEF query, QueryTypes
      <4> QED BY <2>2, <2>7, <4>1, GetRunType DEF ListRuns
    <3>2. ASSUME NEW q \in Runs, target' = [target EXCEPT ![g] = q],
                 phase' = [phase EXCEPT ![g] = "loading"], UNCHANGED <<doing, last>>
          PROVE  FlowTypes'
      BY <2>2, <3>2 DEF FlowTypes
    <3>3. FlowTypes'
      BY <2>2, <2>7, <3>2, EndType DEF ListRuns
    <3>4. runid' \in Runs \cup {NoRun}
      BY <2>2, <2>7 DEF ListRuns
    <3> QED BY <3>1, <3>3, <3>4, TypeParts
  <2>8. CASE TakeDetail(g) \/ TakeFailure(g)
    <3>1. QueryTypes' /\ runid' = runid
      BY <2>2, <2>8, AnsweredType DEF TakeDetail, TakeFailure
    <3>2. Shown(g) \in [status : Status, claims : Seq(Verdict)]
      BY <2>2 DEF Shown, QueryTypes
    <3>3. ASSUME last' = [last EXCEPT ![g] = Shown(g)], UNCHANGED <<doing, phase, target>>
          PROVE  FlowTypes'
      BY <2>2, <3>2, <3>3 DEF FlowTypes
    <3>4. FlowTypes'
      BY <2>2, <2>8, <3>3, EndType DEF TakeDetail, TakeFailure
    <3> QED BY <2>2, <3>1, <3>4, TypeParts
  <2> QED BY <1>4, <2>1, <2>3, <2>4, <2>5, <2>6, <2>7, <2>8 DEF Flow
<1>5. CASE ServerCrash
  BY <1>5 DEF ServerCrash, PageType, pageVars
<1>6. CASE UNCHANGED <<readVars, pageVars>>
  BY <1>6 DEF readVars, pageVars, PageType
<1> QED BY <1>3, <1>4, <1>5, <1>6 DEF PageNext, allVars

LEMMA FlowStep ==
    ASSUME StoreInv, StoreInv', PageType, \A g \in Reads : FlowInv(g), [PageNext]_allVars
    PROVE  \A g \in Reads : FlowInv(g)'
<1> SUFFICES ASSUME NEW d \in Reads PROVE FlowInv(d)'
  OBVIOUS
<1>1. TypeOK /\ TypeOK'
  BY DEF StoreInv
<1>2. \A q \in Runs : RunKept(q)
  BY PageStepsRuns, RunsKept
<1>3. PICK r \in Runs \cup {NoRun} : r = target[d]
  BY DEF PageType
<1>4. Flowing(d, r)
  BY <1>3 DEF FlowInv
<1>5. ASSUME \E q \in Runs \cup {NoRun} : target'[d] = q /\ Flowing(d, q)'
      PROVE  FlowInv(d)'
  BY <1>5 DEF FlowInv
<1>6. ASSUME UNCHANGED target[d], Flowing(d, r)' PROVE FlowInv(d)'
  BY <1>3, <1>6 DEF FlowInv
<1>7. ASSUME FlowSame(d) PROVE FlowInv(d)'
  <2>1. Flowing(d, r)'
    BY <1>1, <1>2, <1>4, <1>7, FlowKept DEF FlowSame
  <2> QED BY <1>6, <1>7, <2>1 DEF FlowSame
<1>8. ASSUME NEW g \in Reads, ReadStep(g), UNCHANGED <<vars, pageVars>>
      PROVE  FlowInv(d)'
  <2>1. CASE g # d
    <3>1. UNCHANGED pageVars
      BY <1>8
    <3> QED BY <1>7, <1>8, <2>1, <3>1, OtherFlows
  <2>2. CASE g = d
    <3>1. UNCHANGED target[d]
      BY <1>8, <2>2 DEF ReadStep, ReadRun, ReadClaims, ReadVerifications, Unavailable
    <3>2. CASE ReadRun(d)
      BY <1>3, <1>4, <1>6, <1>8, <3>1, <3>2, RunReadOk
    <3>3. CASE ReadClaims(d)
      BY <1>3, <1>4, <1>6, <1>8, <3>1, <3>3, ClaimsReadOk
    <3>4. CASE ReadVerifications(d)
      BY <1>3, <1>4, <1>6, <1>8, <3>1, <3>4, VotesReadOk
    <3>5. CASE Unavailable(d)
      <4>1. /\ UNCHANGED <<rowSeen[d], seen[d], votesSeen[d], phase[d], last[d]>>
            /\ stage[d] \in UnderWay /\ stage'[d] = "unavailable"
        BY <1>8, <3>5 DEF Unavailable, pageVars, PageType
      <4>2. Flowing(d, r)'
        BY <1>1, <1>2, <1>4, <4>1, FlowKept
      <4> QED BY <1>6, <3>1, <4>2
    <3> QED BY <1>8, <2>2, <3>2, <3>3, <3>4, <3>5 DEF ReadStep
  <2> QED BY <2>1, <2>2
<1>9. ASSUME NEW g \in Reads, Flow(g) PROVE FlowInv(d)'
  <2>1. CASE g # d
    BY <1>7, <1>9, <2>1, OtherFlows
  <2>2. CASE g = d
    <3>1. CASE Ask(d) \/ VerifyExternal(d)
      BY <1>3, <1>4, <1>5, <3>1, AskOk
    <3>2. CASE Route(d)
      BY <1>3, <1>4, <1>5, <3>2, RouteOk
    <3>3. CASE Accepted(d)
      BY <1>3, <1>4, <1>5, <3>3, AcceptedOk
    <3>4. CASE Poll(d)
      BY <1>3, <1>4, <1>5, <3>4, PollOk
    <3>5. CASE Load(d)
      BY <1>3, <1>4, <1>5, <3>5, LoadOk
    <3>6. CASE ListRuns(d)
      BY <1>3, <1>4, <1>5, <3>6, ListOk
    <3>7. CASE TakeDetail(d) \/ TakeFailure(d)
      BY <1>3, <1>4, <1>5, <3>7, TakeOk
    <3> QED BY <1>9, <2>2, <3>1, <3>2, <3>3, <3>4, <3>5, <3>6, <3>7 DEF Flow
  <2> QED BY <2>1, <2>2
<1>10. CASE ServerCrash
  <2>1. /\ UNCHANGED <<rowSeen[d], seen[d], votesSeen[d], phase[d], last[d], target[d]>>
        /\ \/ stage'[d] = stage[d]
           \/ stage[d] \in UnderWay /\ stage'[d] = "unavailable"
    BY <1>10 DEF ServerCrash, pageVars
  <2>2. Flowing(d, r)'
    BY <1>1, <1>2, <1>4, <2>1, FlowKept
  <2> QED BY <1>6, <2>1, <2>2
<1>11. CASE UNCHANGED <<readVars, pageVars>>
  <2>1. FlowSame(d)
    BY <1>11 DEF FlowSame, readVars, pageVars
  <2> QED BY <1>7, <2>1
<1> QED BY <1>8, <1>9, <1>10, <1>11 DEF PageNext, allVars

LEMMA AlwaysFlowing ==
    PageSpec => [](StoreInv /\ PageType /\ \A g \in Reads : FlowInv(g))
<1> DEFINE AllFlowing == \A g \in Reads : FlowInv(g)
<1>1. PageInit => Init
  BY DEF PageInit, ReadInit
<1>2. [PageNext]_allVars => [Next]_vars
  BY PageStepsRuns
<1>3. PageSpec => Spec
  BY <1>1, <1>2, PTL DEF PageSpec, Spec
<1>4. PageSpec => []StoreInv
  BY <1>3, AlwaysStored, PTL
<1>5. PageInit => PageType
  BY PageTypeInit
<1>6. PageInit => AllFlowing
  <2> SUFFICES ASSUME PageInit, NEW g \in Reads, NEW r \in Runs \cup {NoRun}
               PROVE  Flowing(g, r)
    BY DEF FlowInv
  <2>1. /\ stage[g] = "idle" /\ seen[g] = << >> /\ votesSeen[g] = << >>
        /\ phase[g] = "off" /\ last[g] = NoDetail
    BY DEF PageInit, ReadInit
  <2> QED BY <2>1 DEF Flowing, ReadInv, LastInv, PhaseInv, UnderWay
<1>7. StoreInv /\ StoreInv' /\ PageType /\ AllFlowing /\ [PageNext]_allVars
          => PageType' /\ AllFlowing'
  BY PageTypeStep, FlowStep
<1>8. PageSpec => [](StoreInv /\ PageType /\ AllFlowing)
  <2> HIDE DEF AllFlowing
  <2> QED BY <1>4, <1>5, <1>6, <1>7, PTL DEF PageSpec
<1> QED BY <1>8

(* Although it is put together from separate reads of tables that are      *)
(* being written, a detail that says complete has every claim its row      *)
(* counts, each with the verifications that explain its verdict, and the   *)
(* scores of these claims; a detail of a run still going on may lack       *)
(* verifications of its last claim, no others.                             *)
THEOREM DetailsAreWhole == PageSpec => []DetailIsWhole
<1>1. StoreInv /\ PageType /\ (\A g \in Reads : FlowInv(g)) => DetailIsWhole
  <2> SUFFICES ASSUME StoreInv, PageType, \A d \in Reads : FlowInv(d),
                      NEW g \in Reads, stage[g] = "detail"
               PROVE  /\ \A i \in 1..(Len(seen[g]) - 1) :
                             Reconcile(votesSeen[g][i]) = seen[g][i]
                      /\ rowSeen[g].status = "complete" =>
                            /\ \A i \in 1..Len(seen[g]) :
                                  Reconcile(votesSeen[g][i]) = seen[g][i]
                            /\ rowSeen[g].final =
                                 [total      |-> Len(seen[g]),
                                  grounded   |-> Seen(g, {"GROUNDED"}),
                                  fragile    |-> Seen(g, {"FRAGILE"}),
                                  verifiable |-> Seen(g, Verdict \ {"UNVERIFIABLE"})]
    BY DEF DetailIsWhole
  <2>1. PICK r \in Runs \cup {NoRun} : r = target[g]
    BY DEF PageType
  <2>2. ReadInv(g, r) /\ r \in Runs
    BY <2>1 DEF FlowInv, Flowing, ReadInv
  <2>3. PICK m \in Nat : m = Len(seen[g]) /\ m = Len(votesSeen[g])
    BY <2>2 DEF ReadInv, PageType
  <2>4. \A i \in 1..m : i < m \/ rowSeen[g].status = "complete" =>
            Reconcile(votesSeen[g][i]) = seen[g][i]
    BY <2>2, <2>3 DEF ReadInv
  <2>5. \A i \in 1..(m - 1) : Reconcile(votesSeen[g][i]) = seen[g][i]
    BY <2>4
  <2>6. ASSUME rowSeen[g].status = "complete"
        PROVE  rowSeen[g].final =
                   [total      |-> Len(seen[g]),
                    grounded   |-> Seen(g, {"GROUNDED"}),
                    fragile    |-> Seen(g, {"FRAGILE"}),
                    verifiable |-> Seen(g, Verdict \ {"UNVERIFIABLE"})]
    <3>1. Whole(r) /\ rowSeen[g].final = final[r] /\ Len(claims[r]) = m
      BY <2>2, <2>3, <2>6 DEF ReadInv, Done
    <3>2. ASSUME NEW V PROVE RowVerdicts(r, V) = Seen(g, V)
      <4>1. DOMAIN seen[g] = 1..m
        <5>1. PICK s \in Seq(Verdict) : s = seen[g]
          BY DEF PageType
        <5>2. DOMAIN s = 1..Len(s)
          OBVIOUS
        <5> QED BY <2>3, <5>1, <5>2
      <4>2. \A i \in 1..m : claimRow[r][i].verdict = seen[g][i]
        BY <2>2, <2>3 DEF ReadInv, Shows
      <4>3. {i \in 1..Len(claims[r]) : claimRow[r][i].verdict \in V}
                = {i \in DOMAIN seen[g] : seen[g][i] \in V}
        BY <3>1, <4>1, <4>2
      <4> QED BY <4>3 DEF RowVerdicts, Seen
    <3> QED BY <2>3, <3>1, <3>2 DEF Whole
  <2> QED BY <2>3, <2>4, <2>5, <2>6
<1> QED BY <1>1, AlwaysFlowing, PTL

(* A page that polls sees the run only go forward: no answer it gets after *)
(* a rendered one has an earlier status or lacks or changes a claim, and   *)
(* the run never turns into an unknown one.                                *)
THEOREM PagesMoveForward == PageSpec => []PollsMoveForward
<1>1. StoreInv /\ PageType /\ (\A g \in Reads : FlowInv(g)) => PollsMoveForward
  <2> SUFFICES ASSUME StoreInv, PageType, \A d \in Reads : FlowInv(d),
                      NEW g \in Reads, last[g] # NoDetail
               PROVE  /\ stage[g] # "not_found"
                      /\ stage[g] = "detail" => Forward(last[g], Shown(g))
    BY DEF PollsMoveForward
  <2>1. PICK r \in Runs \cup {NoRun} : r = target[g]
    BY DEF PageType
  <2>2. ReadInv(g, r) /\ LastInv(g, r)
    BY <2>1 DEF FlowInv, Flowing
  <2>3. stage[g] # "not_found"
    BY <2>2 DEF LastInv
  <2>4. ASSUME stage[g] = "detail" PROVE Forward(last[g], Shown(g))
    <3>1. PICK old \in Seq(Verdict), new \in Seq(Verdict) :
              old = last[g].claims /\ new = seen[g]
      BY DEF PageType
    <3>2. /\ Progress[last[g].status] <= Progress[rowSeen[g].status]
          /\ Len(old) <= Len(new)
          /\ Shows(old, claimRow[r]) /\ Shows(new, claimRow[r])
      BY <2>2, <2>4, <3>1 DEF ReadInv, LastInv
    <3>3. PICK m \in Nat, n \in Nat : m = Len(old) /\ n = Len(new) /\ m <= n
      BY <3>2
    <3>4. \A i \in 1..m : old[i] = new[i]
      BY <3>2, <3>3 DEF Shows
    <3>5. old = SubSeq(new, 1, m)
      BY <3>3, <3>4
    <3> QED BY <3>1, <3>2, <3>3, <3>5 DEF Forward, Shown
  <2> QED BY <2>3, <2>4
<1> QED BY <1>1, AlwaysFlowing, PTL

=============================================================================
