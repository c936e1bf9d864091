---------------------------- MODULE Orchestrator ----------------------------
(***************************************************************************)
(* attest/orchestrator.py: verification runs, each an asyncio task started *)
(* by POST /observe, sharing one store and one adversarial prober.  A step *)
(* goes from one suspension point of the task to the next: it is one call  *)
(* to the store (a thread) or to a verifier (the network), and the         *)
(* synchronous code that follows it, events included (publishing an event  *)
(* never suspends).  Steps of different runs interleave.                   *)
(***************************************************************************)
EXTENDS Reconciler, Sequences

CONSTANTS
    Runs,                \* the runs this process is asked for
    MaxClaims,           \* claims a decomposition may return, at most
    MaxProbes,           \* mutations per claim (_MAX_PROBES)
    Budget,              \* config.budget_usd, in cost units
    MaxCallCost,         \* the cost a verifier reports for one claim, at most
    EntailmentOutcomes,  \* what entailment.verify may answer
    ProberOutcomes,      \* what prober.verify may answer
    IndependentOutcomes, \* what independent.verify may answer
    MaxFaults,           \* bound: store calls that may fail
    MaxCrashes           \* bound: process crashes

Vote == Verdict \cup {NoVote}

ASSUME OrchestratorAssumption ==
    /\ MaxClaims \in Nat
    /\ MaxProbes \in Nat
    /\ Budget \in Nat \ {0}
    /\ MaxCallCost \in Nat
    /\ MaxFaults \in Nat
    /\ MaxCrashes \in Nat
    /\ EntailmentOutcomes \subseteq [vote : Vote, cost : 0..MaxCallCost]
    /\ ProberOutcomes \subseteq
           [vote : Vote, cost : 0..MaxCallCost, probes : 0..MaxProbes]
    /\ IndependentOutcomes \subseteq Vote

VARIABLES
    \* the tasks
    pc,         \* where each run's task is suspended
    config,     \* the optional verifiers the request enables
    claims,     \* what decompose returned: the kind of each claim
    idx,        \* the claim the loop is at
    cost,       \* total_cost
    vote,       \* the votes on the current claim
    todo,       \* the verifiers whose verification is still to be saved
    probeQ,     \* the probes still to be saved
    details,    \* claim_details: the verdicts of the finished claims
    lastProbes, \* AdversarialProber.last_probes, one object for all runs
    \* the store
    status,     \* runs.status, "absent" without a row
    final,      \* what finalize_run wrote
    claimRow,   \* claims: the verdict of each claim and who settled it
    verRow,     \* verifications: the vote of each verifier on each claim
    probeRows,  \* probes: the ids present
    \* the event bus
    log,        \* the events published for each run, in order
    \* environment bounds
    faults, crashes

task  == <<config, claims, idx, cost, vote, todo, probeQ, details>>
rows  == <<final, claimRow, verRow, probeRows>>
store == <<status, rows>>
bounds == <<faults, crashes>>
vars  == <<pc, task, lastProbes, store, log, bounds>>

ClaimNo == 1..MaxClaims

Probe == [run : Runs, claim : ClaimNo, no : 1..MaxProbes]

Config == [prober : BOOLEAN, independent : BOOLEAN]

(* A claim the decomposer marked is_unverifiable arrives with its verdict. *)
Kind == {"checkable", "opinion"}

SettledBy == {"nobody", "decomposer", "budget", "verifiers"}

ClaimRow == [verdict : Vote, by : SettledBy]

NoRow == [verdict |-> NoVote, by |-> "nobody"]

NoVotes == [u \in Verifier |-> NoVote]

Status == {"absent", "pending", "running", "complete", "error", "skipped"}

Totals == [total : Nat, grounded : Nat, fragile : Nat, verifiable : Nat]

NoTotals == [total |-> 0, grounded |-> 0, fragile |-> 0, verifiable |-> 0]

Event == [ev : {"run.started", "claims.decomposed", "probe.completed",
                "claim.verified", "run.completed", "run.error"},
          claim : Nat, info : Vote \cup Status]

Terminal == {"run.completed", "run.error"}

(* Suspended in a call: Active. Ended: returned, raised out of run(), or   *)
(* gone with the process.                                                  *)
Active == {"queued", "create", "skip", "mark_running", "save_chunks",
           "decompose", "decompose_failed", "claim", "second", "save_rows",
           "save_probe", "abort"}

Ended == {"returned", "raised", "lost"}

-----------------------------------------------------------------------------
(* A call to the store is applied and returns ("ok"), raises without       *)
(* effect ("failed"), or raises though the database applied it ("late": a  *)
(* timeout after the commit).                                              *)
Outcome == {"ok", "failed", "late"}

Applied(o) == o # "failed"

CountFault(o) ==
    IF o = "ok" THEN UNCHANGED faults
    ELSE faults < MaxFaults /\ faults' = faults + 1

Goto(r, label) == pc' = [pc EXCEPT ![r] = label]

(* Defective variant: a store error is swallowed and the run goes on.      *)
ProceedRegardless(r, o, label) == Goto(r, label)

(* Where the task goes after a store call inside one of run()'s try blocks.*)
Proceed(r, o, label) == Goto(r, IF o = "ok" THEN label ELSE "abort")

Ev(name, claim, info) == [ev |-> name, claim |-> claim, info |-> info]

Publish(r, events) == log' = [log EXCEPT ![r] = @ \o events]

(* Defective variant: the event leaves before the outcome is known.        *)
PublishEagerly(cond, r, events) == Publish(r, events)

PublishIf(cond, r, events) == IF cond THEN Publish(r, events) ELSE UNCHANGED log

ClaimVerified(r, v) == Ev("claim.verified", idx[r], v)

(* Defective variant: the update inserts a missing row.                    *)
UpsertStatus(r, o, s) ==
    status' = IF Applied(o) THEN [status EXCEPT ![r] = s] ELSE status

(* update_run_status: an UPDATE by id, without effect when there is no row.*)
SetStatus(r, o, s) ==
    status' = IF Applied(o) /\ status[r] # "absent"
              THEN [status EXCEPT ![r] = s] ELSE status

Count(s, V) == Cardinality({k \in DOMAIN s : s[k] \in V})

(* Defective variant: UNVERIFIABLE claims stay in the denominator.         *)
ScoreOfAll(s) == [total      |-> Len(s),
                  grounded   |-> Count(s, {"GROUNDED"}),
                  fragile    |-> Count(s, {"FRAGILE"}),
                  verifiable |-> Len(s)]

(* _score's two ratios, as numerators and their common denominator, with   *)
(* len(claim_details).                                                     *)
Score(s) == [total      |-> Len(s),
             grounded   |-> Count(s, {"GROUNDED"}),
             fragile    |-> Count(s, {"FRAGILE"}),
             verifiable |-> Count(s, Verdict \ {"UNVERIFIABLE"})]

-----------------------------------------------------------------------------
Init ==
    /\ pc = [r \in Runs |-> "idle"]
    /\ config \in [Runs -> Config]
    /\ claims = [r \in Runs |-> << >>]
    /\ idx = [r \in Runs |-> 1]
    /\ cost = [r \in Runs |-> 0]
    /\ vote = [r \in Runs |-> NoVotes]
    /\ todo = [r \in Runs |-> {}]
    /\ probeQ = [r \in Runs |-> << >>]
    /\ details = [r \in Runs |-> << >>]
    /\ lastProbes = << >>
    /\ status = [r \in Runs |-> "absent"]
    /\ final = [r \in Runs |-> NoTotals]
    /\ claimRow = [r \in Runs |-> [i \in ClaimNo |-> NoRow]]
    /\ verRow = [r \in Runs |-> [i \in ClaimNo |-> NoVotes]]
    /\ probeRows = {}
    /\ log = [r \in Runs |-> << >>]
    /\ faults = 0
    /\ crashes = 0

(* POST /observe answers 202 and leaves run() to a background task; the    *)
(* run has no row yet.                                                     *)
Accept(r) ==
    /\ pc[r] = "idle"
    /\ Goto(r, "queued")
    /\ UNCHANGED <<task, lastProbes, store, log, bounds>>

Start(r) ==
    /\ pc[r] = "queued"
    /\ Goto(r, "create")
    /\ Publish(r, <<Ev("run.started", 0, "pending")>>)
    /\ UNCHANGED <<task, lastProbes, store, bounds>>

(* create_run, then sample(): either side of the coin.                     *)
CreateRun(r) ==
    /\ pc[r] = "create"
    /\ \E o \in Outcome, next \in {"skip", "mark_running"} :
          /\ CountFault(o)
          /\ status' = IF Applied(o) THEN [status EXCEPT ![r] = "pending"]
                       ELSE status
          /\ Proceed(r, o, next)
    /\ UNCHANGED <<task, lastProbes, rows, log, crashes>>

MarkSkipped(r) ==
    /\ pc[r] = "skip"
    /\ \E o \in Outcome :
          /\ CountFault(o)
          /\ SetStatus(r, o, "skipped")
          /\ Proceed(r, o, "returned")
          /\ PublishIf(o = "ok", r, <<Ev("run.completed", 0, "skipped")>>)
    /\ UNCHANGED <<task, lastProbes, rows, crashes>>

MarkRunning(r) ==
    /\ pc[r] = "mark_running"
    /\ \E o \in Outcome :
          /\ CountFault(o)
          /\ SetStatus(r, o, "running")
          /\ Proceed(r, o, "save_chunks")
    /\ UNCHANGED <<task, lastProbes, rows, log, crashes>>

(* The chunk rows are data no property reads.                              *)
SaveChunks(r) ==
    /\ pc[r] = "save_chunks"
    /\ \E o \in Outcome : CountFault(o) /\ Proceed(r, o, "decompose")
    /\ UNCHANGED <<task, lastProbes, store, log, crashes>>

(* decompose() answers with any list of claims, the empty one included.    *)
Decompose(r) ==
    /\ pc[r] = "decompose"
    /\ \E n \in 0..MaxClaims : \E cs \in [1..n -> Kind] :
          claims' = [claims EXCEPT ![r] = cs]
    /\ Publish(r, <<Ev("claims.decomposed", 0, "running")>>)
    /\ Goto(r, "claim")
    /\ UNCHANGED <<config, idx, cost, vote, todo, probeQ, details,
                   lastProbes, store, bounds>>

DecomposeRaises(r) ==
    /\ pc[r] = "decompose"
    /\ Goto(r, "decompose_failed")
    /\ UNCHANGED <<task, lastProbes, store, log, bounds>>

(* The handler's status update is not guarded: when it raises, run()       *)
(* raises and its caller, _run_in_background, only logs that.              *)
FailDecompose(r) ==
    /\ pc[r] = "decompose_failed"
    /\ \E o \in Outcome :
          /\ CountFault(o)
          /\ SetStatus(r, o, "error")
          /\ Goto(r, IF o = "ok" THEN "returned" ELSE "raised")
          /\ PublishIf(o = "ok", r, <<Ev("run.error", 0, "error")>>)
    /\ UNCHANGED <<task, lastProbes, rows, crashes>>

-----------------------------------------------------------------------------
(* The loop over the claims.                                               *)

AtClaim(r, kind) ==
    /\ pc[r] = "claim"
    /\ idx[r] <= Len(claims[r])
    /\ claims[r][idx[r]] = kind

InsertClaim(r, o, row) ==
    claimRow' = IF Applied(o) THEN [claimRow EXCEPT ![r][idx[r]] = row]
                ELSE claimRow

(* Defective variant: the loop index advances twice.                       *)
FinishTwoClaims(r, v) ==
    /\ details' = [details EXCEPT ![r] = Append(@, v)]
    /\ idx' = [idx EXCEPT ![r] = @ + 2]
    /\ vote' = [vote EXCEPT ![r] = NoVotes]

(* The end of the loop body: remember the verdict, go to the next claim.   *)
FinishClaim(r, v) ==
    /\ details' = [details EXCEPT ![r] = Append(@, v)]
    /\ idx' = [idx EXCEPT ![r] = @ + 1]
    /\ vote' = [vote EXCEPT ![r] = NoVotes]

(* A claim that is not sent to the verifiers: saved as UNVERIFIABLE.       *)
SettleUnverified(r, by) ==
    /\ \E o \in Outcome :
          /\ CountFault(o)
          /\ InsertClaim(r, o, [verdict |-> "UNVERIFIABLE", by |-> by])
          /\ Proceed(r, o, "claim")
          /\ IF o = "ok" THEN FinishClaim(r, "UNVERIFIABLE")
             ELSE UNCHANGED <<details, idx, vote>>
          /\ PublishIf(o = "ok", r, <<ClaimVerified(r, "UNVERIFIABLE")>>)
    /\ UNCHANGED <<config, claims, cost, todo, probeQ, lastProbes, status,
                   final, verRow, probeRows, crashes>>

SaveResolved(r) ==
    /\ AtClaim(r, "opinion")
    /\ SettleUnverified(r, "decomposer")

SaveBudgetExceeded(r) ==
    /\ AtClaim(r, "checkable")
    /\ cost[r] >= Budget
    /\ SettleUnverified(r, "budget")

(* Entailment answers first; whether budget is left after it decides on    *)
(* the second pass.                                                        *)
EntailmentReturns(r, o, left) ==
    /\ cost' = [cost EXCEPT ![r] = @ + o.cost]
    /\ vote' = [vote EXCEPT ![r]["entailment"] = o.vote]
    /\ todo' = [todo EXCEPT ![r] =
           {u \in {"prober", "independent"} : config[r][u] /\ left}]
    /\ Goto(r, "second")
    /\ UNCHANGED <<config, claims, idx, probeQ, details, lastProbes, store,
                   log, bounds>>

(* Defective variants: the second pass is decided on the cost before the   *)
(* entailment call; no budget is checked before that call.                 *)
RunEntailmentStaleCost(r) ==
    /\ AtClaim(r, "checkable")
    /\ cost[r] < Budget
    /\ \E o \in EntailmentOutcomes : EntailmentReturns(r, o, cost[r] < Budget)

RunEntailmentUnbudgeted(r) ==
    /\ AtClaim(r, "checkable")
    /\ \E o \in EntailmentOutcomes :
          EntailmentReturns(r, o, cost[r] + o.cost < Budget)

RunEntailment(r) ==
    /\ AtClaim(r, "checkable")
    /\ cost[r] < Budget
    /\ \E o \in EntailmentOutcomes :
          EntailmentReturns(r, o, cost[r] + o.cost < Budget)

(* gather() runs both concurrently; while pc is "second", todo holds those *)
(* still running. A verifier that raises leaves no vote. The prober leaves *)
(* its probes in last_probes as it returns; total_cost, which the code     *)
(* adds up after the gather, is not read before.                           *)
ProberReturns(r) ==
    /\ pc[r] = "second"
    /\ "prober" \in todo[r]
    /\ \E o \in ProberOutcomes :
          /\ vote' = [vote EXCEPT ![r]["prober"] = o.vote]
          /\ cost' = [cost EXCEPT ![r] = @ + o.cost]
          /\ lastProbes' =
                 IF o.vote = NoVote THEN lastProbes
                 ELSE [k \in 1..o.probes |->
                          [run |-> r, claim |-> idx[r], no |-> k]]
    /\ todo' = [todo EXCEPT ![r] = @ \ {"prober"}]
    /\ UNCHANGED <<pc, config, claims, idx, probeQ, details, store, log,
                   bounds>>

(* The independent verifier reports no cost_usd.                           *)
IndependentReturns(r) ==
    /\ pc[r] = "second"
    /\ "independent" \in todo[r]
    /\ \E v \in IndependentOutcomes : vote' = [vote EXCEPT ![r]["independent"] = v]
    /\ todo' = [todo EXCEPT ![r] = @ \ {"independent"}]
    /\ UNCHANGED <<pc, config, claims, idx, cost, probeQ, details,
                   lastProbes, store, log, bounds>>

(* Defective variant: the independent verification is never saved.         *)
SaveClaimForgetsOne(r) ==
    /\ pc[r] = "second"
    /\ todo[r] = {}
    /\ \E o \in Outcome :
          /\ CountFault(o)
          /\ InsertClaim(r, o, [verdict |-> Reconcile(vote[r]),
                                by |-> "verifiers"])
          /\ Proceed(r, o, "save_rows")
          /\ todo' = IF o = "ok"
                     THEN [todo EXCEPT ![r] = Ran(vote[r]) \ {"independent"}]
                     ELSE todo
    /\ UNCHANGED <<config, claims, idx, cost, vote, probeQ, details,
                   lastProbes, status, final, verRow, probeRows, log,
                   crashes>>

(* Both are back: reconcile and save the claim. From here on todo holds    *)
(* the votes whose verification rows are still to be saved.                *)
SaveClaim(r) ==
    /\ pc[r] = "second"
    /\ todo[r] = {}
    /\ \E o \in Outcome :
          /\ CountFault(o)
          /\ InsertClaim(r, o, [verdict |-> Reconcile(vote[r]),
                                by |-> "verifiers"])
          /\ Proceed(r, o, "save_rows")
          /\ todo' = IF o = "ok" THEN [todo EXCEPT ![r] = Ran(vote[r])] ELSE todo
    /\ UNCHANGED <<config, claims, idx, cost, vote, probeQ, details,
                   lastProbes, status, final, verRow, probeRows, log,
                   crashes>>

SaveVerification(r) ==
    /\ pc[r] = "save_rows"
    /\ \E u \in todo[r], o \in Outcome :
          /\ \A w \in todo[r] : Position[u] <= Position[w]
          /\ CountFault(o)
          /\ verRow' = IF Applied(o)
                       THEN [verRow EXCEPT ![r][idx[r]][u] = vote[r][u]]
                       ELSE verRow
          /\ Proceed(r, o, "save_rows")
          /\ todo' = IF o = "ok" THEN [todo EXCEPT ![r] = @ \ {u}] ELSE todo
    /\ UNCHANGED <<config, claims, idx, cost, vote, probeQ, details,
                   lastProbes, status, final, claimRow, probeRows, log,
                   crashes>>

(* get_probes, which reads what the shared prober holds now; it may raise, *)
(* which counts as no probes. No suspension separates this from the return *)
(* of the last save, but it touches nothing another run's step could see   *)
(* in between except last_probes, and that may change earlier as well.     *)
CollectProbes(r) ==
    /\ pc[r] = "save_rows"
    /\ todo[r] = {}
    /\ \E ps \in {lastProbes, << >>} :
          /\ vote[r]["prober"] = NoVote => ps = << >>
          /\ IF ps = << >>
             THEN /\ FinishClaim(r, Reconcile(vote[r]))
                  /\ Publish(r, <<ClaimVerified(r, Reconcile(vote[r]))>>)
                  /\ Goto(r, "claim")
                  /\ UNCHANGED probeQ
             ELSE /\ probeQ' = [probeQ EXCEPT ![r] = ps]
                  /\ Goto(r, "save_probe")
                  /\ UNCHANGED <<details, idx, vote, log>>
    /\ UNCHANGED <<config, claims, cost, todo, lastProbes, store, bounds>>

(* probes.id is a primary key and probes.claim_id a foreign key, so a      *)
(* second insert of a probe and the probe of an unsaved claim are refused. *)
Refused(p) ==
    \/ p \in probeRows
    \/ claimRow[p.run][p.claim].verdict = NoVote

SaveProbe(r) ==
    /\ pc[r] = "save_probe"
    /\ LET p    == Head(probeQ[r])
           last == Len(probeQ[r]) = 1
           verdict == Reconcile(vote[r])
       IN
       \E o \in Outcome :
          /\ IF Refused(p) THEN o = "failed" /\ UNCHANGED faults ELSE CountFault(o)
          /\ probeRows' = IF Applied(o) THEN probeRows \cup {p} ELSE probeRows
          /\ Proceed(r, o, IF last THEN "claim" ELSE "save_probe")
          /\ probeQ' = IF o = "ok" THEN [probeQ EXCEPT ![r] = Tail(@)] ELSE probeQ
          /\ IF o = "ok" /\ last THEN FinishClaim(r, verdict)
             ELSE UNCHANGED <<details, idx, vote>>
          /\ PublishIf(o = "ok", r,
                 <<Ev("probe.completed", idx[r], NoVote)>>
                 \o (IF last THEN <<ClaimVerified(r, verdict)>> ELSE << >>))
    /\ UNCHANGED <<config, claims, cost, todo, lastProbes, status, final,
                   claimRow, verRow, crashes>>

-----------------------------------------------------------------------------
(* finalize_run, then run.completed.                                       *)
Finalize(r) ==
    /\ pc[r] = "claim"
    /\ idx[r] > Len(claims[r])
    /\ \E o \in Outcome :
          /\ CountFault(o)
          /\ SetStatus(r, o, "complete")
          /\ final' = IF Applied(o)
                      THEN [final EXCEPT ![r] = Score(details[r])] ELSE final
          /\ Proceed(r, o, "returned")
          /\ PublishIf(o = "ok", r, <<Ev("run.completed", 0, "complete")>>)
    /\ UNCHANGED <<task, lastProbes, claimRow, verRow, probeRows, crashes>>

(* Defective variant: the status update of _abort_run is not guarded.      *)
AbortUnguarded(r) ==
    /\ pc[r] = "abort"
    /\ \E o \in Outcome :
          /\ CountFault(o)
          /\ SetStatus(r, o, "error")
          /\ PublishIf(o = "ok", r, <<Ev("run.error", 0, "error")>>)
    /\ Goto(r, "returned")
    /\ UNCHANGED <<task, lastProbes, rows, crashes>>

(* _abort_run: mark the row, whatever comes of it, and tell the stream.    *)
Abort(r) ==
    /\ pc[r] = "abort"
    /\ \E o \in Outcome : CountFault(o) /\ SetStatus(r, o, "error")
    /\ Goto(r, "returned")
    /\ Publish(r, <<Ev("run.error", 0, "error")>>)
    /\ UNCHANGED <<task, lastProbes, rows, crashes>>

(* The process dies with its tasks and its prober. Nothing resumes a run   *)
(* at the next start: the rows stay as they are.                           *)
Crash ==
    /\ crashes < MaxCrashes
    /\ \E r \in Runs : pc[r] \in Active
    /\ crashes' = crashes + 1
    /\ pc' = [r \in Runs |-> IF pc[r] \in Active THEN "lost" ELSE pc[r]]
    /\ lastProbes' = << >>
    /\ UNCHANGED <<task, store, log, faults>>

Step(r) ==
    \/ Start(r) \/ CreateRun(r) \/ MarkSkipped(r) \/ MarkRunning(r)
    \/ SaveChunks(r) \/ Decompose(r) \/ DecomposeRaises(r) \/ FailDecompose(r)
    \/ SaveResolved(r) \/ SaveBudgetExceeded(r) \/ RunEntailment(r)
    \/ ProberReturns(r) \/ IndependentReturns(r) \/ SaveClaim(r)
    \/ SaveVerification(r) \/ CollectProbes(r) \/ SaveProbe(r)
    \/ Finalize(r) \/ Abort(r)

(* Every run has ended: the only states without a further step.            *)
AllEnded == (\A r \in Runs : pc[r] \in Ended) /\ UNCHANGED vars

Next ==
    \/ \E r \in Runs : Accept(r) \/ Step(r)
    \/ Crash
    \/ AllEnded

Spec == Init /\ [][Next]_vars

(* The event loop resumes every task whose call has answered, and every    *)
(* call answers: the clients of the model providers, of the search and of  *)
(* the store have timeouts. Requests and crashes need not happen.          *)
FairSpec == Spec /\ \A r \in Runs : WF_vars(Step(r))

-----------------------------------------------------------------------------
(* Properties.                                                             *)

(* Every variable has its type.                                            *)
TypeOK ==
    /\ pc \in [Runs -> {"idle"} \cup Active \cup Ended]
    /\ config \in [Runs -> Config]
    /\ claims \in [Runs -> Seq(Kind)]
    /\ \A r \in Runs : Len(claims[r]) <= MaxClaims
    /\ idx \in [Runs -> 1..(MaxClaims + 1)]
    /\ cost \in [Runs -> Nat]
    /\ vote \in [Runs -> Votes]
    /\ todo \in [Runs -> SUBSET Verifier]
    /\ probeQ \in [Runs -> Seq(Probe)]
    /\ details \in [Runs -> Seq(Verdict)]
    /\ lastProbes \in Seq(Probe)
    /\ status \in [Runs -> Status]
    /\ final \in [Runs -> Totals]
    /\ claimRow \in [Runs -> [ClaimNo -> ClaimRow]]
    /\ verRow \in [Runs -> [ClaimNo -> Votes]]
    /\ probeRows \in SUBSET Probe
    /\ log \in [Runs -> Seq(Event)]
    /\ faults \in 0..MaxFaults
    /\ crashes \in 0..MaxCrashes

Closed(r) == \E k \in DOMAIN log[r] : log[r][k].ev \in Terminal

Present(r, i) == claimRow[r][i].verdict # NoVote

(* A stream carries at most one terminal event and nothing after it: the   *)
(* dashboard stops reading there (attest/api/stream.py, TERMINAL_EVENTS).  *)
TerminalOnceAndLast ==
    \A r \in Runs : \A k \in DOMAIN log[r] :
        log[r][k].ev \in Terminal => k = Len(log[r])

(* claim.verified is announced only for a saved claim with that verdict,   *)
(* and the verification rows saved with a claim the verifiers settled are  *)
(* exactly the votes that reconcile() to it: what a reader of the trace    *)
(* finds explains the verdict that was announced.                          *)
VerifiedIsPersisted ==
    \A r \in Runs : \A k \in DOMAIN log[r] :
        LET e == log[r][k] IN
        e.ev = "claim.verified" =>
            /\ claimRow[r][e.claim].verdict = e.info
            /\ claimRow[r][e.claim].by = "verifiers"
                   => Reconcile(verRow[r][e.claim]) = e.info

RowVerdicts(r, V) ==
    Cardinality({i \in 1..Len(claims[r]) : claimRow[r][i].verdict \in V})

(* A run whose row says complete has a row for every claim decompose       *)
(* returned, and the scores in its row are those of these rows, after a    *)
(* crash or an update that was applied but reported as failed as well.     *)
CompleteIsWhole ==
    \A r \in Runs : status[r] = "complete" =>
        /\ \A i \in 1..Len(claims[r]) : Present(r, i)
        /\ final[r] = [total      |-> Len(claims[r]),
                       grounded   |-> RowVerdicts(r, {"GROUNDED"}),
                       fragile    |-> RowVerdicts(r, {"FRAGILE"}),
                       verifiable |-> RowVerdicts(r, Verdict \ {"UNVERIFIABLE"})]

(* The budget is overshot by less than one call: a verifier is launched    *)
(* only below it, and only one of the two that report a cost at a time.    *)
OvershootBounded == \A r \in Runs : cost[r] < Budget + MaxCallCost

(* Once a claim was given up for lack of budget, no later claim of the run *)
(* gets a verdict from the verifiers: the budget never frees up again.     *)
BudgetIsFinal ==
    \A r \in Runs : \A i, j \in ClaimNo :
        i < j /\ claimRow[r][i].by = "budget" => claimRow[r][j].by # "verifiers"

(* What sharing the prober (see OwnProbes) makes possible: another run     *)
(* saves the probes of the claim r is at before r saves the verification.  *)
Forestalled(r, i) ==
    /\ i = idx[r]
    /\ vote[r]["prober"] # NoVote
    /\ \E q \in Runs \ {r} : config[q].prober

(* The rows of a run are written in claim order, parents first: whenever   *)
(* the process stops, the claims table holds a prefix of the claims, the   *)
(* only claim that may lack a verification row of a vote behind it is the  *)
(* last one, and a probe's claim has its row and the prober's verification *)
(* (of the run's last claim another run may save the probes too early).    *)
RowsInOrder ==
    \A r \in Runs : \A i \in ClaimNo :
        /\ Present(r, i) => \A j \in 1..(i - 1) : Present(r, j)
        /\ verRow[r][i] # NoVotes => Present(r, i)
        /\ claimRow[r][i].by = "verifiers" /\ i < MaxClaims /\ Present(r, i + 1)
               => Reconcile(verRow[r][i]) = claimRow[r][i].verdict
        /\ (\E p \in probeRows : p.run = r /\ p.claim = i) =>
               Present(r, i) /\ (verRow[r][i]["prober"] # NoVote \/ Forestalled(r, i))

(* The probes a run saves and announces are those of the claim it is       *)
(* working on (get_probes_hook in attest/api/routes.py).                   *)
OwnProbes ==
    \A r \in Runs : pc[r] = "save_probe" =>
        \A k \in DOMAIN probeQ[r] :
            probeQ[r][k].run = r /\ probeQ[r][k].claim = idx[r]

(* After the terminal event of a run none of its rows changes: a client    *)
(* that fetches the trace when the stream ends fetches the final one. Only *)
(* another run that took its probes for its own (see OwnProbes) may still  *)
(* add these, and nothing else.                                            *)
QuietAfterTerminal ==
    [][\A r \in Runs : Closed(r) =>
          /\ UNCHANGED <<status[r], final[r], claimRow[r], verRow[r],
                         log[r]>>
          /\ probeRows \subseteq probeRows'
          /\ \A p \in probeRows' \ probeRows : p.run = r =>
                 \E q \in Runs \ {r} :
                     pc[q] = "save_probe" /\ p = Head(probeQ[q])]_vars

(* run() never returns without its terminal event, though the store be     *)
(* down throughout.                                                        *)
ReturnsAnnounced == \A r \in Runs : pc[r] = "returned" => Closed(r)

(* An accepted run ends: its stream gets the terminal event, or run()      *)
(* raised, or the process died.                                            *)
EveryRunEnds ==
    \A r \in Runs : pc[r] = "queued" ~> (Closed(r) \/ pc[r] \in {"raised", "lost"})

(* What the runs table and the streams show is a RunLifecycle.             *)
Announced(r) ==
    IF ~Closed(r) THEN "none" ELSE log[r][Len(log[r])].ev

Lifecycle == INSTANCE RunLifecycle
    WITH row <- status, announced <- [r \in Runs |-> Announced(r)]

LifecycleSpec == Lifecycle!Spec

=============================================================================
