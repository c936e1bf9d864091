----------------------------- MODULE TraceReader -----------------------------
(***************************************************************************)
(* GET /runs/{run_id} (attest/api/routes.py, Store.get_run_detail): a      *)
(* client reads the trace of a run while runs write theirs.  The trace is  *)
(* put together from separate queries, each a transaction of its own: the  *)
(* run's row, its claims in order, and then claim by claim the             *)
(* verifications.  Chunks and probes, which take a query more each, are    *)
(* left out.                                                               *)
(***************************************************************************)
EXTENDS Orchestrator

CONSTANT Reads     \* requests for a trace that may be under way at a time

VARIABLES
    stage,     \* the query each request waits for, or its answer
    target,    \* the run its client asks for, or NoRun
    rowSeen,   \* the run's row, as read
    seen,      \* the verdicts of the claims, as read
    votesSeen  \* the verifications read so far, claim by claim

readVars == <<stage, target, rowSeen, seen, votesSeen>>

Answers == {"detail", "not_found", "unavailable"}

UnderWay == {"run", "claims", "verifications"}

NoRun == "no run"

NoRead == [status |-> "absent", final |-> NoTotals]

ReadInit ==
    /\ Init
    /\ stage = [g \in Reads |-> "idle"]
    /\ target = [g \in Reads |-> NoRun]
    /\ rowSeen = [g \in Reads |-> NoRead]
    /\ seen = [g \in Reads |-> << >>]
    /\ votesSeen = [g \in Reads |-> << >>]

GetRun(g) ==
    /\ stage[g] = "idle"
    /\ stage' = [stage EXCEPT ![g] = "run"]
    /\ UNCHANGED <<rowSeen, seen, votesSeen>>

(* The client has taken the answer.                                        *)
Answered(g) ==
    /\ stage[g] \in Answers
    /\ stage' = [stage EXCEPT ![g] = "idle"]
    /\ rowSeen' = [rowSeen EXCEPT ![g] = NoRead]
    /\ seen' = [seen EXCEPT ![g] = << >>]
    /\ votesSeen' = [votesSeen EXCEPT ![g] = << >>]

(* A query that fails ends the request with 503.                           *)
Unavailable(g) ==
    /\ stage[g] \in UnderWay
    /\ stage' = [stage EXCEPT ![g] = "unavailable"]
    /\ UNCHANGED <<target, rowSeen, seen, votesSeen>>

ReadRun(g) ==
    /\ stage[g] = "run"
    /\ LET r == target[g] IN
       IF status[r] = "absent"
       THEN /\ stage' = [stage EXCEPT ![g] = "not_found"]
            /\ UNCHANGED rowSeen
       ELSE /\ stage' = [stage EXCEPT ![g] = "claims"]
            /\ rowSeen' = [rowSeen EXCEPT ![g] =
                              [status |-> status[r], final |-> final[r]]]
    /\ UNCHANGED <<target, seen, votesSeen>>

(* Defective variant: the newest claim first.                              *)
ClaimsNewestFirst(r) ==
    LET there  == {i \in ClaimNo : Present(r, i)}
        nth(n) == CHOOSE i \in there : Cardinality({j \in there : j > i}) = n - 1
    IN  [n \in 1..Cardinality(there) |-> claimRow[r][nth(n)].verdict]

(* The verdicts of the rows a run has, ordered by claim_index.             *)
ClaimsOf(r) ==
    LET there  == {i \in ClaimNo : Present(r, i)}
        nth(n) == CHOOSE i \in there : Cardinality({j \in there : j < i}) = n - 1
    IN  [n \in 1..Cardinality(there) |-> claimRow[r][nth(n)].verdict]

ReadClaims(g) ==
    /\ stage[g] = "claims"
    /\ seen' = [seen EXCEPT ![g] = ClaimsOf(target[g])]
    /\ stage' = [stage EXCEPT ![g] =
                    IF seen'[g] = << >> THEN "detail" ELSE "verifications"]
    /\ UNCHANGED <<target, rowSeen, votesSeen>>

(* Defective variant: the run's row is read together with the last query.  *)
ReadVerificationsThenRun(g) ==
    /\ stage[g] = "verifications"
    /\ LET i == Len(votesSeen[g]) + 1
           r == target[g]
       IN
       /\ votesSeen' = [votesSeen EXCEPT ![g] = Append(@, verRow[r][i])]
       /\ stage' = [stage EXCEPT ![g] = IF i = Len(seen[g]) THEN "detail" ELSE @]
       /\ rowSeen' = [rowSeen EXCEPT ![g] =
                         IF i = Len(seen[g])
                         THEN [status |-> status[r], final |-> final[r]] ELSE @]
    /\ UNCHANGED <<target, seen>>

(* The next claim's verifications; the answer after the last.              *)
ReadVerifications(g) ==
    /\ stage[g] = "verifications"
    /\ LET i == Len(votesSeen[g]) + 1 IN
       /\ votesSeen' = [votesSeen EXCEPT ![g] = Append(@, verRow[target[g]][i])]
       /\ stage' = [stage EXCEPT ![g] = IF i = Len(seen[g]) THEN "detail" ELSE @]
    /\ UNCHANGED <<target, rowSeen, seen>>

ReadStep(g) ==
    ReadRun(g) \/ ReadClaims(g) \/ ReadVerifications(g) \/ Unavailable(g)

-----------------------------------------------------------------------------
(* Properties.                                                             *)

Seen(g, V) == Cardinality({i \in DOMAIN seen[g] : seen[g][i] \in V})

(* Although it is put together from separate reads of tables that are      *)
(* being written, a detail that says complete is: it has every claim the   *)
(* row counts, each with the verifications that explain its verdict, and   *)
(* the scores of the row are those of the claims shown. A detail of a run  *)
(* still going on may lack verifications of its last claim, no others.     *)
DetailIsWhole ==
    \A g \in Reads : stage[g] = "detail" =>
        LET Explained(i) == Reconcile(votesSeen[g][i]) = seen[g][i] IN
        /\ \A i \in 1..(Len(seen[g]) - 1) : Explained(i)
        /\ rowSeen[g].status = "complete" =>
               /\ \A i \in 1..Len(seen[g]) : Explained(i)
               /\ rowSeen[g].final =
                      [total      |-> Len(seen[g]),
                       grounded   |-> Seen(g, {"GROUNDED"}),
                       fragile    |-> Seen(g, {"FRAGILE"}),
                       verifiable |-> Seen(g, Verdict \ {"UNVERIFIABLE"})]

=============================================================================
