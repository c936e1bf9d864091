-------------------------- MODULE IndependentLookup --------------------------
(***************************************************************************)
(* attest/verifiers/independent.py with the two services it calls: for a   *)
(* claim, a model rewrites the claim into a query, the web is searched for *)
(* it, and a model judges what was found.  Lookups of different runs are   *)
(* concurrent and share the search cache.  Verification.tla has the gate   *)
(* that turns the judgement into a vote.                                   *)
(***************************************************************************)
EXTENDS LlmRouter, WebSearch

CONSTANT ClaimText   \* the query that is the claim itself

ASSUME LookupAssumption == Callers = Searchers /\ ClaimText \in Queries

VARIABLES
    step,    \* where each lookup is
    reply    \* what it reports: nothing to judge by, or a judgement

vars == <<step, reply, routerVars, searchVars>>

Lookups == Callers

Init ==
    /\ RouterInit
    /\ SearchInit
    /\ step = [l \in Lookups |-> "idle"]
    /\ reply = [l \in Lookups |-> "none"]

Goto(l, s) == step' = [step EXCEPT ![l] = s]

(* _neutral_query's call.                                                  *)
Verify(l) ==
    /\ step[l] = "idle"
    /\ Complete(l)
    /\ Goto(l, "rewriting")
    /\ UNCHANGED <<reply, searchVars>>

(* The rewritten query, or the claim's own text if the call failed, its    *)
(* answer did not parse or the query is blank.                             *)
SearchFor(l) ==
    /\ step[l] = "rewriting"
    /\ Consume(l)
    /\ \E q \in Queries : (phase[l] # "parsed" => q = ClaimText) /\ Search(l, q)
    /\ Goto(l, "searching")
    /\ UNCHANGED reply

(* Without results there is nothing to judge; otherwise _judge's call.     *)
Judge(l) ==
    /\ step[l] = "searching"
    /\ asking[l] = "none"
    /\ IF found[l].empty
       THEN /\ Goto(l, "done")
            /\ reply' = [reply EXCEPT ![l] = "unverifiable"]
            /\ UNCHANGED routerVars
       ELSE /\ Complete(l)
            /\ Goto(l, "judging")
            /\ UNCHANGED reply
    /\ Drop(l)

(* No judgement without a judge's answer that parses.                      *)
Report(l) ==
    /\ step[l] = "judging"
    /\ Consume(l)
    /\ Goto(l, "done")
    /\ reply' = [reply EXCEPT ![l] =
                    IF phase[l] = "parsed" THEN "judged" ELSE "unverifiable"]
    /\ UNCHANGED searchVars

Own(l) == Verify(l) \/ SearchFor(l) \/ Judge(l) \/ Report(l)

Model(l) == RouterStep(l) /\ UNCHANGED <<step, reply, searchVars>>

Web(l) == SearchStep(l) /\ UNCHANGED <<step, reply, routerVars>>

Done == (\A l \in Lookups : step[l] = "done") /\ UNCHANGED vars

Next ==
    \/ \E l \in Lookups : Own(l) \/ Model(l) \/ Web(l)
    \/ Tick /\ UNCHANGED <<step, reply, routerVars>>
    \/ Done

Spec == Init /\ [][Next]_vars

(* The event loop resumes a lookup whose call has returned; every call of  *)
(* a provider returns and every sleep between two attempts ends.           *)
FairSpec ==
    /\ Spec
    /\ \A l \in Lookups : WF_vars(SearchFor(l) \/ Judge(l) \/ Report(l) \/ Model(l) \/ Web(l))

-----------------------------------------------------------------------------
(* Properties.                                                             *)

(* Every variable has its type.                                            *)
TypeOK ==
    /\ RouterTypeOK
    /\ SearchTypeOK
    /\ step \in [Lookups -> {"idle", "rewriting", "searching", "judging", "done"}]
    /\ reply \in [Lookups -> {"none", "unverifiable", "judged"}]

(* Every lookup that was begun reports something, whatever combination of  *)
(* providers fails, is rate limited or answers nonsense: retries, fallback *)
(* and repair end.                                                         *)
LookupsEnd == \A l \in Lookups : step[l] = "rewriting" ~> step[l] = "done"

=============================================================================
