------------------------------ MODULE Dashboard ------------------------------
(***************************************************************************)
(* dashboard/attest-dashboard.html with the routes behind it: the page has *)
(* a question answered and verified (POST /demo/query), or an output of    *)
(* another pipeline verified (POST /observe), and polls GET /runs/{run_id} *)
(* until the run has ended; or it loads the trace of a run.  Each such     *)
(* call of ask(), verifyExternal() or load() is a flow.  A disabled button *)
(* does not keep ask() and load() from being called once more: suggestions *)
(* and keys call them too.                                                 *)
(***************************************************************************)
EXTENDS TraceReader

VARIABLES
    doing,  \* what each flow is: ask(), verifyExternal() or load()
    phase,  \* what it waits for: the answer to its POST, the page to see that
            \* answer, the list of runs, a detail, or (polling) the next poll
    last,   \* the last detail it rendered
    runid   \* the page's run id field, which all flows share

pageVars == <<doing, phase, last, runid>>
allVars == <<vars, readVars, pageVars>>

NoDetail == [status |-> "absent", claims |-> << >>]

PageInit ==
    /\ ReadInit
    /\ doing = [g \in Reads |-> "none"]
    /\ phase = [g \in Reads |-> "off"]
    /\ last = [g \in Reads |-> NoDetail]
    /\ runid = NoRun

Begin(g, call, p) ==
    /\ phase[g] = "off"
    /\ doing' = [doing EXCEPT ![g] = call]
    /\ phase' = [phase EXCEPT ![g] = p]

End(g) ==
    /\ doing' = [doing EXCEPT ![g] = "none"]
    /\ phase' = [phase EXCEPT ![g] = "off"]
    /\ target' = [target EXCEPT ![g] = NoRun]
    /\ last' = [last EXCEPT ![g] = NoDetail]

query == <<stage, rowSeen, seen, votesSeen>>

(* ask() and verifyExternal() send their request. Only the button calls    *)
(* verifyExternal(), and it is disabled until the flow has ended.          *)
Ask(g) ==
    /\ Begin(g, "ask", "posting")
    /\ UNCHANGED <<last, runid, vars, readVars>>

VerifyExternal(g) ==
    /\ \A o \in Reads : doing[o] # "verify"
    /\ Begin(g, "verify", "posting")
    /\ UNCHANGED <<last, runid, vars, readVars>>

(* The route leaves the run to a background task and answers 202 with its  *)
(* id. Or it refuses: no dependency, no answer from the demo pipeline, too *)
(* many requests; or nothing arrives.                                      *)
Route(g) ==
    /\ phase[g] = "posting"
    /\ \/ \E r \in Runs :
              /\ Accept(r)
              /\ target' = [target EXCEPT ![g] = r]
              /\ phase' = [phase EXCEPT ![g] = "accepted"]
              /\ UNCHANGED <<doing, last>>
       \/ End(g) /\ UNCHANGED vars
    /\ UNCHANGED <<runid, query>>

(* The 202 arrives, and the first poll goes out at once; or it is lost.    *)
Accepted(g) ==
    /\ phase[g] = "accepted"
    /\ \/ /\ phase' = [phase EXCEPT ![g] = "polling"]
          /\ runid' = target[g]
          /\ GetRun(g)
          /\ UNCHANGED <<doing, last, target>>
       \/ End(g) /\ UNCHANGED <<runid, query>>
    /\ UNCHANGED vars

(* pollRun() has slept.                                                    *)
Poll(g) ==
    /\ phase[g] = "polling"
    /\ GetRun(g)
    /\ UNCHANGED <<doing, phase, last, runid, target, vars>>

(* load() takes the id from the field, and if that is empty from           *)
(* GET /runs?limit=1.                                                      *)
Load(g) ==
    /\ IF runid = NoRun
       THEN /\ Begin(g, "load", "listing")
            /\ UNCHANGED <<target, query>>
       ELSE /\ Begin(g, "load", "loading")
            /\ target' = [target EXCEPT ![g] = runid]
            /\ GetRun(g)
    /\ UNCHANGED <<last, runid, vars>>

(* The newest row; rows carry no time here, so it may be any.              *)
ListRuns(g) ==
    /\ phase[g] = "listing"
    /\ \/ \E r \in Runs :
              /\ status[r] # "absent"
              /\ target' = [target EXCEPT ![g] = r]
              /\ runid' = r
              /\ phase' = [phase EXCEPT ![g] = "loading"]
              /\ GetRun(g)
              /\ UNCHANGED <<doing, last>>
       \/ End(g) /\ UNCHANGED <<runid, query>>
    /\ UNCHANGED vars

(* What pollRun() and render() take from an answer: each claim row has its *)
(* verdict.                                                                *)
Shown(g) == [status |-> rowSeen[g].status, claims |-> seen[g]]

(* A detail: it is rendered, and polling goes on until the run has ended   *)
(* or the tries, whose number is left open, are used up.                   *)
TakeDetail(g) ==
    /\ stage[g] = "detail"
    /\ Answered(g)
    /\ \/ End(g)
       \/ /\ phase[g] = "polling"
          /\ rowSeen[g].status \notin {"complete", "error"}
          /\ last' = [last EXCEPT ![g] = Shown(g)]
          /\ UNCHANGED <<doing, phase, target>>
    /\ UNCHANGED <<runid, vars>>

(* Any other answer ends the flow with an error panel.                     *)
TakeFailure(g) ==
    /\ stage[g] \in {"not_found", "unavailable"}
    /\ Answered(g)
    /\ End(g)
    /\ UNCHANGED <<runid, vars>>

Flow(g) ==
    \/ Ask(g) \/ VerifyExternal(g) \/ Route(g) \/ Accepted(g) \/ Poll(g)
    \/ Load(g) \/ ListRuns(g) \/ TakeDetail(g) \/ TakeFailure(g)

(* The process dies with the requests it is reading a trace for.           *)
ServerCrash ==
    /\ Crash
    /\ stage' = [g \in Reads |->
                     IF stage[g] \in UnderWay THEN "unavailable" ELSE stage[g]]
    /\ UNCHANGED <<target, rowSeen, seen, votesSeen, pageVars>>

(* Runs that nobody asked for on this page are accepted as well.           *)
PageNext ==
    \/ \E r \in Runs :
           (Accept(r) \/ Step(r)) /\ UNCHANGED <<readVars, pageVars>>
    \/ \E g \in Reads : ReadStep(g) /\ UNCHANGED <<vars, pageVars>>
    \/ \E g \in Reads : Flow(g)
    \/ ServerCrash

PageSpec == PageInit /\ [][PageNext]_allVars

-----------------------------------------------------------------------------
(* Properties.                                                             *)

Progress == [absent |-> 0, pending |-> 1, running |-> 2, skipped |-> 3,
             complete |-> 3, error |-> 4]

Forward(old, new) ==
    /\ Progress[old.status] <= Progress[new.status]
    /\ Len(old.claims) <= Len(new.claims)
    /\ old.claims = SubSeq(new.claims, 1, Len(old.claims))

(* A page that polls sees the run only go forward: no answer it gets after *)
(* a rendered one has an earlier status or lacks or changes a claim, and   *)
(* the run never turns into an unknown one.                                *)
PollsMoveForward ==
    \A g \in Reads : last[g] # NoDetail =>
        /\ stage[g] # "not_found"
        /\ stage[g] = "detail" => Forward(last[g], Shown(g))

(* The docstring of DemoQueryResponse: "Callers render answer immediately, *)
(* then poll GET /runs/{run_id}": the run of an accepted request is known. *)
PollFindsRun ==
    \A g \in Reads : phase[g] = "polling" => stage[g] # "not_found"

=============================================================================
