---------------------------- MODULE RunLifecycle ----------------------------
(***************************************************************************)
(* What a verification run promises the rest of the system, whatever the   *)
(* orchestrator does inside: its row in the runs table moves only forward  *)
(* (migrations/001_init.sql, RunStatus in attest/models.py), its stream    *)
(* carries at most one terminal event, run.completed is published only for *)
(* a row that is complete or skipped, and once the terminal event is out   *)
(* the row never moves again.                                              *)
(***************************************************************************)
CONSTANT Runs

VARIABLES
    row,        \* the status column of each run, "absent" before the insert
    announced   \* the terminal event each stream has carried

vars == <<row, announced>>

Status == {"absent", "pending", "running", "complete", "error", "skipped"}

Announcement == {"none", "run.completed", "run.error"}

(* The statuses a row may take next. A finished row may still turn into    *)
(* "error": the update that finished it may have been applied and yet      *)
(* reported as failed to the orchestrator.                                 *)
Successors == [absent   |-> {"pending"},
               pending  |-> {"running", "skipped", "error"},
               running  |-> {"complete", "error"},
               complete |-> {"error"},
               skipped  |-> {"error"},
               error    |-> {}]

Init ==
    /\ row = [r \in Runs |-> "absent"]
    /\ announced = [r \in Runs |-> "none"]

Advance(r, s) ==
    /\ announced[r] = "none"
    /\ s \in Successors[row[r]]
    /\ row' = [row EXCEPT ![r] = s]
    /\ UNCHANGED announced

(* The finishing update and the event that follows it are one step: no     *)
(* suspension point separates them.                                        *)
Complete(r) ==
    /\ announced[r] = "none"
    /\ \/ row[r] = "running" /\ row' = [row EXCEPT ![r] = "complete"]
       \/ row[r] = "pending" /\ row' = [row EXCEPT ![r] = "skipped"]
    /\ announced' = [announced EXCEPT ![r] = "run.completed"]

(* The error event is published even when the row could not be updated.    *)
Fail(r) ==
    /\ announced[r] = "none"
    /\ \/ UNCHANGED row
       \/ /\ "error" \in Successors[row[r]]
          /\ row' = [row EXCEPT ![r] = "error"]
    /\ announced' = [announced EXCEPT ![r] = "run.error"]

Next == \E r \in Runs :
    \/ \E s \in Status : Advance(r, s)
    \/ Complete(r)
    \/ Fail(r)

Spec == Init /\ [][Next]_vars

=============================================================================
