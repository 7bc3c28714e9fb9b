---------------------------- MODULE RunLifecycle ----------------------------
(***************************************************************************)
(* What the page promises about one topic: the status it shows, and        *)
(* whether an execution is at work on it.  While one is, the status moves  *)
(* along the transitions of runtime/state.py; it is reset by a follow-up   *)
(* only when none is; a completed task is never withdrawn.                 *)
(***************************************************************************)
CONSTANTS Unsettled, \* statuses of an unfinished task
          Table      \* the transition table of runtime/state.py

VARIABLES status, live

vars == <<status, live>>

Init == status = "absent" /\ live = FALSE

\* A new topic, or a follow-up to one that is at rest.
Submit ==
    /\ ~live
    /\ status' = "created"
    /\ live' = TRUE

Move ==
    /\ live
    /\ status \in DOMAIN Table
    /\ status' \in Table[status]
    /\ UNCHANGED live

\* A stop that was meant for the execution before this one has marked it
\* cancelled; the execution takes no notice.
Overtake ==
    /\ live
    /\ status = "cancelled"
    /\ status' \in {"created", "running"}
    /\ UNCHANGED live

\* The execution ends, perhaps by failing outside of AgentRunner.run.
Finish ==
    /\ live
    /\ live' = FALSE
    /\ \/ status' = status
       \/ status \in Unsettled /\ status' = "failed"

\* A stop request that was accepted while the task was unfinished.
Withdraw ==
    /\ status \in Unsettled \cup {"needs_review", "failed"}
    /\ status' = "cancelled"
    /\ UNCHANGED live

\* The process ends without the execution having come to its end.
Abandon ==
    /\ live
    /\ live' = FALSE
    /\ UNCHANGED status

Reconcile ==
    /\ ~live
    /\ status \in Unsettled
    /\ status' = "interrupted"
    /\ UNCHANGED live

Delete ==
    /\ ~live
    /\ status' = "absent"
    /\ UNCHANGED live

Next == \/ Submit \/ Move \/ Overtake \/ Finish \/ Withdraw \/ Abandon
        \/ Reconcile \/ Delete

Spec == Init /\ [][Next]_vars
=============================================================================
