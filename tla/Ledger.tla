------------------------------- MODULE Ledger -------------------------------
(***************************************************************************)
(* The message ledger of a run, as far as its tool transactions go.        *)
(*                                                                         *)
(* Run.messages is an append-only list.  An assistant message may propose  *)
(* a group of tool calls; every call is answered by a tool message.  What  *)
(* the code depends on is which calls were proposed, what each one's       *)
(* answer says, and whether a new tool message would still follow the      *)
(* group it answers: context/compact.py refuses a history in which another *)
(* message stands between a call and its answer.  So a ledger is           *)
(*   result  the answer recorded for each call, "open" while there is none *)
(*   tail    the calls of the last group, while nothing was said after it  *)
(* Texts, reasoning and metadata other than the status are left out.       *)
(***************************************************************************)
EXTENDS Naturals

CONSTANT Actions        \* identities of the tool calls a model may propose

\* Calls are executed in the order the message lists them: their identities
\* are numbered in that order.
ASSUME ActionsAssumption == Actions \subseteq (Nat \ {0})

\* The statuses an answer carries (metadata["status"]).  A skipped read whose
\* earlier content is handed over again is told apart as "reused".
Outcomes == {"succeeded", "failed", "denied", "skipped", "reused",
             "cancelled", "interrupted"}

Ledgers == [result : [Actions -> {"absent", "open"} \cup Outcomes],
            tail   : SUBSET Actions]

EmptyLedger == [result |-> [a \in Actions |-> "absent"], tail |-> {}]

Open(l) == {a \in Actions : l.result[a] = "open"}

Absent(l) == {a \in Actions : l.result[a] = "absent"}

\* message_groups accepts the history: every group has all its answers.
Sendable(l) == Open(l) = {}

\* An assistant message that proposes the calls in as.
Propose(l, as) ==
    [result |-> [a \in Actions |-> IF a \in as THEN "open" ELSE l.result[a]],
     tail   |-> as]

\* A tool message that answers call a.
Answer(l, a, o) == [l EXCEPT !.result[a] = o]

\* Any message without tool calls: a request, a final answer, a notice.
Say(l) == [l EXCEPT !.tail = {}]

\* AgentRunner._record_unfinished_actions: answers what is still open in the
\* group at the end of the list, and only there.
RecordUnfinished(l, o) ==
    [l EXCEPT !.result =
        [a \in Actions |-> IF a \in l.tail /\ l.result[a] = "open"
                           THEN o ELSE l.result[a]]]

\* A recovery that appends its notice and leaves the open calls alone.
Faulty_Repair_NoticeOnly(l) == Say(l)

\* webapp._interrupt_incomplete_runs: inserts the missing answers after each
\* group, wherever it stands, then appends the restart notice.
Repair(l) ==
    [result |-> [a \in Actions |-> IF l.result[a] = "open"
                                   THEN "interrupted" ELSE l.result[a]],
     tail   |-> {}]
=============================================================================
