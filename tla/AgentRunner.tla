----------------------------- MODULE AgentRunner -----------------------------
(***************************************************************************)
(* One execution of a task: the coroutine that webapp.start_run creates.   *)
(* execute() calls cli._run, which connects the MCP servers and builds the *)
(* provider, then AgentRunner.run drives model and tools until a verdict.  *)
(*                                                                         *)
(* The coroutine gives way to other handlers only where it really awaits:  *)
(* the values of pc in Awaiting.  Everywhere else only the death of the    *)
(* process can come between two of its steps, so a step ends at each save  *)
(* whose content a crash could tell apart.  `run` is the Run object of the *)
(* coroutine, `saved` the JSON file RunStore keeps.  EventBus.publish runs *)
(* its handlers synchronously and never gives way.                         *)
(*                                                                         *)
(* A call's attributes come with its identity: whether the policy denies   *)
(* it, asks the user first, or it only edits the workflow plan.            *)
(***************************************************************************)
EXTENDS Ledger, FiniteSets

CONSTANTS
    NeedsApproval,    \* calls for which PolicyEngine.decide answers "ask"
    Denied,           \* calls it denies, or a discussion does not offer
    Planning,         \* calls of the three workflow tools
    MaxCalls,         \* bound: calls a model proposes in one message
    MaxIterations,    \* settings.agent.max_iterations
    MaxToolCalls,     \* settings.agent.max_tool_calls_per_run
    Patience,         \* empty rounds, or invalid plans, that end an execution:
                      \* 3 in runner.py
    Titles            \* titles the user may give

ASSUME RunnerAssumption ==
    /\ NeedsApproval \subseteq Actions
    /\ Denied \subseteq Actions
    /\ Planning \subseteq Actions
    /\ Denied \cap NeedsApproval = {}
    /\ Planning \cap (Denied \cup NeedsApproval) = {}
    /\ MaxCalls \in Nat \ {0}
    /\ MaxIterations \in Nat \ {0}
    /\ MaxToolCalls \in Nat
    /\ Patience \in Nat \ {0}
    /\ Titles # {}

VARIABLES
    run,          \* the Run the coroutine holds
    saved,        \* the Run in <run_id>.json
    pc,           \* where the coroutine stands
    exit,         \* how AgentRunner.run ends: "done", "error" or "cancel"
    cancelling,   \* Task.cancel() was called and not yet delivered
    pending,      \* _pending_approvals[run_id]
    calls,        \* tool_call_count
    iteration,    \* iteration
    stalled,      \* stalled_rounds
    reviewed,     \* completion_review_sent
    badPlans,     \* invalid_plan_attempts
    at,           \* the call the for-loop is busy with, NoCall between two
    events,       \* <run_id>.events.jsonl, as far as it names calls
    checkpoints,  \* calls with a saved checkpoint
    ran,          \* history: calls whose tool has had its effect, how often
    granted       \* history: calls the user approved

runnerVars == <<run, saved, pc, exit, cancelling, pending, calls, iteration,
                stalled, reviewed, badPlans, at, events, checkpoints, ran,
                granted>>

tallies == <<calls, iteration, stalled, reviewed, badPlans>>
locals == <<tallies, at>>
records == <<events, checkpoints, ran, granted>>

OpenStatus == {"created", "running", "waiting_approval", "paused"}
Verdicts == {"completed", "needs_review", "failed", "cancelled", "interrupted"}
RunStatus == OpenStatus \cup Verdicts

\* runtime/state.py: the transitions a Run object may make.
AllowedTransitions == [s \in RunStatus |->
    CASE s = "created" -> {"running", "failed", "cancelled"}
      [] s = "running" -> {"waiting_approval", "paused", "completed",
                           "needs_review", "failed", "cancelled"}
      [] s = "waiting_approval" -> {"running", "paused", "failed", "cancelled"}
      [] s = "paused" -> {"running", "failed", "cancelled"}
      [] OTHER -> {}]

CanMove(s, t) == t \in AllowedTransitions[s]

\* A file that is not there is a Run with status "absent".
Runs == [status : RunStatus \cup {"absent"}, ledger : Ledgers, title : Titles]

NoCall == 0
NoPending == [call |-> NoCall, answer |-> "none"]
PendingApprovals == [call   : Actions \cup {NoCall},
                     answer : {"none", "yes", "no"}]

EventKinds == {"required", "started", "finished", "not_run", "interrupted"}

Awaiting == {"none", "queued", "connect", "inquiry", "chat", "approve", "tool",
             "reply", "judge", "stalling", "over_budget", "unwind", "close",
             "done"}

Places == Awaiting \cup {"turn", "calls", "record", "announce", "accepted",
                         "doubtful", "outer"}

WithStatus(r, s) == [r EXCEPT !.status = s]
WithLedger(r, l) == [r EXCEPT !.ledger = l]

----------------------------------------------------------------------------
(* Where the coroutine is in its group of calls.                            *)

GroupOpen(r) == Open(r.ledger) \cap r.ledger.tail

\* The call the for-loop turns to: the first of the group without an answer.
AtCall(a) ==
    /\ pc = "calls"
    /\ a \in GroupOpen(run)
    /\ \A b \in GroupOpen(run) : a <= b

----------------------------------------------------------------------------
(* Leaving by an exception.                                                 *)

\* `except Exception` of the call loop and of AgentRunner.run: the group is
\* answered and saved while the status is still open, then the status becomes
\* failed and the delivery report is awaited before the last save.
Raise ==
    LET closed == WithLedger(run, RecordUnfinished(run.ledger, "failed"))
    IN  /\ saved' = IF pc = "calls" THEN closed ELSE saved
        /\ run' = IF run.status \in OpenStatus
                  THEN WithStatus(closed, "failed") ELSE closed
        /\ pc' = "unwind"
        /\ exit' = "error"
        /\ UNCHANGED <<cancelling, pending, locals, records>>

\* A handler that leaves the calls of the group unanswered.
Faulty_CancelInside_LeavesGroup ==
    /\ run' = WithStatus(run, "cancelled")
    /\ saved' = saved
    /\ pending' = NoPending

\* A gate without its `finally`: the request survives the execution.
Faulty_CancelInside_KeepsPending ==
    LET closed == WithLedger(run, RecordUnfinished(run.ledger, "cancelled"))
    IN  /\ saved' = closed
        /\ run' = WithStatus(closed, "cancelled")
        /\ pending' = pending

\* `except CancelledError`: in the call loop the group is answered and saved
\* first; the approval gate forgets its request.
CancelInside ==
    LET closed == WithLedger(run, RecordUnfinished(run.ledger, "cancelled"))
    IN  /\ saved' = closed
        /\ run' = WithStatus(closed, "cancelled")
        /\ pending' = NoPending

CancelOutside ==
    LET closed == WithLedger(run, RecordUnfinished(run.ledger, "cancelled"))
    IN  /\ run' = IF run.status \in OpenStatus
                  THEN WithStatus(closed, "cancelled") ELSE closed
        /\ UNCHANGED <<saved, pending>>

\* A gate that takes the cancellation for an answer it goes on waiting for.
Faulty_DeliverCancel_GateSwallows ==
    /\ cancelling
    /\ cancelling' = FALSE
    /\ IF pc = "approve"
       THEN UNCHANGED <<exit, pc, run, saved, pending, at>>
       ELSE /\ exit' = "cancel"
            /\ at' = NoCall
            /\ pc' = IF pc \in {"queued", "connect", "close"} THEN "done"
                     ELSE IF pc \in {"over_budget", "unwind"} THEN "close"
                     ELSE "unwind"
            /\ IF pc \in {"tool", "reply"} THEN CancelInside
               ELSE IF pc \in {"inquiry", "chat", "judge", "stalling"}
               THEN CancelOutside
               ELSE UNCHANGED <<run, saved, pending>>
    /\ UNCHANGED <<tallies, records>>

\* The cancellation reaches the coroutine where it waits.  Before run() began
\* and while it is already unwinding nothing more is recorded.
DeliverCancel ==
    /\ cancelling
    /\ cancelling' = FALSE
    /\ exit' = "cancel"
    /\ at' = NoCall
    /\ \/ /\ pc \in {"queued", "connect", "close"}
          /\ pc' = "done"
          /\ UNCHANGED <<run, saved, pending>>
       \/ /\ pc \in {"over_budget", "unwind"}
          /\ pc' = "close"
          /\ UNCHANGED <<run, saved, pending>>
       \/ /\ pc \in {"inquiry", "chat", "judge", "stalling"}
          /\ pc' = "unwind"
          /\ CancelOutside
       \/ /\ pc \in {"approve", "tool", "reply"}
          /\ pc' = "unwind"
          /\ CancelInside
    /\ UNCHANGED <<tallies, records>>

----------------------------------------------------------------------------
(* From the task's first step to the first model request.                   *)

\* execute() -> cli._run: data lease, registry, `await mcp_manager.connect()`.
Begin ==
    /\ pc = "queued" /\ ~cancelling
    /\ pc' = "connect"
    /\ UNCHANGED <<run, saved, exit, cancelling, pending, locals, records>>

\* The lease, the settings, the directory or the provider is not usable.
InitFails ==
    /\ pc \in {"queued", "connect"} /\ ~cancelling
    /\ pc' = "outer"
    /\ exit' = "error"
    /\ UNCHANGED <<run, saved, cancelling, pending, locals, records>>

\* The head of _run_loop.  A question about the task's own state goes to
\* status_summary, everything else to the model.
StartLoop ==
    /\ pc = "connect" /\ ~cancelling
    /\ CanMove(run.status, "running")
    /\ run' = WithStatus(run, "running")
    /\ saved' = run'
    /\ pc' \in {"turn", "inquiry"}
    /\ calls' = 0 /\ iteration' = 0 /\ stalled' = 0
    /\ reviewed' = FALSE /\ badPlans' = 0
    /\ UNCHANGED <<exit, cancelling, pending, at, records>>

\* The recorded state answers the question.
AnswerInquiry ==
    /\ pc = "inquiry" /\ ~cancelling
    /\ \E verdict \in {"completed", "needs_review"} :
          /\ CanMove(run.status, verdict)
          /\ run' = [run EXCEPT !.status = verdict, !.ledger = Say(@)]
          /\ saved' = run'
    /\ pc' = "close"
    /\ exit' = "done"
    /\ UNCHANGED <<cancelling, pending, locals, records>>

\* ContextBuilder.build: a history with an unanswered call is refused.
BuildContext ==
    /\ pc = "turn"
    /\ iteration < MaxIterations
    /\ Sendable(run.ledger)
    /\ pc' = "chat"
    /\ UNCHANGED <<run, saved, exit, cancelling, pending, locals, records>>

\* ContextProtocolError, or range(max_iterations) is used up.
NoTurn ==
    /\ pc = "turn"
    /\ iteration >= MaxIterations \/ ~Sendable(run.ledger)
    /\ Raise

\* ContextBudgetError, for the turn's context or for the one that asks to
\* continue a truncated answer: left for review, the report is awaited.
OverBudget ==
    /\ \/ pc = "turn" /\ iteration < MaxIterations /\ Sendable(run.ledger)
       \/ pc = "chat" /\ ~cancelling
    /\ run' = WithStatus(run, "needs_review")
    /\ pc' = "over_budget"
    /\ UNCHANGED <<saved, exit, cancelling, pending, locals, records>>

ReportOverBudget ==
    /\ pc = "over_budget" /\ ~cancelling
    /\ run' = WithLedger(run, Say(run.ledger))
    /\ saved' = run'
    /\ pc' = "close"
    /\ exit' = "done"
    /\ UNCHANGED <<cancelling, pending, locals, records>>

----------------------------------------------------------------------------
(* The model's turn.                                                        *)

\* A transient failure: the ledger is saved before the delay.
ModelRetries ==
    /\ pc = "chat" /\ ~cancelling
    /\ saved' = run
    /\ UNCHANGED <<run, pc, exit, cancelling, pending, locals, records>>

\* The request failed for good, or the answer is empty or cut off.
ModelFails ==
    /\ pc = "chat" /\ ~cancelling
    /\ Raise

\* The model proposes a group of calls, saved before any of them is looked at.
ModelProposes(as) ==
    /\ pc = "chat" /\ ~cancelling
    /\ run' = WithLedger(run, Propose(run.ledger, as))
    /\ saved' = run'
    /\ pc' = "calls"
    /\ UNCHANGED <<exit, cancelling, pending, locals, records>>

\* Fresh identities: the calls of a message are new to the ledger.
Proposals == {as \in SUBSET Absent(run.ledger) :
                 as # {} /\ Cardinality(as) <= MaxCalls}

\* A draft of the final answer: the completion checks are awaited.
ModelAnswers ==
    /\ pc = "chat" /\ ~cancelling
    /\ pc' = "judge"
    /\ UNCHANGED <<run, saved, exit, cancelling, pending, locals, records>>

\* A review that is asked for again and again and costs no round.
Faulty_ReviewAgain_Forgets ==
    /\ pc = "judge" /\ ~cancelling
    /\ saved' = run
    /\ pc' = "turn"
    /\ UNCHANGED <<run, exit, cancelling, pending, locals, records>>

\* An unmet condition buys one more round, once, while a round is left.  The
\* draft goes to rejected_responses, not to the messages.
ReviewAgain ==
    /\ pc = "judge" /\ ~cancelling
    /\ ~reviewed
    /\ iteration + 1 < MaxIterations
    /\ reviewed' = TRUE
    /\ iteration' = iteration + 1
    /\ saved' = run
    /\ pc' = "turn"
    /\ UNCHANGED <<run, exit, cancelling, pending, calls, stalled, badPlans, at,
                   records>>

\* The answer is appended and saved; the verdict follows in a second save.
\* Accepted if nothing is left to check.
AcceptAnswer ==
    /\ pc = "judge" /\ ~cancelling
    /\ run' = WithLedger(run, Say(run.ledger))
    /\ saved' = run'
    /\ pc' \in {"accepted", "doubtful"}
    /\ UNCHANGED <<exit, cancelling, pending, locals, records>>

Deliver ==
    /\ pc \in {"accepted", "doubtful"}
    /\ LET verdict == IF pc = "accepted" THEN "completed" ELSE "needs_review"
       IN  /\ CanMove(run.status, verdict)
           /\ run' = WithStatus(run, verdict)
    /\ saved' = run'
    /\ pc' = "close"
    /\ exit' = "done"
    /\ UNCHANGED <<cancelling, pending, locals, records>>

----------------------------------------------------------------------------
(* The group of calls, one after the other.                                 *)

\* An answer given without running the tool: saved, then announced.
AnswerUnrun(a, o) ==
    /\ run' = WithLedger(run, Answer(run.ledger, a, o))
    /\ saved' = run'
    /\ pc' = "announce"
    /\ at' = a
    /\ UNCHANGED <<exit, cancelling, pending, tallies, records>>

\* PolicyEngine.decide says DENY.
RefuseCall(a) ==
    /\ AtCall(a)
    /\ a \in Denied
    /\ AnswerUnrun(a, "denied")

\* Discussion mode: a tool that was not offered is denied without an event.
RefuseUnoffered(a) ==
    /\ AtCall(a)
    /\ a \in Denied \cup Planning
    /\ run' = WithLedger(run, Answer(run.ledger, a, "denied"))
    /\ saved' = run'
    /\ UNCHANGED <<pc, exit, cancelling, pending, locals, records>>

\* A guard that is asked before the policy's answer is looked at.
Faulty_SkipCall_IgnoresPolicy(a) ==
    /\ AtCall(a)
    /\ a \notin Denied \cup Planning
    /\ \E o \in {"skipped", "reused"} : AnswerUnrun(a, o)

\* _guard_read_only_action.  Content that is already known is handed over
\* again only if the call would not have to be approved.
SkipCall(a) ==
    /\ AtCall(a)
    /\ a \notin Denied \cup Planning
    /\ \E o \in {"skipped", "reused"} :
          /\ o = "reused" => a \notin NeedsApproval
          /\ AnswerUnrun(a, o)

\* The workflow tools change the plan in memory and need no executor.
PlanCall(a) ==
    /\ AtCall(a)
    /\ a \in Planning
    /\ \E o \in {"succeeded", "failed", "skipped"} :
          run' = WithLedger(run, Answer(run.ledger, a, o))
    /\ saved' = run'
    /\ UNCHANGED <<pc, exit, cancelling, pending, locals, records>>

\* declare_workflow_plan with an invalid plan.
InvalidPlan(a) ==
    /\ AtCall(a)
    /\ a \in Planning
    /\ badPlans + 1 < Patience
    /\ badPlans' = badPlans + 1
    /\ run' = WithLedger(run, Answer(run.ledger, a, "failed"))
    /\ saved' = run'
    /\ UNCHANGED <<pc, exit, cancelling, pending, calls, iteration, stalled,
                   reviewed, at, records>>

\* One invalid plan too many: the call is answered as failed like the others,
\* and the handler answers the rest of the group.
GiveUpPlanning(a) ==
    /\ AtCall(a)
    /\ a \in Planning
    /\ badPlans + 1 >= Patience
    /\ Raise

\* RuntimeError: the execution has used up its tool calls.
ReachToolLimit(a) ==
    /\ AtCall(a)
    /\ a \notin Denied \cup Planning
    /\ calls >= MaxToolCalls
    /\ Raise

\* The tool is about to run: the decision is announced and saved.
StartTool(a, r) ==
    /\ at' = a
    /\ calls' = calls + 1
    /\ events' = events \cup {<<"started", a>>}
    /\ run' = r
    /\ saved' = r
    /\ pc' = "tool"

\* A limit that is compared after the count was taken.
Faulty_RunCall_LimitOffByOne(a) ==
    /\ AtCall(a)
    /\ a \notin Denied \cup Planning \cup NeedsApproval
    /\ calls <= MaxToolCalls
    /\ StartTool(a, run)
    /\ UNCHANGED <<exit, cancelling, pending, iteration, stalled, reviewed,
                   badPlans, checkpoints, ran, granted>>

\* The policy lets the call pass.
RunCall(a) ==
    /\ AtCall(a)
    /\ a \notin Denied \cup Planning \cup NeedsApproval
    /\ calls < MaxToolCalls
    /\ StartTool(a, run)
    /\ UNCHANGED <<exit, cancelling, pending, iteration, stalled, reviewed,
                   badPlans, checkpoints, ran, granted>>

\* The policy wants the user's consent: WebApprovalGate.request waits.
AskApproval(a) ==
    /\ AtCall(a)
    /\ a \in NeedsApproval
    /\ calls < MaxToolCalls
    /\ CanMove(run.status, "waiting_approval")
    /\ run' = WithStatus(run, "waiting_approval")
    /\ saved' = run'
    /\ events' = events \cup {<<"required", a>>}
    /\ pending' = [call |-> a, answer |-> "none"]
    /\ at' = a
    /\ pc' = "approve"
    /\ UNCHANGED <<exit, cancelling, tallies, checkpoints, ran, granted>>

\* A gate that swallows the cancellation once the user has decided.
Faulty_Approved_IgnoresStop ==
    /\ pc = "approve"
    /\ pending.answer = "yes"
    /\ pending' = NoPending
    /\ StartTool(pending.call, WithStatus(run, "running"))
    /\ UNCHANGED <<exit, cancelling, iteration, stalled, reviewed, badPlans,
                   checkpoints, ran, granted>>

\* The gate's future is done and the coroutine goes on: a stop that came
\* after the decision is delivered first.
Approved ==
    /\ pc = "approve" /\ ~cancelling
    /\ pending.answer = "yes"
    /\ pending' = NoPending
    /\ StartTool(pending.call, WithStatus(run, "running"))
    /\ UNCHANGED <<exit, cancelling, iteration, stalled, reviewed, badPlans,
                   checkpoints, ran, granted>>

Declined ==
    /\ pc = "approve" /\ ~cancelling
    /\ pending.answer = "no"
    /\ pending' = NoPending
    /\ run' = [run EXCEPT !.status = "running",
                          !.ledger = Answer(@, pending.call, "denied")]
    /\ saved' = run'
    /\ pc' = "announce"
    /\ UNCHANGED <<exit, cancelling, locals, records>>

\* The tool has its effect on files, a process, a page or a remote service.
\* The coroutine may be cancelled before it hears of it.
TakeEffect ==
    /\ pc = "tool"
    /\ ran' = [ran EXCEPT ![at] = @ + 1]
    /\ pc' = "reply"
    /\ UNCHANGED <<run, saved, exit, cancelling, pending, locals, events,
                   checkpoints, granted>>

\* A result that is saved without its checkpoint.
Faulty_ToolSucceeds_NoCheckpoint ==
    /\ pc = "reply" /\ ~cancelling
    /\ run' = WithLedger(run, Answer(run.ledger, at, "succeeded"))
    /\ saved' = run'
    /\ pc' = "record"
    /\ UNCHANGED <<exit, cancelling, pending, locals, records>>

\* A result that is announced before it is saved.
Faulty_ToolSucceeds_AnnouncesFirst ==
    /\ pc = "reply" /\ ~cancelling
    /\ run' = WithLedger(run, Answer(run.ledger, at, "succeeded"))
    /\ checkpoints' = checkpoints \cup {at}
    /\ events' = events \cup {<<"finished", at>>}
    /\ pc' = "record"
    /\ UNCHANGED <<saved, exit, cancelling, pending, locals, ran, granted>>

\* A result with ok: appended, and its checkpoint saved, before the ledger.
ToolSucceeds ==
    /\ pc = "reply" /\ ~cancelling
    /\ run' = WithLedger(run, Answer(run.ledger, at, "succeeded"))
    /\ checkpoints' = checkpoints \cup {at}
    /\ pc' = "record"
    /\ UNCHANGED <<saved, exit, cancelling, pending, locals, events, ran,
                   granted>>

\* An exception, a timeout or a result that is not ok, with or without effect.
ToolFails ==
    /\ pc \in {"tool", "reply"} /\ ~cancelling
    /\ run' = WithLedger(run, Answer(run.ledger, at, "failed"))
    /\ saved' = run'
    /\ pc' = "announce"
    /\ UNCHANGED <<exit, cancelling, pending, locals, records>>

SaveResult ==
    /\ pc = "record"
    /\ saved' = run
    /\ pc' = "announce"
    /\ UNCHANGED <<run, exit, cancelling, pending, locals, records>>

\* action_completed, action_failed or action_not_run.
Announce ==
    /\ pc = "announce"
    /\ LET kind == IF run.ledger.result[at] \in {"succeeded", "failed"}
                    THEN "finished" ELSE "not_run"
       IN  events' = events \cup {<<kind, at>>}
    /\ pc' = "calls"
    /\ at' = NoCall
    /\ UNCHANGED <<run, saved, exit, cancelling, pending, tallies,
                   checkpoints, ran, granted>>

----------------------------------------------------------------------------
(* The end of a round.                                                      *)

\* No call of the group did any work.
EmptyRound ==
    \A a \in run.ledger.tail :
        run.ledger.result[a] \in {"skipped", "reused", "denied"}

NextRound ==
    /\ pc = "calls" /\ GroupOpen(run) = {}
    /\ EmptyRound => stalled + 1 < Patience
    /\ stalled' = IF EmptyRound THEN stalled + 1 ELSE 0
    /\ iteration' = iteration + 1
    /\ pc' = "turn"
    /\ UNCHANGED <<run, saved, exit, cancelling, pending, calls, reviewed,
                   badPlans, at, records>>

\* One empty round too many in a row ends the execution for review.
StallOut ==
    /\ pc = "calls" /\ GroupOpen(run) = {}
    /\ EmptyRound /\ stalled + 1 >= Patience
    /\ CanMove(run.status, "needs_review")
    /\ run' = WithStatus(run, "needs_review")
    /\ stalled' = stalled + 1
    /\ pc' = "stalling"
    /\ UNCHANGED <<saved, exit, cancelling, pending, calls, iteration, reviewed,
                   badPlans, at, records>>

ReportStall ==
    /\ pc = "stalling" /\ ~cancelling
    /\ run' = WithLedger(run, Say(run.ledger))
    /\ saved' = run'
    /\ pc' = "close"
    /\ exit' = "done"
    /\ UNCHANGED <<cancelling, pending, locals, records>>

----------------------------------------------------------------------------
(* The way out.                                                             *)

\* The delivery report is there: the last save of AgentRunner.run.
Unwind ==
    /\ pc = "unwind" /\ ~cancelling
    /\ saved' = run
    /\ pc' = "close"
    /\ UNCHANGED <<run, exit, cancelling, pending, locals, records>>

\* `finally: await mcp_manager.close()`.
CloseServers ==
    /\ pc = "close" /\ ~cancelling
    /\ pc' = IF exit = "error" THEN "outer" ELSE "done"
    /\ UNCHANGED <<run, saved, exit, cancelling, pending, locals, records>>

\* A handler that marks every topic failed.
Faulty_RecordFailure_Always ==
    /\ pc = "outer"
    /\ saved' = [saved EXCEPT !.status = "failed", !.ledger = Say(@)]
    /\ pc' = "done"
    /\ UNCHANGED <<run, exit, cancelling, pending, locals, records>>

\* execute()'s `except Exception`: the file is read again and marked failed,
\* unless the topic is gone or cancelled.
RecordFailure ==
    /\ pc = "outer"
    /\ saved' = IF saved.status \in {"absent", "cancelled"} THEN saved
                ELSE [saved EXCEPT !.status = "failed", !.ledger = Say(@)]
    /\ pc' = "done"
    /\ UNCHANGED <<run, exit, cancelling, pending, locals, records>>

----------------------------------------------------------------------------

CallStep(a) ==
    \/ RefuseUnoffered(a) \/ RefuseCall(a) \/ SkipCall(a)
    \/ PlanCall(a) \/ InvalidPlan(a) \/ GiveUpPlanning(a)
    \/ ReachToolLimit(a) \/ RunCall(a) \/ AskApproval(a)

TaskStep ==
    \/ DeliverCancel
    \/ Begin \/ InitFails \/ StartLoop \/ AnswerInquiry
    \/ BuildContext \/ NoTurn \/ OverBudget \/ ReportOverBudget
    \/ ModelRetries \/ ModelFails \/ ModelAnswers \/ ReviewAgain
    \/ \E as \in Proposals : ModelProposes(as)
    \/ AcceptAnswer \/ Deliver
    \/ \E a \in Actions : CallStep(a)
    \/ Approved \/ Declined
    \/ TakeEffect \/ ToolSucceeds \/ ToolFails \/ SaveResult \/ Announce
    \/ NextRound \/ StallOut \/ ReportStall
    \/ Unwind \/ CloseServers \/ RecordFailure
=============================================================================
