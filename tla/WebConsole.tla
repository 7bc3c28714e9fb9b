----------------------------- MODULE WebConsole -----------------------------
(***************************************************************************)
(* The gateway process around one topic: the HTTP handlers of webapp.py,   *)
(* the execution they start, and the death and restart of the process.     *)
(*                                                                         *)
(* Handlers and execution share one event loop.  A handler runs to its end *)
(* without giving way, except stop_run, which waits for the task it        *)
(* cancelled.  So a handler may run whenever the execution is Awaiting,    *)
(* and the process may die at any moment.                                  *)
(***************************************************************************)
EXTENDS AgentRunner

CONSTANTS
    Stoppers,      \* stop requests that may be in flight at a time
    MaxTurns,      \* bound: executions started for the topic
    MaxCrashes,    \* bound: deaths of the process
    ConfigBreaks   \* TRUE: the configuration may be unreadable at a start

ASSUME ConsoleAssumption ==
    /\ MaxTurns \in Nat
    /\ MaxCrashes \in Nat
    /\ ConfigBreaks \in BOOLEAN

VARIABLES
    proc,         \* the process: "up", "stopping" or "down"
    turn,         \* executions started so far; the last one is at pc
    registered,   \* the execution _active_tasks names, 0 for none
    released,     \* executions whose done callback release_run has run
    stops,        \* for each stop request the execution it waits for, or 0
    crashes,      \* deaths so far
    named,        \* history: the title the user saw accepted last
    deleted       \* history: the user deleted the topic

webVars == <<proc, turn, registered, released, stops, crashes, named, deleted>>

vars == <<runnerVars, webVars>>

Turns == 1 .. MaxTurns

NewRun == [status |-> "absent", ledger |-> EmptyLedger,
           title |-> CHOOSE t \in Titles : TRUE]

Init ==
    /\ run = NewRun
    /\ saved = NewRun
    /\ pc = "none"
    /\ exit = "done"
    /\ cancelling = FALSE
    /\ pending = NoPending
    /\ calls = 0 /\ iteration = 0 /\ stalled = 0
    /\ reviewed = FALSE /\ badPlans = 0 /\ at = NoCall
    /\ events = {} /\ checkpoints = {} /\ granted = {}
    /\ ran = [a \in Actions |-> 0]
    /\ proc = "up"
    /\ turn = 0
    /\ registered = 0
    /\ released = {}
    /\ stops = [s \in Stoppers |-> 0]
    /\ crashes = 0
    /\ named = NewRun.title
    /\ deleted = FALSE

\* The loop is free for another handler.
HandlerMayRun == proc = "up" /\ pc \in Awaiting

\* Task.done() of execution t.
TaskDone(t) == t < turn \/ pc \in {"none", "done"}

\* _active_tasks holds a task that is not done.
Live == registered # 0 /\ ~TaskDone(registered)

Present == saved.status # "absent"

----------------------------------------------------------------------------
(* start_run.                                                               *)

\* create_task(execute()); its done callback is release_run.
Launch(r) ==
    /\ run' = r
    /\ saved' = r
    /\ turn' = turn + 1
    /\ registered' = turn + 1
    /\ pc' = "queued"
    /\ cancelling' = FALSE
    /\ UNCHANGED <<exit, pending, locals, records>>

\* A new topic.
StartTopic ==
    /\ HandlerMayRun
    /\ turn = 0 /\ MaxTurns > 0
    /\ Launch([NewRun EXCEPT !.status = "created"])
    /\ UNCHANGED <<proc, released, stops, crashes, named, deleted>>

\* A follow-up: the saved run starts again, the request is appended to it.
FollowUp ==
    /\ HandlerMayRun
    /\ turn > 0 /\ turn < MaxTurns
    /\ Present /\ ~Live
    /\ Launch([saved EXCEPT !.status = "created", !.ledger = Say(@)])
    /\ UNCHANGED <<proc, released, stops, crashes, named, deleted>>

\* A callback that removes whatever is registered.
Faulty_Release_Anything(t) ==
    /\ proc # "down" /\ pc \in Awaiting
    /\ t \notin released /\ t <= turn /\ TaskDone(t)
    /\ released' = released \cup {t}
    /\ registered' = 0
    /\ UNCHANGED <<runnerVars, proc, turn, stops, crashes, named, deleted>>

\* The done callback of execution t: only its own entry is removed.
Release(t) ==
    /\ proc # "down" /\ pc \in Awaiting
    /\ t \notin released /\ t <= turn /\ TaskDone(t)
    /\ released' = released \cup {t}
    /\ registered' = IF registered = t THEN 0 ELSE registered
    /\ UNCHANGED <<runnerVars, proc, turn, stops, crashes, named, deleted>>

----------------------------------------------------------------------------
(* stop_run.                                                                *)

\* A stop that cancels whatever the file says.
Faulty_RequestStop_AnyStatus(s) ==
    /\ HandlerMayRun
    /\ stops[s] = 0
    /\ Live
    /\ cancelling' = TRUE
    /\ stops' = [stops EXCEPT ![s] = registered]
    /\ UNCHANGED <<run, saved, pc, exit, pending, locals, records,
                   proc, turn, registered, released, crashes, named, deleted>>

\* The file says the task is open: a live task is cancelled and awaited.
RequestStop(s) ==
    /\ HandlerMayRun
    /\ stops[s] = 0
    /\ saved.status \in OpenStatus
    /\ Live
    /\ cancelling' = TRUE
    /\ stops' = [stops EXCEPT ![s] = registered]
    /\ UNCHANGED <<run, saved, pc, exit, pending, locals, records,
                   proc, turn, registered, released, crashes, named, deleted>>

\* No task is live: only the file is marked.
StopAbandoned(s) ==
    /\ HandlerMayRun
    /\ stops[s] = 0
    /\ saved.status \in OpenStatus
    /\ ~Live
    /\ saved' = WithStatus(saved, "cancelled")
    /\ UNCHANGED <<run, pc, exit, cancelling, pending, locals, records,
                   webVars>>

\* The awaited task is done, after its callbacks.  The file is read again and
\* marked cancelled whatever else it says; a deleted topic is an error.
FinishStop(s) ==
    /\ HandlerMayRun
    /\ stops[s] # 0
    /\ TaskDone(stops[s]) /\ stops[s] \in released
    /\ stops' = [stops EXCEPT ![s] = 0]
    /\ saved' = IF Present THEN WithStatus(saved, "cancelled") ELSE saved
    /\ UNCHANGED <<run, pc, exit, cancelling, pending, locals, records,
                   proc, turn, registered, released, crashes, named, deleted>>

----------------------------------------------------------------------------
(* decide_approval, rename_run, delete_run.                                 *)

\* The user answers the request for call a that the page shows.
DecideApproval(a) ==
    /\ HandlerMayRun
    /\ <<"required", a>> \in events
    /\ pending.call = a
    /\ pending.answer = "none"
    /\ \E answer \in {"yes", "no"} :
          /\ pending' = [pending EXCEPT !.answer = answer]
          /\ granted' = IF answer = "yes" THEN granted \cup {a} ELSE granted
    /\ UNCHANGED <<run, saved, pc, exit, cancelling, locals, events,
                   checkpoints, ran, webVars>>

\* A rename that changes the file behind the task's back.
Faulty_Rename_FileOnly(t) ==
    /\ HandlerMayRun
    /\ Present
    /\ saved' = [saved EXCEPT !.title = t]
    /\ run' = run
    /\ named' = t
    /\ UNCHANGED <<pc, exit, cancelling, pending, locals, records, proc, turn,
                   registered, released, stops, crashes, deleted>>

\* _current_run: the object of a live task is renamed and saved as it stands.
Rename(t) ==
    /\ HandlerMayRun
    /\ Present
    /\ IF Live THEN /\ run' = [run EXCEPT !.title = t]
                    /\ saved' = run'
               ELSE /\ saved' = [saved EXCEPT !.title = t]
                    /\ run' = run
    /\ named' = t
    /\ UNCHANGED <<pc, exit, cancelling, pending, locals, records, proc, turn,
                   registered, released, stops, crashes, deleted>>

\* A delete that does not look for a live task.
Faulty_Delete_WhileLive ==
    /\ HandlerMayRun
    /\ Present
    /\ saved' = NewRun
    /\ events' = {}
    /\ deleted' = TRUE
    /\ UNCHANGED <<run, pc, exit, cancelling, pending, locals, checkpoints,
                   ran, granted, proc, turn, registered, released, stops,
                   crashes, named>>

\* The ledger and the events go, unless a task is live.
Delete ==
    /\ HandlerMayRun
    /\ Present /\ ~Live
    /\ saved' = NewRun
    /\ events' = {}
    /\ deleted' = TRUE
    /\ UNCHANGED <<run, pc, exit, cancelling, pending, locals, checkpoints,
                   ran, granted, proc, turn, registered, released, stops,
                   crashes, named>>

----------------------------------------------------------------------------
(* The process.                                                             *)

\* Everything but the files is lost.
Forget ==
    /\ pc' = "none"
    /\ run' = NewRun
    /\ exit' = "done"
    /\ cancelling' = FALSE
    /\ pending' = NoPending
    /\ calls' = 0 /\ iteration' = 0 /\ stalled' = 0
    /\ reviewed' = FALSE /\ badPlans' = 0 /\ at' = NoCall
    /\ registered' = 0
    /\ released' = 1 .. turn
    /\ stops' = [s \in Stoppers |-> 0]
    /\ proc' = "down"
    /\ UNCHANGED <<saved, records, turn, named, deleted>>

Crash ==
    /\ proc # "down"
    /\ crashes < MaxCrashes
    /\ crashes' = crashes + 1
    /\ Forget

\* An orderly end: the loop cancels what still runs, and waits for it.
Shutdown ==
    /\ HandlerMayRun
    /\ crashes < MaxCrashes
    /\ crashes' = crashes + 1
    /\ stops = [s \in Stoppers |-> 0]
    /\ proc' = "stopping"
    /\ cancelling' = (pc \notin {"none", "done"})
    /\ UNCHANGED <<run, saved, pc, exit, pending, locals, records, turn,
                   registered, released, stops, named, deleted>>

Leave ==
    /\ proc = "stopping"
    /\ pc \in {"none", "done"}
    /\ UNCHANGED crashes
    /\ Forget

\* _lifespan: abandoned tasks are reconciled before the first request.
Recover ==
    /\ proc = "down"
    /\ proc' = "up"
    /\ IF saved.status \in OpenStatus
       THEN /\ saved' = [saved EXCEPT !.status = "interrupted",
                                      !.ledger = Repair(@)]
            /\ events' = events \cup
                   {<<"interrupted", a>> : a \in Open(saved.ledger)}
       ELSE UNCHANGED <<saved, events>>
    /\ UNCHANGED <<run, pc, exit, cancelling, pending, locals, checkpoints,
                   ran, granted, turn, registered, released, stops, crashes,
                   named, deleted>>

\* load_settings fails in _lifespan: the console starts without reconciling.
StartUnreconciled ==
    /\ ConfigBreaks
    /\ proc = "down"
    /\ proc' = "up"
    /\ UNCHANGED <<runnerVars, turn, registered, released, stops, crashes,
                   named, deleted>>

----------------------------------------------------------------------------

\* The loop is first in, first out: the stop requests a finished task woke
\* go on before a task created later takes its first step.
Execute ==
    /\ proc # "down"
    /\ pc = "queued" => \A s \in Stoppers : stops[s] \in {0, turn}
    /\ TaskStep
    /\ UNCHANGED webVars

\* A handler, a callback, or an end or start of the process.
ConsoleStep ==
    \/ StartTopic \/ FollowUp
    \/ \E t \in Turns : Release(t)
    \/ \E s \in Stoppers : RequestStop(s) \/ StopAbandoned(s) \/ FinishStop(s)
    \/ \E a \in Actions : DecideApproval(a)
    \/ \E t \in Titles : Rename(t)
    \/ Delete
    \/ Crash \/ Shutdown \/ Leave \/ Recover \/ StartUnreconciled

Next == Execute \/ ConsoleStep

Spec == Init /\ [][Next]_vars

(***************************************************************************)
(* The event loop goes on running the task, its callbacks and the handlers *)
(* it has begun; model requests and tools end by their timeouts.  Nothing  *)
(* is assumed of the user.                                                 *)
(***************************************************************************)
Fairness ==
    /\ WF_vars(Execute)
    /\ \A t \in Turns : WF_vars(Release(t))
    /\ \A s \in Stoppers : WF_vars(FinishStop(s))

FairSpec == Spec /\ Fairness

----------------------------------------------------------------------------
(* Properties.                                                              *)

\* The variables hold values of their types.
TypeOfRuns == run \in Runs /\ saved \in Runs

TypeOfTask ==
    /\ pc \in Places
    /\ exit \in {"done", "error", "cancel"}
    /\ pending \in PendingApprovals
    /\ at \in Actions \cup {NoCall}

TypeOfTallies ==
    /\ calls \in 0 .. MaxToolCalls
    /\ iteration \in 0 .. MaxIterations
    /\ stalled \in 0 .. Patience
    /\ badPlans \in 0 .. Patience

TypeOfRecords ==
    /\ events \subseteq EventKinds \X Actions
    /\ checkpoints \subseteq Actions
    /\ ran \in [Actions -> Nat]
    /\ granted \subseteq Actions

TypeOfConsole ==
    /\ proc \in {"up", "stopping", "down"}
    /\ turn \in 0 .. MaxTurns
    /\ registered \in 0 .. MaxTurns
    /\ released \subseteq Turns
    /\ stops \in [Stoppers -> 0 .. MaxTurns]
    /\ crashes \in 0 .. MaxCrashes
    /\ named \in Titles

TypeOfFlags ==
    /\ cancelling \in BOOLEAN
    /\ reviewed \in BOOLEAN
    /\ deleted \in BOOLEAN

TypeOK == /\ TypeOfRuns /\ TypeOfTask /\ TypeOfTallies
          /\ TypeOfRecords /\ TypeOfConsole /\ TypeOfFlags

\* Whenever a request to the model is built, every tool call in the history
\* has its answer: no stop, failure, crash, restart or follow-up leaves a
\* ledger that ContextBuilder refuses (compact.message_groups).
HistoryIsSendable == pc = "turn" => Sendable(run.ledger)

\* A tool that had an effect is never silently missing from the record.  Once
\* the topic is at rest, the ledger tells of each such call that it succeeded,
\* failed, was cancelled or was interrupted; and no call ever ran twice.
EffectsAreAccounted ==
    /\ \A a \in Actions : ran[a] <= 1
    /\ (proc = "up" /\ ~Live /\ Present /\ pc \in Awaiting) =>
          \A a \in Actions : ran[a] > 0 =>
              saved.ledger.result[a] \in {"succeeded", "failed", "cancelled",
                                          "interrupted"}

\* A success in the saved ledger is one: the tool ran, and its checkpoint was
\* saved before the ledger that reports it.
SuccessIsReal ==
    \A a \in Actions \ Planning : saved.ledger.result[a] = "succeeded" =>
        ran[a] = 1 /\ a \in checkpoints

\* No call the policy denies runs, and none that needs consent runs, or is
\* answered with content fetched earlier, unless the user approved that call.
ConsentFirst ==
    \A a \in Actions :
        /\ a \in Denied \cup Planning => ran[a] = 0
        /\ a \in NeedsApproval /\ a \notin granted =>
              ran[a] = 0 /\ run.ledger.result[a] # "reused"

\* However its executions end, a topic has no more effects than each of them
\* may make calls (agent.max_tool_calls_per_run), approved or not.
EffectsWithinLimit ==
    Cardinality({a \in Actions : ran[a] > 0}) <= turn * MaxToolCalls

\* A request for approval is open only while the coroutine waits for it: no
\* decision can reach an execution that has ended.
PendingIsAwaited ==
    pending.call # NoCall => pc = "approve" /\ run.status = "waiting_approval"

\* A page that polls never sees an event about a call, or about its result,
\* that the saved ledger does not hold yet (runner.py: "Save before
\* publishing").
EventsFollowLedger ==
    Present => \A e \in events :
        /\ saved.ledger.result[e[2]] # "absent"
        /\ e[1] \in {"finished", "not_run", "interrupted"} =>
              saved.ledger.result[e[2]] # "open"

\* A title the user gave stays, whatever a live execution saves afterwards.
RenameSticks == Present => saved.title = named

\* A deleted topic does not come back: no execution is left to save it.
DeletedStaysDeleted == deleted => ~Present

\* A running execution is always the one _active_tasks names, so that stop,
\* delete and follow-up find it.
LiveIsRegistered == ~TaskDone(turn) => registered = turn

\* The coroutine hands a call to the executor.
StartsTool == pc # "tool" /\ pc' = "tool"

\* Once a stop request has been taken up, no further tool starts in that
\* execution, not even one the user had just approved.
StopPreventsTools ==
    [][ (\E s \in Stoppers : stops[s] = turn) => ~StartsTool ]_vars

\* A completed task stays completed until the user continues or deletes it.
CompletedIsKept ==
    [][ saved.status = "completed" =>
            \/ saved'.status \in {"completed", "absent"}
            \/ saved'.status = "created" /\ turn' = turn + 1 ]_vars

\* Whatever verdict the execution saved stays until the user continues or
\* deletes the topic: webapp.stop_run says that it reads final state back
\* "instead of overwriting" it.
VerdictIsKept ==
    [][ saved.status \in {"completed", "needs_review", "failed"} =>
            \/ saved'.status \in {saved.status, "absent"}
            \/ saved'.status = "created" /\ turn' = turn + 1 ]_vars

\* The saved status and the liveness of the execution behave as the page
\* promises: refinement of RunLifecycle.
Lifecycle == INSTANCE RunLifecycle WITH
    status <- saved.status, live <- ~TaskDone(turn),
    Unsettled <- OpenStatus, Table <- AllowedTransitions

ImplementsLifecycle == Lifecycle!Spec

\* Every stop request is answered, or the process is gone.
StopReturns == \A s \in Stoppers : (stops[s] # 0) ~> (stops[s] = 0)

\* Every execution ends or waits for the user's consent.
ExecutionSettles == (~TaskDone(turn)) ~> (TaskDone(turn) \/ pc = "approve")

----------------------------------------------------------------------------
(* What makes the safety properties inductive.                             *)

\* What the typing rests on: inside a round the bounds of the round are not
\* used up, and a place that speaks of a call has one.
InRound == {"chat", "judge", "calls", "approve", "tool", "reply", "record",
            "announce"}

LoopInv ==
    /\ pc \in InRound => iteration < MaxIterations
    /\ pc \in InRound \cup {"turn"} => stalled < Patience
    /\ pc = "approve" => calls < MaxToolCalls
    /\ pc \in {"approve", "tool", "reply", "record", "announce"} =>
          at \in Actions
    /\ pending.answer # "none" => pending.call # NoCall

Resting == {"none", "done"}

\* An execution at work is registered, so no handler can start another one or
\* delete the topic behind it; and only the gate that waits has a request open.
LifeInv ==
    /\ LiveIsRegistered
    /\ pc \notin Resting \/ Present \/ deleted => turn > 0
    /\ PendingIsAwaited
    /\ deleted => ~Present /\ pc \in Resting

\* The policy lets call a run: it is not denied, and approved where it must be.
Cleared(a) == /\ a \in Actions \ (Denied \cup Planning)
              /\ a \in NeedsApproval => a \in granted

\* No unapproved answer hands over content fetched earlier.
NothingReused(l) ==
    \A a \in NeedsApproval \ granted : l.result[a] # "reused"

ConsentInv ==
    /\ pc \in {"tool", "reply"} => Cleared(at)
    /\ pending.call # NoCall => pending.call \in NeedsApproval
    /\ pending.answer = "yes" => pending.call \in granted
    /\ \A a \in Actions : ran[a] > 0 => Cleared(a)
    /\ NothingReused(run.ledger)
    /\ NothingReused(saved.ledger)

\* The inductive invariant behind the theorems of ConsoleSafety.
SafetyInv == TypeOK /\ LoopInv /\ LifeInv /\ ConsentInv

\* Where calls of the current group may still lack their answers.
InGroup == {"calls", "approve", "tool", "reply", "record", "announce"}

\* A dead process holds nothing and nobody waits for it; a cancellation waits
\* for the coroutine to wait; before the first request there is nothing.
ProcessInv ==
    /\ proc = "down" => pc = "none"
    /\ pc = "none" => \A s \in Stoppers : stops[s] = 0
    /\ cancelling => pc \in Awaiting \ Resting
    /\ turn = 0 => /\ saved = NewRun /\ named = NewRun.title
                   /\ \A a \in Actions : ran[a] = 0
    /\ turn > 0 => Present \/ deleted

\* What the file says of each call is what the coroutine knows, but for a
\* success between its checkpoint and its save; and the call at work is open.
LedgerInv ==
    /\ pc \notin Resting => \A a \in Actions :
          saved.ledger.result[a] = IF pc = "record" /\ a = at
                                   THEN "open" ELSE run.ledger.result[a]
    /\ pc \notin Resting \cup InGroup => GroupOpen(run) = {}
    /\ pc \in {"approve", "tool", "reply"} => at \in GroupOpen(run)
    /\ pc = "approve" => pending.call = at
    /\ pc = "record" => run.ledger.result[at] = "succeeded"
    /\ pc = "announce" => run.ledger.result[at] \notin {"absent", "open"}

\* A call runs once, from the end of the group on; a call with an effect is
\* open or has an answer that admits one, in the file too.
EffectInv ==
    /\ \A a \in Actions : ran[a] <= 1
    /\ pc \notin Resting => \A a \in GroupOpen(run) :
          ran[a] = IF pc = "reply" /\ a = at THEN 1 ELSE 0
    /\ pc = "record" => ran[at] = 1 /\ at \in checkpoints
    /\ Present => \A a \in Actions : ran[a] > 0 =>
          saved.ledger.result[a] \in {"open", "succeeded", "failed",
                                     "cancelled", "interrupted"}
    /\ SuccessIsReal

\* EventsFollowLedger, and no event is left where there is no file.
EventsInv ==
    \A e \in events :
        /\ saved.ledger.result[e[2]] # "absent"
        /\ e[1] \in {"finished", "not_run", "interrupted"} =>
              saved.ledger.result[e[2]] # "open"

\* Where every start reads its configuration, calls are open only in the group
\* at work, or after a death in a file whose status makes the recovery look.
ReconciledInv == ~ConfigBreaks =>
    /\ pc \notin Resting => Open(run.ledger) \subseteq run.ledger.tail
    /\ Open(saved.ledger) # {} => /\ saved.status \in OpenStatus
                                  /\ proc = "down" \/ pc \in InGroup

\* The statuses of the coroutine's run and of the file, place by place.
AtWork == {"inquiry", "turn", "chat", "judge", "calls", "tool", "reply",
           "record", "announce", "accepted", "doubtful"}

StatusInv ==
    /\ pc \in {"queued", "connect"} =>
          run.status = "created" /\ saved.status \in {"created", "cancelled"}
    /\ pc \in AtWork => run.status = "running" /\ saved.status = "running"
    /\ pc = "approve" =>
          run.status = "waiting_approval" /\ saved.status = "waiting_approval"
    /\ pc \in {"over_budget", "stalling"} =>
          run.status = "needs_review" /\ saved.status \in {"running", "needs_review"}
    /\ pc \in {"unwind", "close"} =>
          /\ run.status \in Verdicts \ {"interrupted"}
          /\ \/ saved.status = run.status
             \/ saved.status = "running" /\ run.status # "completed"
             \/ saved.status = "waiting_approval" /\ run.status \in {"failed", "cancelled"}
    /\ pc = "unwind" => run.status # "completed"
    /\ pc = "unwind" /\ exit = "error" => run.status = "failed"
    /\ pc = "close" /\ exit = "error" => saved.status = "failed"
    /\ pc = "outer" => saved.status \in {"created", "cancelled", "failed"}

\* A stop request for the last execution finds it cancelled or on its way out,
\* and its file without a verdict that a stop must not touch; one for an
\* earlier execution is served before the next one takes its first step.
StopInv ==
    \A s \in Stoppers :
        /\ stops[s] \in {0, turn} \/ pc = "queued"
        /\ stops[s] = turn /\ turn # 0 =>
              /\ cancelling \/ pc \in {"unwind", "close", "done"}
              /\ saved.status \notin {"completed", "interrupted"}
              /\ pc \in {"unwind", "close"} =>
                    /\ run.status # "completed"
                    /\ cancelling \/ exit = "cancel"

\* A rename reaches the file and the run that a live execution saves next.
TitleInv ==
    /\ RenameSticks
    /\ pc \notin Resting => run.title = named

\* The calls that have had an effect.
Effects == {a \in Actions : ran[a] > 0}

\* Effects so far, against the executions before this one and its own calls.
LimitInv ==
    /\ IsFiniteSet(Effects)
    /\ EffectsWithinLimit
    /\ pc \in {"queued", "connect"} =>
          Cardinality(Effects) <= (turn - 1) * MaxToolCalls
    /\ pc \in InRound \cup {"turn", "inquiry"} =>
          Cardinality(Effects) + (IF pc = "tool" THEN 1 ELSE 0)
              <= (turn - 1) * MaxToolCalls + calls

\* The inductive invariant behind the theorems of ConsoleLedger.
ConsoleInv ==
    /\ SafetyInv
    /\ ProcessInv /\ LedgerInv /\ EffectInv /\ EventsInv /\ ReconciledInv
    /\ StatusInv /\ StopInv /\ TitleInv /\ LimitInv
=============================================================================
