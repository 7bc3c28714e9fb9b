# ClearAct: a TLA+ model of the console and its agent

ClearAct runs an agent for a user: a model proposes tool calls, the program
decides which of them may run, runs them, keeps a record of everything, and
shows it on a local page where the user can approve, stop, rename, continue and
delete a topic.  This directory holds TLA+ specifications of that program, the
TLC configurations that check them on small instances, and proofs, checked by
TLAPS, of what holds for every instance.

Paths below are relative to the repository; `runner` is
`src/clearact/runtime/runner.py`, `webapp` is `src/clearact/webapp.py`.

## 1. Inventory

| component | state | operations | what makes it correct |
|---|---|---|---|
| message ledger (`domain/models.py`, `context/compact.py`) | `Run.messages`: groups of tool calls and their answers | propose, answer, close a group, repair | every call is answered before the next request; no effect goes unrecorded; no success is reported that was none |
| agent runner (`runtime/runner.py`, `state.py`, `executor.py`, `cli._run`) | the `Run` object, counters of the loop, the call at work | the model's turns, policy, approval, tools, review, limits, failure, cancellation | consent before effects, limits kept, every way out closes the group and settles the status, it ends |
| topic handlers (`webapp`: start, stop, approval, rename, delete) | `_active_tasks`, `_active_runs`, `_pending_approvals` | HTTP handlers, done callback, start and end of the process | one live execution per topic; stops and decisions reach the right one; verdicts and titles are kept; deleted is deleted |
| run store (`storage/run_store.py`) | `<run>.json`, `<run>.events.jsonl`, revision archives | atomic save, append, prune, archive | the page never sees an event whose subject the ledger lacks |
| rewind and snapshots (`webapp` 444-660, `snapshots.py`) | before-images, files of the workspace | preview, confirm, restore | the user's work survives; what only the agent changed goes back to the boundary; what was confirmed is what is done; stale evidence is named; an interrupted rewind is not a loss |
| data lease (`storage/lease.py`) | reference counts per directory, an OS lock | acquire, release, death | one process writes a data directory; the lock is neither given back early nor kept |
| artifact writes (`tools/artifacts.py`) | target file, temporary file, before-image | capture, check, snapshot, replace | a user's edit is not overwritten, or its content is in the snapshot |
| workflow plan (`runner`, `tools/workflow.py`) | plan, steps, finished phases | declare, activate, revise, attach, complete, go back | a call goes to the last step begun only, a phase once reached is not planned away |
| read and search guards (`runner` 1076-1153) | none of their own: the log of calls, with versions | skip, reuse, run again | a reused answer is the file's current content; searches are bounded; local files come before the web |
| completion and delivery (`completion.py`, `delivery.py`) | checks, report, review flag | evaluate, review once, accept | "completed" only if what was written is there and was checked last, and nothing failed unnoticed |
| policy and risk (`policy.py`, `risk.py`) | none | decide | what is not offered does not run on the model's word, whichever list decides |
| browser sessions (`tools/computer_use.py`) | the session and the topic it belongs to | start, bind, resolve, act, close | a call works in its own topic's session |
| MCP manager (`tools/mcp.py`) | server connections, the server of each tool's name | connect, close | an offered tool has an open connection, a run that ends leaves none |
| context builder (`context/`) | none | build, excerpt, compact | the user's words and the latest calls survive, groups stay whole, the request fits |
| polling page (`webapp.run_detail`, `web/app.js`) | ETag | poll | no mixed snapshot is cached |
| office, web, command, project tools; providers; settings; renderer | - | - | data formats and the operating system: not modelled |

**How they interact.** One asyncio loop runs the handlers and, for each topic,
one task: `execute()` -> `cli._run` -> `AgentRunner.run`.  Handlers and task share
the `Run` object through `_active_runs`, the request for approval (a future)
through `_pending_approvals`, and the files through `RunStore`.  `stop_run`
cancels the task and waits for it; `release_run` is the task's done callback.
`EventBus.publish` calls its subscribers without giving way, so an event is
written at the point where it is published.

**What is hard.** A cancellation can arrive at any `await`; the process can die
between any two writes; a tool may have had its effect although nobody heard of
it; a handler works on the file while the task works on its own object; the
page sends decisions about what it saw some time ago; four writes report one
result (checkpoint, ledger, event, and the effect itself); files change while an
earlier read of them is about to be repeated, or a verdict about them is being
reached; plans, steps, calls and files are related by identities that a
revision, a follow-up or a rewind may leave behind; and what a task holds has
to be given back on every way out.  `PROJECT.json` lists
the hazards line by line with the properties aimed at them.

## 2. Modules

    Ledger            the tool calls of a run and their answers
      AgentRunner     one execution: cli._run and AgentRunner.run
        WebConsole    the process: handlers, callbacks, crash and restart
          MCWebConsole     instances for TLC
          ConsoleTypes     proofs: types and bounds
            ConsoleSafety  proofs: life of an execution, consent
              ConsoleLedger    proofs: records, stops, titles, limits, and
                               the refinement of RunLifecycle
    RunLifecycle      what the page promises of a topic (abstract)
    Rewind            files, before-images and going back
      MCRewind             instances for TLC
      RewindSafety         proofs
    Policy            assessment, decision and offer of a call (operators)
    Context           what a request shows of a log (operators)
      ReadGuards      a turn's reads and searches; extends both
        MCReadGuards       instance for TLC
        GuardSafety        proofs
    Workflow          plans, steps, checks and the verdict of a turn
      MCWorkflow           instance for TLC
      WorkflowSafety       proofs
    LogFacts          lemmas on logs and on least numbers, for GuardSafety,
                      WorkflowSafety and RewindSafety
    Ownership         what the lease promises (abstract)
    Resources         lease, connections and browser of several processes
      MCResources          instance for TLC
      ResourceSafety       proofs, of the refinement too

The three state machines below `Rewind` describe the same turns as
`AgentRunner`, each from another side.  `AgentRunner` has the suspension points,
the saves and the cancellations, and takes as choices what a guard answers and
what the checks find; `ReadGuards` and `Workflow` have the data on which these
answers rest and leave out saves and deaths.  An outcome that one of them can
produce is always among the choices of `AgentRunner`.

**Ledger.** A ledger is a function from call identities to the answer recorded
for each ("open" while there is none) and `tail`, the calls of the last group
while nothing was said after it.  That is all `message_groups` and
`_record_unfinished_actions` look at: the latter closes calls in `tail` only, the
restart reconciliation (`Repair`) closes every open call wherever it stands.
Calls of a message are executed in the order of their numbers.  Identities are
fresh: a model that repeats an identity is refused by `message_groups` and is not
modelled.

**AgentRunner.** `pc` is the place where the coroutine stands.  The values in
`Awaiting` are its real awaits (queued, the MCP connection, the model, the user,
the tool, the threads that evaluate delivery, closing the servers); everywhere
else only a crash can come between two steps.  So an action is the code from
one await or save to the next:

| `pc` | where in the code | steps out of it |
|---|---|---|
| queued, connect | `cli._run` before the runner | `Begin`, `InitFails`, `StartLoop` |
| inquiry | `status_summary` in a thread | `AnswerInquiry` |
| turn | head of the round, `ContextBuilder.build` | `BuildContext`, `NoTurn`, `OverBudget` |
| chat | the provider, with its retries | `ModelProposes`, `ModelAnswers`, `ModelRetries`, `ModelFails`, `OverBudget` |
| judge | the completion checks in a thread | `ReviewAgain`, `AcceptAnswer` |
| accepted, doubtful | between the two saves of a final answer | `Deliver` |
| calls | the loop over a group | `RefuseCall`, `RefuseUnoffered`, `SkipCall`, `PlanCall`, `InvalidPlan`, `GiveUpPlanning`, `ReachToolLimit`, `RunCall`, `AskApproval`, `NextRound`, `StallOut` |
| approve | `WebApprovalGate.request` | `Approved`, `Declined` |
| tool, reply | the executor, before and after the effect | `TakeEffect`, `ToolSucceeds`, `ToolFails` |
| record, announce | checkpoint saved; ledger saved | `SaveResult`, `Announce` |
| stalling, over_budget, unwind | waiting for the delivery report on a way out | `ReportStall`, `ReportOverBudget`, `Unwind` |
| close, outer, done | `finally` of `cli._run`, `execute()`'s handler, the end | `CloseServers`, `RecordFailure` |

`DeliverCancel` is the arrival of a cancellation at each of the awaits.  `run` is
the object, `saved` the file; they differ exactly where the code has not saved
yet.  `ran` and `granted` are history variables: how often a tool had its effect,
and which calls the user approved.  What the policy says of a call is a constant
(`Denied`, `NeedsApproval`, else it passes), as is whether it is one of the
workflow tools (`Planning`); whether the read guard answers a call, whether a
tool fails, what the completion checks find and whether the context fits are
choices.  Limits are the code's: `MaxIterations`, `MaxToolCalls`, and `Patience`,
which is the literal 3 of `runner` 518 and 797.

**WebConsole.** Adds the handlers, the done callback, the stop requests in
flight, and the process.  A handler other than `stop_run` never gives way, so it
is one action and may happen whenever `pc` is in `Awaiting`.  `stop_run` is
`RequestStop` up to its `await task` and `FinishStop` after it; the loop is first
in, first out, so a stop that was woken by a finished task goes on before a task
created later takes its first step (guard of `Execute`).  `Crash` forgets
everything but files; `Shutdown` is the orderly end, in which the loop cancels
what still runs; `Recover` is `_lifespan` with `_interrupt_incomplete_runs`;
`StartUnreconciled` is `_lifespan` when the configuration cannot be read.

**RunLifecycle.** The status a topic shows and whether an execution is at work.
While one is, the status moves along the table of `runtime/state.py`; a
follow-up starts only when none is; a completed task is never withdrawn.  It
also admits what the code does beyond the table: `Withdraw` (a stop may also
replace needs_review and failed) and `Overtake` (an execution that starts takes
no notice of a cancellation meant for the one before it).

**Rewind.** One topic's ledger again, but seen from its data: which file an
action read or wrote and with what content.  `files` and `stamp` are the disk
(contents and modification times), `snapshots` the before-images, `messages`,
`revisions` and `updated` the saved run, `events` the actions of which the log
has lines, `archives` the branches that were set aside.  The agent reads a file
whole with its version (`Read`), or writes one in the three steps that can be
interrupted: the target's version is taken (`StartWrite`), checked again with
the before-image and the replacement (`CommitWrite`, which is `save_artifact`),
and the result recorded (`RecordWrite`).  The user edits files at any time the
loop is not inside a rewind.

A rewind is one handler without a point at which it gives way, so only a death
can come between its steps, and `pc` names them (a restore that raises an error
is a step of its own):

| `pc` | where in the code | steps out of it |
|---|---|---|
| idle | no rewind runs | `Preview`, `ConfirmRewind`, `PlainRewind` (which include the checks and the archive, `webapp` 1517-1552) |
| scan | `_rollback_discarded_effects`, one message at a time from the end | `UndoNext`, `RestoreFails`, `EndScan`, `CrashInRestore` |
| prune | stale evidence is known, the log is not pruned yet | `PruneEvents`, `CrashInPrune` |
| save | log pruned, nothing saved | `SaveRewound`, `BindFails` (the 409 of a lost browser session) |

`RestoreFails` is the error path of the scan (`webapp` 511-516).  A file may be
locked or read-only, or the disk full, although the dry run found nothing wrong.
The code then warns, records neither a restored file nor a new entry of
`virtual_files`, goes on with the next older message, and in the end prunes the
log and saves the trimmed ledger as if nothing had happened.  No later rewind
comes back to that write: only the archive still has it.  The file is as it was,
or half-written, since `write_bytes` truncates it first; a file that was to be
deleted can only stay.  `failed` is history, the writes to which this happened;
`ToldOf(f)` says that one of them was to f and is among the warnings.

`Crash` is a death at any of the places above, or in the middle of a write.  The dry run of
the preview repeats the same `Look` (`Ahead`) that the real scan takes step by step.
A boundary may be any position: `_resolve_rewind_boundary` takes the start of a
workflow step, the first assistant message, or the message of an action.
`started`, `typed` and `written` are history: the files when the rewind began,
what the user last put into each, what the agent ever did.

**Policy.** The risk assessment and the decision as total operators over the
tool and the one aspect of its arguments that the assessment tells apart
(`Assess`, `Decide`), and the list of tools a request offers (`Offered`).  The
program states the same switches twice, in `PolicyEngine` and in
`_policy_tool_offered`, and nothing but agreement keeps them together.

**Context.** `ContextBuilder.build` as a chain of four attempts: everything,
long reads excerpted, groups dropped with the working reads protected, and
without.  `Thinned` is the code's loop that drops the oldest optional group until
the rest fits, said as the least prefix that is enough.  Sizes are numbers per
entry.

**ReadGuards.** A log of messages, calls and answers; `disk` gives each path a
version (the `mtime:size` of the code, which the model takes to identify the
content).  A call goes through the policy and the ten reasons of
`_guard_read_only_action` in their order (`Propose`), is answered from an earlier
entry (`Skip`), or opened (`Open`), answered by the tool (`Return`) and filed
(`RecordRead`), with edits and deletions by the user or a command between any of
these.  `RewindTurn` cuts the log and puts written files back.  Four details of
the code matter and are kept: a call that needs approval is not answered from
earlier results and then passes the budget reasons as well, since the first
reason found ends the search (`runner` 601-607), hence the exemption of `asked`
entries in two properties; a read whose file changed under it is recorded
without a version; a failed read is filed under the version found when the
failure is handled where the tool found something invalid (`runner` 693-696),
and under none after a timeout or another error; a listing is filed under the
version the directory has afterwards (`runner` 721), which is why
`ReuseIsCurrent` speaks of files only.

What a request offers (`WebOffered`, with `computer_use_available` as the
parameter `browser`, and `Offered` of `Policy`) and what is held back when it is
called are two lists of conditions, and they do not agree everywhere.
`UnofferedNeedsTheUser` says where they do, and names the two gaps.  A search
that repeats one of the turn, while the budget is spent, has the guard's reason
"duplicate_read" or "similar_search", which a policy that asks does not act upon: the user is asked, and
on a yes the search runs.  And nothing but the tool itself looks for the browser
session: a call without one runs and fails.  The property therefore asks
`WebOffered` with a session open (`TRUE`); what is offered without one is offered
with one too, so it says the same of both.  The tools that `runner` 241-255 takes
off the list are another matter: for a discussion they are refused by name
(`runner` 481-486, which is `RefuseUnoffered` of `AgentRunner`); leaving out
`create_document` and `create_spreadsheet`, or all tools of a simple question, is a
matter of the prompt, with no refusal behind it, and is not modelled.

**Workflow.** The log again, with the plan, the steps and the verdict.  One
action is what happens between two awaits: the calls of a message one by one
(`DeclarePlan`, `RevisePlan`, `DeclareStep`, `Propose`, and the ends of a call),
`EndRound`, and the end of a turn in its four moments, at each of which a file
may have changed: the draft is compared with the files (`DraftAnswer`), the
completion checks run in a thread (`CheckPlan`), then the delivery checks and
the steps (`Verdict`).  The ways out that skip the verdict are `End`, `FailLimit`
and `Stop`.  `RewindTo` goes back to a step.

**Resources.** Scopes (the service's lifespan, a topic's task, a command line)
are at a stage `at`; those in `Inside` hold their process's reference.  `owner` is
the file lock, `refs` the counts of each process.  `Acquire` and `Release` are
`data_lease`; `Connect`, `ServerAnswers`, `Connected`, `AbandonConnections` and
`EndRun` are the MCP manager as `cli._run_impl` uses it; the browser's actions are
those of `BrowserSessionManager` and of `ComputerUseTool.execute`.  `Exit` is the
end of a process, for whatever reason.

**Ownership** is the promise: the scopes at work on a directory are all of one
process.  It knows neither counts nor locks.

## 3. Runs

| run | instance | checks |
|---|---|---|
| `console_ledger` | three calls: one free, one that needs consent, one denied; groups of up to two; two rounds; two executions; a stop; one crash or shutdown | the inductive invariant; the history is sendable; effects are accounted for; success is real; consent; approvals are awaited; events follow the ledger; no tool starts after a stop |
| `console_handlers` | two calls, one that needs consent; two stop requests (symmetric), two titles, two executions, one crash, starts with an unreadable configuration | the inductive invariant; the tool-call limit; renames stick; deletion is final; the live execution is the registered one; completed stays completed; refinement of `RunLifecycle` |
| `runner_limits` | three calls, two of them plans; two executions; a stop; patience 2 | under fairness: every stop request returns, every execution ends or waits for the user |
| `stop_verdict` | three denied calls, patience 3 | violated: a stop overwrites a saved needs_review |
| `unreadable_config` | one call, one crash | violated: an unreconciled topic cannot be continued |
| `rewind_chain` | one file, two contents (symmetric), three actions, two edits, one rewind, any of whose restores may fail | the inductive invariant; the user's work is kept; the boundary is reached, or the user told that it was not; a confirmation does what the preview said, but for a file of which a restore failed; stale evidence is named |
| `rewind_retry` | a file inside and one outside the workspace, two actions, two attempts, one death, restores that may fail | the invariant; the boundary is reached by the second attempt, or the user told that it was not; no record and no event is lost |
| `read_guards` | one text file of two parts, five kinds of turn, two policies, two messages, four entries, three versions, a request that fits six units and aims at four | types; a repeated answer is current; the essentials reach the model; a tool that was not offered does not run on the model's word, and what is offered is not held back; search budgets; local files before the web |
| `workflow` | one file, three phases in four plans, ten kinds of request with their follow-ups, three rounds, two messages, three contents | at most one open step, the last; completed means delivered; success is not invented; reached phases are kept |
| `resources` | two topics (symmetric) and the command line, two servers that may list the same tool, two browsers | the lease counts scopes; it implements `Ownership`; connections follow the run; the browser stays bound |
| `rewind_undo` | one file, two actions, an edit | violated: a file the user took back to an earlier version is restored |
| `rewind_archive` | one file, two actions, two attempts | violated: the archive of the second attempt lacks events |

`CHECK_DEADLOCK FALSE` in every configuration but `resources`: a topic may be
deleted, or its bounded executions, actions, messages and rewinds used up, and
then nothing needs to happen.  In `resources` there is always a next step.

**Bounds.** `MaxTurns = 2` is the least at which a late stop, a late callback
or an old ledger meets a successor; `MaxCrashes = 1` puts one death at every
step of either; two calls in a group are the least at which a group can be cut
between its members, and the third call makes a second group, with an earlier
one before it, possible.  `MaxIterations = 2` lets a round follow a round and the
review use up the last one.  `Patience` is 3, as in the code, where rounds count,
and 2 in `runner_limits`, so that both counters of that kind are exhausted
within two rounds.

For rewinds, two writes of one file are the least at which the second is
undone against what undoing it depends on, and the third action adds a read
before, between or after them; two edits put one of the user's between the
agent's writes and another between the preview and its confirmation.  Two
contents and "absent" let a file come back to what it was.  Two attempts and one
death are the least at which a rewind is completed that was cut short.

For reads, four entries are a read, a change of the file, a second read or a
search and the reuse, or the same across two messages; three versions are
the first content and two changes, so that a file can change both between two reads
and during one.  Two messages with a rewind between them are the least at which
the reads kept by a rewind are repeated.  A limit of six units, a target of four
and reads of up to three make all four attempts of `Context` happen with four
entries.  `Calls` bounds what is proposed to what a kind of request is about,
`Watched` edits to the files it looks at.  A run has 914 924 distinct states.

For workflows, three rounds are the least for: plan, work, draft, sent back once,
second draft; the third idle message in a row and the third invalid plan
also need three.  `Tries` gives for each kind of request the tools tried at each
place, `Follows` the requests that may come next; together they keep the
product of plans, outcomes and edits at 1 834 616 distinct states.  Each kind is
there for a condition of the verdict: tests asked for, files named, a greeting,
a discussion, a status question, a follow-up that continues the plan or does
not, files that must not be read.  Edits happen in the phases in which files are
looked at next (`Named`).

For resources, two topics are the least at which one leaves while another of its
process stays, the command line is the second process, two servers the least at
which one of them fails or loses its name to the other, and two browsers let a
call outlive the session it looked up.  575 326 distinct states.

**Fairness** (`FairSpec`).  Weak fairness of `Execute`, of each `Release` and of
each `FinishStop`: the event loop runs what is ready, model requests end by the
provider's timeout and `_model_retry_attempts`, tools by `wait_for` in
`ToolExecutor`.  Nothing is assumed of the user: an approval may never be
decided, which is why `ExecutionSettles` allows an execution to wait for it.
The process is assumed to stay up only in that run (`MaxCrashes = 0`).

The specifications added for reads, workflows and resources state safety only and
assume no fairness.

**What the properties say** is written above each of them in the modules.
Each is broken by a named `Faulty_` variant of one action, the plausible bug it
guards against: a group saved late, an event published before the save, a
result without its checkpoint, a gate that keeps its request or swallows a
cancellation, a callback that removes another execution's entry, a rename of
the file only, a delete of a live topic, a stop that ignores the status; a write
without its before-image, an undo without a look at the file, a scan that stops
at the first mismatch, a restore counted as done before it is made, a confirmation bound to the topic only, an archive taken
too late, a revision not saved; a lock given back by the second scope, a reference
not counted, connections closed only if a tool uses them, a browser rebound from
a running topic; coverage that ignores where a read ended, evidence of a file as
it was, a budget counted per message, compaction that keeps what is recent only,
a command offered by its own category alone; a step left active beside the next,
a check that counts although the file was written after it, a refusal that is no
failure, a revision that forgets reached phases.

## 4. Proofs

For every set of calls, limits, titles, stop requests, and any number of
executions and crashes, from the assumptions named `ActionsAssumption`,
`RunnerAssumption` and `ConsoleAssumption`:

- `TypeCorrect`: `Spec => []TypeOK`.  The counters' bounds are not inductive by
  themselves: that `calls` never passes `MaxToolCalls` needs that an execution
  which waits for approval has still one to spend; that `iteration` stays within
  its limit needs that every place inside a round has one left.  `LoopInv` says
  this place by place, and `TypeOK /\ LoopInv` is inductive (`ConsoleTypes`).
- `SafetyInvariant`: `Spec => []SafetyInv`, with
  `SafetyInv == TypeOK /\ LoopInv /\ LifeInv /\ ConsentInv`.
  `LifeInv`: an execution at work is the one `_active_tasks` names, a request
  for approval is open only at the gate, a deleted topic has no file and nobody
  who could write one.  This is where `release_run`'s identity check, the gate's
  `finally` and the two `done()` checks of start and delete are needed.
  `ConsentInv`: a call at the executor, or with an effect, was cleared; an
  answer "yes" belongs to a granted call; neither ledger reuses content that
  needed consent.
- From it: `ConsentComesFirst`, `ApprovalsAreAwaited`, `OneLiveExecution`,
  `DeletionIsFinal`.

The argument is one lemma per part and per side: what the coroutine's steps do
(`TaskTypes`, `TaskLife`, `TaskReuse`, `TaskConsent`) and what the handlers do
(`HandlerTypes`, `HandlerLife`, `HandlerReuse`, `HandlerConsent`), over lemmas on
the ledger operators.

What the console records is proved on top of this, in `ConsoleLedger`:

- `ConsoleInvariant`: `Spec => []ConsoleInv`, where `ConsoleInv` adds nine parts
  to `SafetyInv`.  TLC checks it in both console runs, with and without
  unreadable configurations.  None of the properties is inductive alone:
  - `ProcessInv`: what a dead process, or one before its first request, leaves.
    A cancellation is only pending where the coroutine waits.
  - `LedgerInv`: the file and the run in memory give each call the same answer,
    but for the one success between its checkpoint and its save; outside the
    group no call of it is open.  "Save before publishing" and every statement
    about the file rest on it.
  - `EffectInv`: at each place of a group an open call has not run, but for the
    one whose effect was just taken.  That no call runs twice follows only from
    this, since a call is chosen by being open.
  - `EventsInv`: `EventsFollowLedger` without the case of a deleted topic, so
    that it can be carried through a delete.
  - `ReconciledInv`, under `~ConfigBreaks`: an open call is in the group at work,
    or the process died and the file's status makes the recovery look.
  - `StatusInv`: which statuses the object and the file have at each place.  They
    differ at a verdict that is not saved yet, and the refinement needs to
    know by which.
  - `StopInv`: a stop request that waits for the last execution finds it
    cancelled or on its way out, and never with a completed run to overwrite.
    This is why `stop_run`'s late write cannot withdraw a completion.
  - `TitleInv`: a live execution's object has the new title too.
  - `LimitInv`: the effects so far are within the limits of the earlier
    executions plus the calls counted by this one.
- From it: `HistoriesAreSendable`, `EffectsAreOnRecord`, `SuccessesAreReal`,
  `EventsAreSavedFirst`, `EffectsAreLimited`, `TitlesStay` and `CallsRunOnce`.  The
  first two assume `~ConfigBreaks`, that every start of the service reads its
  configuration; without it the first is false, as the run `unreadable_config`
  shows, and an effect may stay unrecorded in a topic nobody reconciled.
- `StopsAreHeeded` and `CompletionIsKept` are action properties.  The first: while
  a stop waits, `StopInv` leaves the execution four steps, to receive the
  cancellation, to let the effect of a tool already at work happen, to unwind and to
  close the servers.  The second follows from what each step may do to the saved
  status (`StepProgress`).
- `ConsoleImplementsLifecycle`: `Spec => ImplementsLifecycle`, the refinement of
  `RunLifecycle`, which states safety only.  Each step of the coroutine and each
  handler is shown to be a stutter or one named step of the abstract module
  (`TaskStatus`, `HandlerStatus`, then `LifecycleStep`).

For rewinds, for every set of files and contents, any number of actions, edits,
attempts and deaths, from `RewindAssumption` (`RewindSafety`):

- `RewindInvariant`: `Spec => []RewindInv`.  `RecordsInv`: a recorded write has
  its before-image and counts as the agent's; a read whose version is still the
  file's shows what the file holds; a preview whose base is still `updated` has
  its boundary inside the ledger.  The second is why stale evidence is found by
  comparing versions, the third why `ConfirmRewind` may use a position taken
  earlier.  `ScanInv`: while a rewind runs its archive is the whole branch, and
  `virtual_files` agrees with the disk, unless a failing restore left the file
  half-written, which is why stale evidence can be judged by it.  `ProgressInv`:
  during the scan a file that only the agent changed holds what some discarded
  write at or before the place of the scan put there, or already what was there
  before the first; once a restore of it failed, it is half-written or holds what
  any discarded write put there.  `VersionsInv`: a recorded write left
  its file newer than every read recorded before it, so the preview, which looks
  at versions before the restores, and the scan, which looks after them, judge
  such a read alike.  `ForeseenInv`: of a file no restore failed for, a dry run from where
  the scan is ends with what was promised; it says of every step what
  `ConfirmedAsPreviewed` says of the last.
- `PreviewsAreKept`: the restores change only files the scan knows by then, and a
  dry run never looks at the disk for those; a failing one leaves its file
  unknown or wrong, but no other.  So two dry runs say the same of a file of which
  they start with the same knowledge (`DryRunsAgree`, which is per file).  This is an induction
  over the messages, made from the least position at which the two would
  disagree (`LeastExists`); that the recursion of `Ahead` has a solution is
  shown in the same way.
- From it: `UserWorkSurvives`, `BoundaryIsReached`, `StaleReadsAreFlagged`,
  `RecordsAreKept`, `EventsAreKept`.  `BoundaryIsReached` is the interesting
  one: the file need not hold what the newest write left, any state on the way is
  enough, and so a rewind that died half-way is completed by its repetition.  A
  rewind in which a restore failed is not: the trimmed ledger no longer has that
  write, and what the theorem then says is that the user was warned and that the
  file holds nothing foreign.  `StaleReadsAreFlagged` has one corner of this kind: a
  newer write of the file was undone, undoing an older one fails half-way, and
  `virtual_files` still says what the first had restored; a kept read of that
  content is not called stale, and only the warning speaks of the file.

For the lease, connections and the browser, for any number of processes, topics,
servers, tools and browsers, from `ResourcesAssumption` (`ResourceSafety`):

- `LeaseCounts` and `LeaseExcludes`.  `LeaseInv` says that a process counts
  exactly the scopes inside it and owns the file exactly while it counts one;
  the two halves need each other, since a release unlocks on the count, and
  the count is right only while nobody else could have taken the lock.
- `LeaseImplementsOwnership`: `Spec => Shared!Spec`.  Every step is a stutter, one
  `Enter`, one `Leave` or the `Exit` of a process; an entry is allowed because a
  scope elsewhere would make that process the owner.
- `ConnectionsAreClosed`: strengthened by `LinkInv`, that a task on its way to a run
  has no connection nobody follows, and offers no tool before.
- `BrowserIsBound`: strengthened by `BrowserInv`, that numbers of sessions are
  never used twice and that a closed session has nobody at work once its closing
  is over.

For reads and searches, for every log, set of calls, policy, limit and number of
edits, rewinds and messages, from `GuardAssumption` and `ContextAssumption`
(`GuardSafety`):

- `TypeInvariant`: `Spec => []TypeInv`, the shapes of the log (`LogInv`), of the
  versions (`DiskInv`) and of the call at work (`WorkInv`): every entry but the
  user's is the answer to a call the policy knows, and a call at work belongs to
  the last message.  `ShapesAreKept` follows.
- `RepeatsAreCurrent`, by an invariant over the entries: a read that is filed under
  a version shows that version (`Told`), and a repeated answer names an earlier
  read that does (`AllTold`); the log only ever grows or is cut from its end, so
  what an entry refers to stays where it is.
- `UnofferedIsNotRunAlone`: every reason of the guard against every condition of
  the offer, over all policies.  What `Outcome` does with the reason is part of it,
  so that the search a user may allow shows up; that it repeats one of this
  turn is `ReuseIsOfTheTurn`.
- `WebComesAfterFiles`: an action property.  A web call at the gate for approval is in
  a turn that may use the web (`ApprovalInv`), since the edits that happen while
  the user thinks can make the evidence stale but not the turn another one.
- `BudgetIsKept`: strengthened by `RoomForMore`, that a search at work which nobody
  approved still has one to spend.  The counts of the code (found, streak) are
  shown to bound the counts of the property, which is where cardinalities of
  subsets are needed.
- `EssentialsAreShown`: over the operators of `Context`, first for a single
  compaction of any log (every user's message and the last calls are in
  `Required`, `Thinned` only takes away optional groups, a view that fits is
  within the limit), then for the calls that are added to the log after the request
  was built (`EssentialsInv`).

For plans, steps and verdicts, for every set of files and plans, requests and the
calls their turns may make, number of rounds, turns and edits and every limit of
phases, from `WorkflowAssumption` (`WorkflowSafety`):

- `StepsAreClosed`: `Spec => []WorkflowInv`, from the inductive
  `TypeInv == LogInv /\ DiskInv /\ PlanInv /\ StepsInv /\ WorkInv /\ OpenInv`.
  `StepsInv`: steps begin one after the other and only the last may be open; it
  is why `_active_step`, which searches from the end, finds the step that a call
  belongs to.  `OpenInv`: a step stays open only while the turn goes on, or when it
  was stopped or only asked for the status.  Each action is sorted by what it
  does to each part: how it `Moves` the steps, `Logs`, `Writes`, `Goes` on and
  `KeepsPlan`; rewinding a turn to a step is a case of its own, since it cuts the
  log and with it the actions of the steps that remain.
- `RevisionKeepsReached`: an action property.  A proposed plan is cut to the
  phases there is room for after those already reached; `Placed` of `LogFacts`,
  that some chosen places of a sequence can be put in their order without losing
  one, shows that all the reached ones are in the result.
- `CompletionIsEarned`: strengthened by `DraftInv`, that from the final text to the
  verdict `drift` is exactly the files of the turn which are no longer as it wrote
  them; the verdict refuses any, whatever happened to the disk in between.
- `SuccessIsReal`: strengthened by `CallsInv`, that every call of the turn is in a step,
  `RecoveredInv`, that a step of the turn is recovered only where the turn wrote
  something, and `PassedInv`, that a check that passes had a call that succeeded.

`LogFacts` has what both this module and `GuardSafety` need of sequences that only
grow or are cut, and of the first and last of some places.

**Model-checked only**: the liveness properties under fairness (`StopReturns`,
`ExecutionSettles`), which the prover cannot state.  Every other property of a
passing run is the statement of a theorem.  The properties of the runs that
expect a violation are false of the code, and nothing is proved of them.

## 5. What the runs found

- `stop_verdict`: `stop_run` reads the run back after the cancelled execution
  ended and marks it cancelled whatever it says (`webapp` 1437-1440), although
  the comment there speaks of reading final state back instead of overwriting
  it.  An execution that was on its way to needs_review loses that verdict.
- `unreadable_config`: the reconciliation is skipped when the configuration
  cannot be read at a start (`webapp` 172-178) and never made up for; a topic
  that died with an open call can then not be continued, since every request
  for it fails in `message_groups`.

- `rewind_undo`: each discarded write is compared with the file by itself
  (`webapp` 504).  If the user took the file back to an earlier version of the
  agent's, the last write is reported as "left it unchanged", and the earlier
  one is then undone.  Nothing is lost by it: that content is the agent's own
  (`UserWorkIsKept` holds), but the documents promise more.
- `rewind_archive`: the log is pruned before the browser session is bound
  (`webapp` 1587, 1637).  After a 409 the ledger is the old one and its events
  are gone; the repeated rewind archives what is left, and only its archive is
  reachable through a revision.  The events are not lost from the disk
  (`NoEventIsForgotten`), but the page cannot show them.

Two disagreements were seen while `Workflow` was written and have no run of their
own.  After a stop the step at work stays active, the next turn's calls are
attached to it, and none of the checks on steps judges it because it began
before that turn; `README.md:54` and `docs/IMPROVEMENTS.md:120` say that such a phase
needs review.  `SuccessIsNotInvented` leaves exactly these turns out.  And
`completed_plan_item_ids` takes all identities of the plan at the end of a
development, those of phases never begun included; a later revision that uses
one of them again inherits the mark.

## 6. Abstractions

Every write of the store succeeds or the process dies; a write is atomic
(`save_run` replaces a file; an event is one appended line).  A crash inside
`_interrupt_incomplete_runs` is not modelled.  One topic is modelled: topics
share nothing but the browser sessions and the lease.  The console process is
the only one on its data (the lease's promise).  Rewinds, which cut the ledger,
are in `Rewind` and not part of `WebConsole`: they run only while the topic has
no execution, and leave a closed ledger.

In `Rewind` the user does not edit a file inside the synchronous scan, nor
between the last check of a write and its replacement: the first is a stretch
of milliseconds that no document speaks of, the second is conceded by the
docstring of `save_artifact` and by `docs/maintenance-2026-10-13.md:89`.  Reads are
whole and carry a version; truncated reads, PDFs and listings differ in that the
code calls more of them unverified.  A modification time never repeats.  Warnings
about commands and MCP calls, whose effects no rewind can undo, are left out, as
are snapshots that do not fit their action, and before-images or files that
cannot be read: in a dry run such an error is the warning of the preview too, in
the scan it is `RestoreFails` with nothing changed.  A torn file stands for
whatever a death or an error inside `write_bytes` leaves.  An exception after the
scan (in `_restored_file_contents`, the pruning or the save) leaves the handler where
`Crash` cuts it, but for the process going on. Texts, titles' content, reasoning, delivery
reports, workflow steps and stage notes are left out of `Rewind`.

In `ReadGuards` a version identifies a content; files have one length and one
directory; a write is atomic (its steps are in `Rewind`); what a command does to
files is an edit; system messages and tool definitions only narrow the two
limits of `Context`; that two queries are nearly the same is a constant relation;
arguments of searches are valid; stops, failures of the model and limits of the
loop are in `AgentRunner`.  How the user's words become a request is an input, as
it is in `Workflow`.

In `Workflow` a file's content is a number; the checks of a phase are those on a
file and on a tool's success, the two kinds whose evaluation depends on the log
and the disk; the evaluation in a thread is atomic; whether an answer to a
status question without any write is satisfied depends on wording and is a
choice.  A rewind names a step, as the page does (`web/app.js:729`); one to an
action that is in no step would keep every step.  After a rewind a kept step may
still name a call that was cut, which the model writes as 0.
`CompletedIsDelivered` speaks of the files as they were when the final text
came: an execution without phase checks does not look again (`runner` 342).

In `Resources` a process that ends gives its lock back, as the operating system
does; the program never forks.  The lock is tried, not waited for.  Where the
service was started without readable settings it holds no lease, and the first
save of a new topic (`webapp` 1640) and `execute()`'s report of an error (`webapp`
1657-1675) then happen outside any lease: the model follows who holds it, not who
writes.  Connections abandoned by a cancellation while connecting, or by a
provider that cannot be built (`cli.py` 246-250), are followed as "orphaned" until
the task's next run.  A service is started again in the same process only when
its topics have ended.

## 7. Not modelled

| component | why |
|---|---|
| polling page | `run_detail`'s tag is made of sizes and times of files, which the operating system decides; what the page does with the answer is presentation |
| command and project tools | processes of the operating system; their outcome is a tool's result in `AgentRunner`, their effect on files an edit in `ReadGuards` and `Workflow` |
| office and web tools | document formats and HTTP, without state of their own |
| model providers | request formats and the classification of errors; `AgentRunner` has success, a passing failure and a final one |
| settings, command line, renderer | parsing and output; what `cli._run` does in an execution is in `AgentRunner`, what it holds in `Resources` |

Parts left out of modelled components: failing writes of the run store (restores
that fail are modelled) and corrupt files; tools left out of the prompt only
(`runner` 241-255); the command line's restore but for its lease; browser operations but
for the time they hold the page; calls to MCP tools and their schemas; texts,
titles' content, reasoning and reports.

## 8. Plan

1. Done: `Ledger`, `AgentRunner`, `WebConsole`, `RunLifecycle`, types and safety
   proved; `Rewind` with its invariant and what follows from it proved.
2. Done: `Ownership`, `Resources` and the refinement between them, proved;
   `Policy`, `Context`, `ReadGuards` and `Workflow`, every property of their runs
   proved.
3. Done: what the console records, and its refinement of `RunLifecycle`, proved
   (`ConsoleLedger`); what a preview promises, for ledgers of any length
   (`RewindSafety`).
4. Left: liveness stays with TLC.  Of the code, the command line's restore, and
   failing writes of the run store, which would add outcomes to every save of
   `AgentRunner`.
