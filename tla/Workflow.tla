------------------------------ MODULE Workflow ------------------------------
(***************************************************************************)
(* How a task's phases and its verdict come about: the declared plan, the  *)
(* steps that calls are attached to, the review of a final text, and the   *)
(* completion and delivery checks it rests on, over follow-ups, rewinds,   *)
(* stops and failures, while the user edits the files.                     *)
(*                                                                         *)
(* A file's content is a number, 0 if there is no such file.  A call is    *)
(* one entry of the log, at the position that is its id; its `head` is     *)
(* the position of the first call of its message.  Whether a call is       *)
(* denied, skipped, run or fails is open here (see ReadGuards).            *)
(***************************************************************************)
EXTENDS Integers, Sequences, FiniteSets, FiniteSetsExt

CONSTANTS
    Files,      \* files of the workspace
    Plans,      \* lists of phases the model may declare
    Requests,   \* what a user's message asks for
    PlanLimit,  \* phases in a plan (12 in the code)
    MaxRounds,  \* max_iterations
    Tries,      \* bound: the tools tried for each call of a turn, by request
    Follows,    \* bound: the requests that may come after one
    MaxTurns,   \* bound: user's messages
    MaxClock    \* bound: contents given to files

\* Tools by what the checks tell apart: "look" lists, reads or searches local
\* files; "check" is check_files on one file; "test" a command that runs tests,
\* or a preview with assertions; "build" another command that verifies.
Tools == {"look", "write", "check", "test", "build", "fetch", "other"}
Verifying == {"check", "test", "build"}
PlanTools == {"declare_workflow_plan", "declare_workflow_step",
              "revise_workflow_plan"}
DiscussTools == {"look", "check", "fetch"}   \* offered to a discussion
OnFiles == {"write", "check"}

Modes == {"develop", "execute", "discuss", "status"}
Kinds == {"analysis", "general", "files"}    \* "files": wants calls of its own

Checks == [type : {"file"}, on : Files] \cup [type : {"tool"}, on : Tools]
IsItem(i) == /\ DOMAIN i = {"id", "kind", "checks"}
             /\ i.kind \in Kinds /\ i.checks \subseteq Checks
PlanItems == UNION {{p[n] : n \in DOMAIN p} : p \in Plans}
Ids == {i.id : i \in PlanItems}

ASSUME WorkflowAssumption ==
    /\ \A p \in Plans : p \in Seq(PlanItems)
    /\ \A i \in PlanItems : IsItem(i)
    /\ {"none", "reply"} \cap Ids = {}
    /\ Requests \subseteq [mode : Modes, continues : BOOLEAN, greets : BOOLEAN,
                           tests : BOOLEAN, reads : BOOLEAN, paths : SUBSET Files]
    /\ Requests # {}
    /\ Follows \in [Requests -> SUBSET Requests]
    /\ \A r \in Requests : Tries[r] \in Seq(SUBSET (Tools \cup PlanTools))
    /\ PlanLimit \in Nat \ {0} /\ MaxRounds \in Nat \ {0} /\ MaxClock \in Nat \ {0}

VARIABLES
    log,       \* run.messages: the user's messages, and calls with answers
    disk,      \* the content of each file
    clock,     \* the latest content given
    plan,      \* run.workflow_plan
    steps,     \* run.workflow_steps
    finished,  \* run.completed_plan_item_ids
    request,   \* what the latest message asks for (infer_contract)
    status,    \* run.status
    phase,     \* where the turn stands
    work       \* the turn's own state

vars == <<log, disk, clock, plan, steps, finished, request, status, phase, work>>

\* `newPlan` is review_new_plan; `drift` the written files found missing or
\* changed, `checked` the ids of the phases with checks and `passed` those whose
\* checks all passed, `draft` the files when the final text came.
NewWork == [head |-> 0, tool |-> "none", file |-> "none", newPlan |-> FALSE,
            reviewed |-> FALSE, drift |-> {}, checked |-> {}, passed |-> {},
            draft |-> [f \in Files |-> 0]]

Reply == [id |-> "reply", kind |-> "general", checks |-> {}]
\* The first step; no other one starts at 0.
Understand == [item |-> "none", kind |-> "analysis", status |-> "active",
               actions |-> {}, start |-> 0]
Blocked == {"failed", "denied", "cancelled"}

Entry(tool, file, outcome) ==
    [tool |-> tool, file |-> file, status |-> outcome, hash |-> 0,
     existed |-> FALSE, head |-> work.head]

LastOf(S) == IF S = {} THEN 0 ELSE Max(S)
Turn == LastOf({i \in DOMAIN log : log[i].tool = "user"})
ThisTurn == Turn + 1 .. Len(log)
OfTurn(s) == s.start > Turn
----------------------------------------------------------------------------
(* Steps.                                                                   *)

PlanIds == {plan[n].id : n \in DOMAIN plan}
Reached == {steps[k].item : k \in DOMAIN steps}
Unreached == PlanIds \ Reached
Active == LastOf({k \in DOMAIN steps : steps[k].status = "active"})

Outcomes(s) == {log[i].status : i \in s.actions \cap DOMAIN log}

\* Only a failure counts, not a refusal.
Faulty_Fruitless_Failures(s) == /\ "failed" \in Outcomes(s)
                                /\ "succeeded" \notin Outcomes(s)

\* Calls of the step were blocked, and none succeeded.
Fruitless(s) == Outcomes(s) \cap Blocked # {} /\ "succeeded" \notin Outcomes(s)

Settled(s) ==
    [s EXCEPT !.status =
        IF (s.kind = "files" /\ s.actions = {}) \/ Fruitless(s)
        THEN "needs_review" ELSE "completed"]

\* A step begun beside the active one.
Faulty_CompleteActive_Kept == steps

\* _complete_active_step.
CompleteActive == IF Active = 0 THEN steps
                  ELSE [steps EXCEPT ![Active] = Settled(steps[Active])]

\* The ends that set the active step aside, and leave no local state.
End(outcome) ==
    /\ steps' = IF Active = 0 THEN steps
                ELSE [steps EXCEPT ![Active].status = outcome]
    /\ status' = outcome
    /\ phase' = "idle" /\ work' = NewWork

\* _attach_action_to_step: to the active step, or to a step of its own.
Attached(id) ==
    IF Active # 0 /\ steps[Active].start # 0
    THEN [steps EXCEPT ![Active].actions = @ \cup {id}]
    ELSE Append(CompleteActive,
                [item |-> "none", kind |-> "general", status |-> "active",
                 actions |-> {id}, start |-> work.head])

\* _unworked_phase_titles and _unsuccessful_phase_titles.
Unworked(passed) ==
    {k \in DOMAIN steps : /\ steps[k].kind = "files"
                          /\ steps[k].status \in {"active", "needs_review"}
                          /\ steps[k].actions = {} /\ OfTurn(steps[k])
                          /\ steps[k].item \notin passed}

Unsuccessful(ss, passed) ==
    {k \in DOMAIN ss : /\ ss[k].status # "recovered" /\ OfTurn(ss[k])
                       /\ ss[k].item \notin passed
                       /\ \/ ss[k].status = "needs_review" /\ ss[k].actions # {}
                          \/ Fruitless(ss[k])}

\* _recover_exploratory_reads.
Recovered ==
    [k \in DOMAIN steps |->
        IF /\ steps[k].status \in {"needs_review", "failed"}
           /\ steps[k].actions # {} /\ OfTurn(steps[k])
           /\ \A i \in steps[k].actions : i \in ThisTurn /\ log[i].tool = "look"
        THEN [steps[k] EXCEPT !.status = "recovered"] ELSE steps[k]]
----------------------------------------------------------------------------
(* What the log and the files show.                                         *)

Succeeded(i, tools) == log[i].tool \in tools /\ log[i].status = "succeeded"
WritesIn(R) == {i \in R : Succeeded(i, {"write"})}
WritesOf(f, R) == {i \in WritesIn(R) : log[i].file = f}
WrittenIn(R) == {log[i].file : i \in WritesIn(R)}
AsWritten(f, R) == disk[f] = log[LastOf(WritesOf(f, R))].hash /\ disk[f] # 0

\* _missing_written_files and _changed_written_files.
Drift == {f \in WrittenIn(ThisTurn) : ~AsWritten(f, ThisTurn)}

\* evaluate_completion_checks, for one check.
Holds(c) ==
    IF c.type = "file"
    THEN /\ request.reads /\ c.on \in WrittenIn(ThisTurn)
         /\ AsWritten(c.on, ThisTurn)
    ELSE \E i \in ThisTurn : Succeeded(i, {c.on})

\* ... and the phases it looks at: not those an earlier turn has finished.
Audited ==
    LET current == {steps[k].item : k \in {k \in DOMAIN steps : OfTurn(steps[k])}}
        open == {steps[k].item : k \in {k \in DOMAIN steps :
                        steps[k].status \notin {"completed", "recovered"}}}
    IN  {n \in DOMAIN plan : /\ plan[n].checks # {}
                             /\ plan[n].id \in (Reached \ current) => plan[n].id \in open}

\* A check that counts although the file was written again after it.
Faulty_Verified_AnyTime(R) ==
    {i \in R : Succeeded(i, Verifying) /\ (log[i].tool = "check" =>
        /\ log[i].file \in WrittenIn(R) /\ AsWritten(log[i].file, R)
        /\ log[i].hash = disk[log[i].file])}

\* evaluate_delivery's checks that succeeded after the last write and the last
\* failed check; a static one must be of a delivered file as it is.
Verified(R) ==
    {i \in R : /\ Succeeded(i, Verifying)
               /\ \A j \in R : (\/ Succeeded(j, {"write"})
                                \/ log[j].tool \in Verifying /\ log[j].status = "failed")
                               => j < i
               /\ log[i].tool = "check" =>
                     /\ log[i].file \in WrittenIn(R) /\ AsWritten(log[i].file, R)
                     /\ log[i].hash = disk[log[i].file]}

\* evaluate_delivery over the calls in R: the workspace was inspected before
\* the first write unless only new files were written, the files are there as
\* written, and they were checked afterwards.
Delivered(R, paths, tests) ==
    LET first(f) == Min(WritesOf(f, R))
    IN  /\ WritesIn(R) # {}
        /\ \/ \E i \in R : Succeeded(i, {"look"}) /\ \A j \in WritesIn(R) : i < j
           \/ \A f \in WrittenIn(R) : ~log[first(f)].existed
        /\ request.reads
        /\ \A f \in WrittenIn(R) : AsWritten(f, R)
        /\ paths \subseteq WrittenIn(R)
        /\ Verified(R) # {}
        /\ tests => \E i \in Verified(R) : log[i].tool = "test"
----------------------------------------------------------------------------
(* The turns.                                                               *)

Init ==
    /\ log = <<>>
    /\ disk \in [Files -> {0, 1}]
    /\ clock = 1
    /\ plan = <<>> /\ steps = <<>> /\ finished = {}
    /\ request = CHOOSE r \in Requests : TRUE
    /\ status = "created"
    /\ phase = "idle"
    /\ work = NewWork

Rounds == {log[i].head : i \in ThisTurn}
Iterations == Cardinality(Rounds) + (IF work.reviewed THEN 1 ELSE 0)

\* continues_unfinished_plan.
Continues(p, ss, done, r) ==
    /\ r.continues
    /\ \E n \in DOMAIN p :
          p[n].id \notin done \cup {ss[k].item : k \in {k \in DOMAIN ss :
                                        ss[k].status \in {"completed", "recovered"}}}

\* The start of _run_loop, on what a follow-up or a rewind leaves.
Begin(r, l, p, ss, done) ==
    /\ log' = Append(l, [tool |-> "user", file |-> "none", status |-> "",
                         hash |-> 0, existed |-> FALSE, head |-> Len(l) + 1])
    /\ request' = r
    /\ status' = "running"
    /\ plan' = p /\ finished' = done
    /\ steps' = IF ss = <<>> THEN <<Understand>> ELSE ss
    /\ work' = [NewWork EXCEPT !.newPlan = p = <<>> \/ Continues(p, ss, done, r)]
    /\ phase' = IF r.mode = "status" THEN "status" ELSE "model"

SendMessage(r) ==
    /\ phase = "idle"
    /\ Cardinality({i \in DOMAIN log : log[i].tool = "user"}) < MaxTurns
    /\ Begin(r, log, plan, steps, finished)
    /\ UNCHANGED <<disk, clock>>

\* execute_run with the step to go back to: the log is cut at its message (at
\* the first answer, for the first step), the plan goes, and files get back
\* contents they had (which ones: see Rewind).  0 stands for a kept step's call
\* that is no longer in the log.
RewindTo(k, r) ==
    LET cut == IF steps[k].start = 0 THEN 2 ELSE steps[k].start
        kept == [n \in 1 .. k - 1 |->
                    [steps[n] EXCEPT !.actions = {IF i < cut THEN i ELSE 0 : i \in @}]]
    IN  /\ phase = "idle" /\ log # <<>>
        /\ Cardinality({i \in 1 .. cut - 1 : log[i].tool = "user"}) < MaxTurns
        /\ Begin(r, SubSeq(log, 1, cut - 1), <<>>, kept, {})
        /\ disk' \in [Files -> 0 .. clock]
        /\ \A f \in Files \ WrittenIn(cut .. Len(log)) : disk'[f] = disk[f]
        /\ UNCHANGED clock

\* status_summary, on the calls before the question.  Where nothing was written
\* and no files were planned, the wording of the earlier messages decides.
AnswerStatus ==
    LET before == 1 .. Turn - 1
        asked == {i \in before : log[i].tool = "user"}
        last == LastOf(WritesIn(before))
        from == LastOf({i \in asked : i < last})
    IN  /\ phase = "status"
        /\ \E failed \in BOOLEAN :
              LET review == IF WritesIn(before) = {}
                            THEN failed \/ \E n \in DOMAIN plan : plan[n].kind = "files"
                            ELSE ~Delivered(from + 1 .. Turn - 1, {}, FALSE)
              IN  status' = IF review THEN "needs_review" ELSE "completed"
        /\ phase' = "idle" /\ work' = NewWork
        /\ UNCHANGED <<log, disk, clock, plan, steps, finished, request>>

\* The model answers with calls.
StartRound ==
    /\ phase = "model"
    /\ phase' = "calls"
    /\ work' = [work EXCEPT !.head = Len(log) + 1]
    /\ UNCHANGED <<log, disk, clock, plan, steps, finished, request, status>>
----------------------------------------------------------------------------
(* The calls of a message.                                                  *)

MayCall == phase = "calls"
Answer(tool, outcome) == log' = Append(log, Entry(tool, "none", outcome))
PlanCall(tool) == MayCall /\ request.mode # "discuss"
                  /\ UNCHANGED <<disk, clock, request>>

\* A failed declaration counts, and the third ends the run.
DeclarePlan(p) ==
    LET tool == "declare_workflow_plan"
        valid == /\ Len(p) \in 1 .. PlanLimit
                 /\ \A m, n \in DOMAIN p : p[m].id = p[n].id => m = n
        failures == {i \in ThisTurn : log[i].tool = tool /\ log[i].status = "failed"}
        opening == steps # <<>> /\ steps[1].start = 0
    IN  /\ PlanCall(tool)
        /\ \/ /\ plan # <<>>
              /\ Answer(tool, "skipped")
              /\ UNCHANGED <<plan, steps, finished, status, phase, work>>
           \/ /\ plan = <<>> /\ valid
              /\ Answer(tool, "succeeded")
              /\ plan' = p /\ finished' = {}
              /\ steps' = IF opening THEN [steps EXCEPT ![1].status = "completed"]
                          ELSE steps
              /\ UNCHANGED <<status, phase, work>>
           \/ /\ plan = <<>> /\ ~valid
              /\ Answer(tool, "failed")
              /\ IF Cardinality(failures) < 2
                 THEN UNCHANGED <<steps, status, phase, work>> ELSE End("failed")
              /\ UNCHANGED <<plan, finished>>

\* Revision that starts from the future phases alone.
Faulty_Retained_None(p) == <<>>

\* The phases of p that are reached, in their order.
Retained(p) ==
    LET kept == {n \in DOMAIN p : p[n].id \in Reached}
        nth(m) == CHOOSE n \in kept : Cardinality(kept \cap 1 .. n) = m
    IN  [m \in 1 .. Cardinality(kept) |-> p[nth(m)]]

\* _plan_revision_without_new_result.
RevisedLast ==
    LET news == {i \in ThisTurn : /\ log[i].status = "succeeded"
                                  /\ log[i].tool \notin {"declare_workflow_plan",
                                                         "declare_workflow_step"}}
    IN  news # {} /\ log[Max(news)].tool = "revise_workflow_plan"

RevisePlan(future) ==
    LET tool == "revise_workflow_plan"
        kept == Retained(plan)
        next == kept \o future
        valid == /\ plan # <<>> /\ future # <<>> /\ Len(next) <= PlanLimit
                 /\ \A m \in DOMAIN next, n \in Len(kept) + 1 .. Len(next) :
                       next[m].id = next[n].id => m = n
                 /\ future # SelectSeq(plan, LAMBDA i : i.id \in Unreached)
    IN  /\ PlanCall(tool)
        /\ IF valid /\ ~RevisedLast
           THEN plan' = next /\ work' = [work EXCEPT !.newPlan = TRUE]
           ELSE UNCHANGED <<plan, work>>
        /\ Answer(tool, IF RevisedLast THEN "skipped"
                        ELSE IF valid THEN "succeeded" ELSE "failed")
        /\ UNCHANGED <<steps, finished, status, phase>>

\* _activate_workflow_step, with the id of a phase, or a phase of its own.
DeclareStep(id, kind) ==
    LET tool == "declare_workflow_step"
        planned == {plan[n] : n \in {n \in DOMAIN plan : plan[n].id = id}}
        begun == \E k \in DOMAIN steps : steps[k].item = id /\ OfTurn(steps[k])
        unknown == planned = {} /\ id # "none" /\ plan # <<>>
    IN  /\ PlanCall(tool)
        /\ \/ /\ unknown
              /\ Answer(tool, "failed")
              /\ UNCHANGED steps
           \/ /\ ~unknown /\ id # "none" /\ begun
              /\ Answer(tool, "skipped")
              /\ UNCHANGED steps
           \/ /\ ~unknown /\ (id # "none" => ~begun)
              /\ Answer(tool, "succeeded")
              /\ \E k \in {kind} \cup {i.kind : i \in planned} :
                    /\ planned # {} => k \in {i.kind : i \in planned}
                    /\ steps' = Append(CompleteActive,
                                   [item |-> id, kind |-> k, status |-> "active",
                                    actions |-> {}, start |-> work.head])
        /\ UNCHANGED <<plan, finished, status, phase, work>>

\* A call that a discussion was not offered.
RefuseInDiscussion(tool) ==
    /\ MayCall
    /\ request.mode = "discuss" /\ tool \notin DiscussTools
    /\ Answer(tool, "denied")
    /\ UNCHANGED <<disk, clock, plan, steps, finished, request, status, phase, work>>

\* Any other call is attached to a step; then it is denied or skipped, or runs.
\* What is skipped repeats a look, or would leave the machine in a turn that may
\* not: the browser and commands ("test", "build", "other") as well as pages.
Propose(tool, file) ==
    /\ MayCall
    /\ request.mode = "discuss" => tool \in DiscussTools
    /\ steps' = Attached(Len(log) + 1)
    /\ \/ /\ \E outcome \in {"denied", "skipped"} :
                /\ outcome = "skipped" => tool \notin OnFiles
                /\ log' = Append(log, Entry(tool, file, outcome))
          /\ UNCHANGED <<phase, work>>
       \/ /\ phase' = "tool"
          /\ work' = [work EXCEPT !.tool = tool, !.file = file]
          /\ UNCHANGED log
    /\ UNCHANGED <<disk, clock, plan, finished, request, status>>

\* What the running call leaves in the log.
Finish(e) ==
    /\ log' = Append(log, e)
    /\ work' = [work EXCEPT !.tool = "none", !.file = "none"]
    /\ phase' = "calls"
    /\ UNCHANGED <<plan, steps, finished, request, status>>

Current == Entry(work.tool, work.file, "succeeded")

WriteFile ==
    /\ phase = "tool" /\ work.tool = "write"
    /\ clock < MaxClock
    /\ clock' = clock + 1
    /\ disk' = [disk EXCEPT ![work.file] = clock + 1]
    /\ Finish([Current EXCEPT !.hash = clock + 1, !.existed = disk[work.file] # 0])

CheckFile ==
    /\ phase = "tool" /\ work.tool = "check"
    /\ disk[work.file] # 0
    /\ Finish([Current EXCEPT !.hash = disk[work.file]])
    /\ UNCHANGED <<disk, clock>>

RunOther ==
    /\ phase = "tool" /\ work.tool \notin OnFiles
    /\ Finish(Current)
    /\ UNCHANGED <<disk, clock>>

\* The tool fails, or the user declines.
FailCall(outcome) ==
    /\ phase = "tool"
    /\ Finish([Current EXCEPT !.status = outcome])
    /\ UNCHANGED <<disk, clock>>

\* The end of a message's calls: the third message in a row of which every call
\* was skipped or denied ends the turn for review, the last iteration fails it.
EndRound ==
    LET idle(h) == \A i \in ThisTurn : log[i].head = h =>
                                          log[i].status \in {"skipped", "denied"}
        idleSince == {h \in Rounds : \A g \in Rounds : g >= h => idle(g)}
    IN  /\ phase = "calls" /\ Len(log) >= work.head
        /\ \/ /\ Cardinality(idleSince) >= 3
              /\ End("needs_review")
           \/ /\ Cardinality(idleSince) < 3 /\ Iterations < MaxRounds
              /\ phase' = "model"
              /\ UNCHANGED <<status, steps, work>>
           \/ /\ Cardinality(idleSince) < 3 /\ Iterations >= MaxRounds
              /\ End("failed")
        /\ UNCHANGED <<log, disk, clock, plan, finished, request>>
----------------------------------------------------------------------------
(* The end of a turn.                                                       *)

\* The model answers with a text; a greeting becomes a plan of its own.  What
\* was written is compared with the files at once.
DraftAnswer ==
    LET greeting == plan = <<>> /\ request.greets
    IN  /\ phase = "model"
        /\ plan' = IF greeting THEN <<Reply>> ELSE plan
        /\ steps' = IF greeting THEN [steps EXCEPT ![Len(steps)].item = "reply"]
                    ELSE steps
        /\ work' = [work EXCEPT !.drift = Drift, !.draft = disk]
        /\ phase' = "draft"
        /\ UNCHANGED <<log, disk, clock, finished, request, status>>

\* evaluate_completion_checks, in a thread.
CheckPlan ==
    LET audited == IF work.newPlan THEN Audited ELSE {}
        good == {n \in audited : \A c \in plan[n].checks : Holds(c)}
    IN  /\ phase = "draft"
        /\ work' = [work EXCEPT !.checked = {plan[n].id : n \in audited},
                                !.passed = {plan[n].id : n \in good}]
        /\ phase' = "checked"
        /\ UNCHANGED <<log, disk, clock, plan, steps, finished, request, status>>

\* evaluate_delivery, in a thread.
DeliveryPassed == /\ request.mode = "develop"
                  /\ work.checked \subseteq work.passed
                  /\ Delivered(ThisTurn, request.paths, request.tests)

\* What stands against the draft; the last of it asks for no second try.
Unmet == /\ request.mode # "discuss"
         /\ \/ work.drift # {}
            \/ ~(work.checked \subseteq work.passed)
            \/ request.mode = "execute" /\ ~(request.paths \subseteq WrittenIn(ThisTurn))
            \/ request.mode = "develop" /\ ~DeliveryPassed
            \/ ~DeliveryPassed /\ work.newPlan /\ Unreached # {}
            \/ ~DeliveryPassed /\ Unworked(work.passed) # {}

\* The verdict, with the steps as they are then.
Verdict ==
    LET ss == IF DeliveryPassed THEN Recovered ELSE steps
        fruitless == /\ request.mode # "discuss"
                     /\ Unsuccessful(ss, work.passed) # {}
        retry == Unmet /\ ~work.reviewed /\ Iterations + 1 < MaxRounds
        ended == IF Active = 0 THEN ss ELSE [ss EXCEPT ![Active] = Settled(ss[Active])]
        clean == ~Unmet /\ ~fruitless
    IN  /\ phase = "checked"
        /\ \/ /\ retry
              /\ steps' = ss
              /\ work' = [work EXCEPT !.reviewed = TRUE]
              /\ phase' = "model"
              /\ UNCHANGED <<finished, status>>
           \/ /\ ~retry
              /\ steps' = [k \in DOMAIN ss |->
                              IF ss[k].item \notin work.checked THEN ended[k]
                              ELSE [ended[k] EXCEPT !.status =
                                       IF ss[k].item \in work.passed
                                       THEN "completed" ELSE "needs_review"]]
              /\ finished' = IF clean /\ request.mode = "develop" THEN PlanIds
                             ELSE finished
              /\ status' = IF clean THEN "completed" ELSE "needs_review"
              /\ phase' = "idle"
              /\ work' = [NewWork EXCEPT !.draft = work.draft]
        /\ UNCHANGED <<log, disk, clock, plan, request>>

\* The request does not fit (ContextBudgetError).
OverBudget ==
    /\ phase = "model"
    /\ End("needs_review")
    /\ UNCHANGED <<log, disk, clock, plan, finished, request>>

\* The model cannot be reached, or gives no answer.
FailModel ==
    /\ phase = "model"
    /\ End("failed")
    /\ UNCHANGED <<log, disk, clock, plan, finished, request>>

\* A call over the limit on calls: it is attached, but does not run.
FailLimit(tool, file) ==
    /\ MayCall
    /\ request.mode = "discuss" => tool \in DiscussTools
    /\ log' = Append(log, Entry(tool, file, "failed"))
    /\ LET ss == Attached(Len(log) + 1)
           open == LastOf({k \in DOMAIN ss : ss[k].status = "active"})
       IN  steps' = [ss EXCEPT ![open].status = "failed"]
    /\ status' = "failed" /\ phase' = "idle" /\ work' = NewWork
    /\ UNCHANGED <<disk, clock, plan, finished, request>>

\* The user stops the run.  The call at work is recorded as cancelled, whatever
\* it did; the step it belongs to stays active.
Stop ==
    LET running == phase = "tool"
    IN  /\ phase # "idle"
        /\ log' = IF running THEN Append(log, [Current EXCEPT !.status = "cancelled"])
                  ELSE log
        /\ \/ UNCHANGED <<disk, clock>>
           \/ /\ running /\ work.tool = "write" /\ clock < MaxClock
              /\ clock' = clock + 1
              /\ disk' = [disk EXCEPT ![work.file] = clock + 1]
        /\ status' = "cancelled" /\ phase' = "idle" /\ work' = NewWork
        /\ UNCHANGED <<plan, steps, finished, request>>

\* The user, or a command, changes, creates or deletes a file meanwhile.
EditFile(f, content) ==
    /\ clock < MaxClock
    /\ content # disk[f]
    /\ clock' = clock + 1
    /\ disk' = [disk EXCEPT ![f] = content]
    /\ UNCHANGED <<log, plan, steps, finished, request, status, phase, work>>

Nth == Len(log) - Turn + 1   \* the call of this turn that would come next
Tried == IF Nth \in DOMAIN Tries[request] THEN Tries[request][Nth] ELSE {}

Targets(tool) == IF tool \in OnFiles THEN Files ELSE {"none"}

PlanStep ==
    \E tool \in PlanTools \cap Tried :
        \/ tool = "declare_workflow_plan" /\ \E p \in Plans : DeclarePlan(p)
        \/ tool = "revise_workflow_plan" /\ \E p \in Plans : RevisePlan(p)
        \/ /\ tool = "declare_workflow_step"
           /\ \E id \in Ids \cup {"none"}, k \in {"general", "files"} : DeclareStep(id, k)

CallStep ==
    \/ \E tool \in Tried : RefuseInDiscussion(tool)
    \/ \E tool \in Tools \cap Tried :
          \E f \in Targets(tool) : Propose(tool, f) \/ FailLimit(tool, f)
    \/ WriteFile \/ CheckFile \/ RunOther
    \/ FailCall("failed") \/ FailCall("denied")

Asked == IF log = <<>> THEN Requests ELSE Follows[request]

\* Bound: files that a call has named are edited, in the phases in which files
\* are looked at next.
Named == IF phase \in {"idle", "calls"} THEN {}
         ELSE Files \cap ({log[i].file : i \in DOMAIN log} \cup {work.file})

Next ==
    \/ \E r \in Asked : SendMessage(r)
    \/ \E k \in DOMAIN steps, r \in Asked : RewindTo(k, r)
    \/ AnswerStatus
    \/ StartRound \/ PlanStep \/ CallStep \/ EndRound
    \/ DraftAnswer \/ CheckPlan \/ Verdict
    \/ OverBudget \/ FailModel \/ Stop
    \/ \E f \in Named : EditFile(f, 0) \/ EditFile(f, clock + 1)

Spec == Init /\ [][Next]_vars
----------------------------------------------------------------------------
(* Correctness.                                                             *)

TypeOK ==
    /\ \A i \in DOMAIN log : /\ log[i].head \in 1 .. i
                             /\ log[i].hash \in 0 .. clock
    /\ disk \in [Files -> 0 .. clock]
    /\ clock \in 1 .. MaxClock
    /\ \A n \in DOMAIN plan : plan[n] \in PlanItems \cup {Reply}
    /\ \A k \in DOMAIN steps :
          /\ steps[k].item \in Ids \cup {"none", "reply"}
          /\ steps[k].kind \in Kinds
          /\ steps[k].status \in {"active", "completed", "needs_review", "failed",
                                  "recovered"}
          /\ steps[k].actions \subseteq 0 .. Len(log) + 1
          /\ steps[k].start \in 0 .. Len(log) + 1
    /\ finished \subseteq Ids \cup {"reply"}
    /\ request \in Requests
    /\ status \in {"created", "running", "completed", "needs_review", "failed",
                   "cancelled"}
    /\ phase \in {"idle", "status", "model", "calls", "tool", "draft", "checked"}
    /\ work.passed \subseteq work.checked

\* A new call can only go to the last step begun, and no step is left open by a
\* turn that did its work to the end (whichever way a turn ends: verdict,
\* review, budget, failure; a stop leaves it open).
WorkflowInv ==
    /\ TypeOK
    /\ \A k \in DOMAIN steps : steps[k].status = "active" =>
          /\ k = Len(steps)
          /\ \/ status \in {"running", "cancelled"}
             \/ request.mode = "status"

\* What a step has reached stays in the plan for the whole of a turn.
ReachedItemsAreKept ==
    [][\/ phase = "idle"
       \/ \A n \in DOMAIN plan : plan[n].id \in Reached =>
             \E m \in DOMAIN plan' : plan'[m] = plan[n]]_vars

Concluded == /\ status = "completed" /\ request.mode \in {"develop", "execute"}

\* A completed task has the files it wrote as they were written, when the final
\* text came; a development has some, and a check that succeeded after all of
\* its writes and failed checks, of what was written last if it is of a file.
CompletedIsDelivered ==
    Concluded =>
        LET last(f) == Max({i \in ThisTurn : /\ log[i].tool = "write"
                                             /\ log[i].status = "succeeded"
                                             /\ log[i].file = f})
            written == {log[i].file : i \in {i \in ThisTurn :
                            log[i].tool = "write" /\ log[i].status = "succeeded"}}
        IN  /\ \A f \in written : work.draft[f] = log[last(f)].hash
            /\ request.mode = "develop" =>
                  /\ written # {}
                  /\ \E v \in ThisTurn :
                        /\ log[v].tool \in Verifying /\ log[v].status = "succeeded"
                        /\ \A f \in written : last(f) < v
                        /\ \A j \in ThisTurn : (/\ log[j].tool \in Verifying
                                                /\ log[j].status = "failed") => j < v
                        /\ log[v].tool = "check" => log[v].hash = log[last(log[v].file)].hash

\* A task of which calls failed or were refused is completed only if some call
\* succeeded, in any grouping of the calls into steps (but for a step that an
\* earlier turn's stop left open: its calls are not judged).
SuccessIsNotInvented ==
    LET own == {i \in ThisTurn : log[i].tool \in Tools}
    IN  /\ Concluded
        /\ \E i \in own : log[i].status \in {"failed", "denied"}
        /\ \A k \in DOMAIN steps : steps[k].actions \cap own # {} => OfTurn(steps[k])
        => \E i \in own : log[i].status = "succeeded"
=============================================================================
