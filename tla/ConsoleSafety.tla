---------------------------- MODULE ConsoleSafety ----------------------------
(***************************************************************************)
(* Safety of WebConsole, for every value of its constants: who may write   *)
(* the topic (LifeInv), and what may run without consent (ConsentInv).     *)
(***************************************************************************)
EXTENDS ConsoleTypes

----------------------------------------------------------------------------
(* The execution.                                                           *)

\* The steps that have nothing to do with a request for approval.
Quiet ==
    \/ Begin \/ InitFails \/ StartLoop \/ AnswerInquiry
    \/ BuildContext \/ NoTurn \/ OverBudget \/ ReportOverBudget
    \/ ModelRetries \/ ModelFails \/ ModelAnswers \/ ReviewAgain
    \/ \E as \in Proposals : ModelProposes(as)
    \/ AcceptAnswer \/ Deliver
    \/ TakeEffect \/ ToolSucceeds \/ ToolFails \/ SaveResult \/ Announce
    \/ NextRound \/ StallOut \/ ReportStall
    \/ Unwind \/ CloseServers \/ RecordFailure

QuietCall(a) ==
    \/ RefuseUnoffered(a) \/ RefuseCall(a) \/ SkipCall(a)
    \/ PlanCall(a) \/ InvalidPlan(a)
    \/ GiveUpPlanning(a) \/ ReachToolLimit(a) \/ RunCall(a)

\* Most steps of the coroutine stay inside its life: they neither begin nor
\* end it nor touch the approval request (everything in AgentRunner._run_loop
\* that is not the gate or a cancellation).
LEMMA QuietSteps ==
    ASSUME Quiet \/ \E a \in Actions : QuietCall(a)
    PROVE  pc \notin Resting \cup {"approve"} /\ pending' = pending
<1> USE DEF Resting, locals, tallies, records
<1>1. CASE Begin
  BY <1>1 DEF Begin
<1>2. CASE InitFails
  BY <1>2 DEF InitFails
<1>3. CASE StartLoop
  BY <1>3 DEF StartLoop
<1>4. CASE AnswerInquiry
  BY <1>4 DEF AnswerInquiry
<1>5. CASE BuildContext
  BY <1>5 DEF BuildContext
<1>6. CASE NoTurn
  BY <1>6 DEF NoTurn, Raise
<1>7. CASE OverBudget
  BY <1>7 DEF OverBudget
<1>8. CASE ReportOverBudget
  BY <1>8 DEF ReportOverBudget
<1>9. CASE ModelRetries
  BY <1>9 DEF ModelRetries
<1>10. CASE ModelFails
  BY <1>10 DEF ModelFails, Raise
<1>11. CASE ModelAnswers
  BY <1>11 DEF ModelAnswers
<1>12. CASE ReviewAgain
  BY <1>12 DEF ReviewAgain
<1>13. CASE AcceptAnswer
  BY <1>13 DEF AcceptAnswer
<1>14. CASE Deliver
  BY <1>14 DEF Deliver
<1>15. CASE TakeEffect
  BY <1>15 DEF TakeEffect
<1>16. CASE ToolSucceeds
  BY <1>16 DEF ToolSucceeds
<1>17. CASE ToolFails
  BY <1>17 DEF ToolFails
<1>18. CASE SaveResult
  BY <1>18 DEF SaveResult
<1>19. CASE Announce
  BY <1>19 DEF Announce
<1>20. CASE NextRound
  BY <1>20 DEF NextRound
<1>21. CASE StallOut
  BY <1>21 DEF StallOut
<1>22. CASE ReportStall
  BY <1>22 DEF ReportStall
<1>23. CASE Unwind
  BY <1>23 DEF Unwind
<1>24. CASE CloseServers
  BY <1>24 DEF CloseServers
<1>25. CASE RecordFailure
  BY <1>25 DEF RecordFailure
<1>26. CASE \E as \in Proposals : ModelProposes(as)
  BY <1>26 DEF ModelProposes
<1>27. CASE \E a \in Actions : RefuseCall(a)
  BY <1>27 DEF RefuseCall, AtCall, AnswerUnrun
<1>28. CASE \E a \in Actions : SkipCall(a)
  BY <1>28 DEF SkipCall, AtCall, AnswerUnrun
<1>29. CASE \E a \in Actions : PlanCall(a)
  BY <1>29 DEF PlanCall, AtCall
<1>30. CASE \E a \in Actions : InvalidPlan(a)
  BY <1>30 DEF InvalidPlan, AtCall
<1>31. CASE \E a \in Actions : GiveUpPlanning(a)
  BY <1>31 DEF GiveUpPlanning, AtCall, Raise
<1>32. CASE \E a \in Actions : ReachToolLimit(a)
  BY <1>32 DEF ReachToolLimit, AtCall, Raise
<1>33. CASE \E a \in Actions : RunCall(a)
  BY <1>33 DEF RunCall, AtCall, StartTool
<1>34. CASE \E a \in Actions : RefuseUnoffered(a)
  BY <1>34 DEF RefuseUnoffered, AtCall
<1> QED
  BY <1>1, <1>2, <1>3, <1>4, <1>5, <1>6, <1>7, <1>8, <1>9, <1>10, <1>11, <1>12,
      <1>13, <1>14, <1>15, <1>16, <1>17, <1>18, <1>19, <1>20, <1>21, <1>22,
      <1>23, <1>24, <1>25, <1>26, <1>27, <1>28, <1>29, <1>30, <1>31, <1>32,
      <1>33, <1>34 DEF Quiet, QuietCall

\* A step of the coroutine is quiet, or it is one of those that touch its life
\* or its approval request.
LEMMA StepKinds ==
    ASSUME TaskStep
    PROVE  \/ Quiet \/ \E a \in Actions : QuietCall(a)
           \/ DeliverCancel \/ Approved \/ Declined
           \/ \E a \in Actions : AskApproval(a)
BY DEF TaskStep, CallStep, Quiet, QuietCall

\* No step of the coroutine breaks the rules of its life: it stays registered
\* and only the waiting gate has a request open (WebApprovalGate's finally).
LEMMA TaskLife ==
    ASSUME TypeInv, LifeInv, TaskStep, UNCHANGED webVars
    PROVE  LifeInv'
<1> USE DEF Resting
<1>1. pc \notin Resting
  BY StepKinds, QuietSteps DEF DeliverCancel, Approved, Declined, AskApproval,
      AtCall
<1>2. turn > 0 /\ registered = turn /\ ~deleted
  BY <1>1 DEF LifeInv, LiveIsRegistered, TaskDone, TypeInv, TypeOK,
      TypeOfConsole
<1>3. LiveIsRegistered' /\ turn' > 0 /\ ~deleted'
  BY <1>2 DEF webVars, LiveIsRegistered
<1>4. PendingIsAwaited'
  <2>1. CASE Quiet \/ \E a \in Actions : QuietCall(a)
    <3>1. pending.call = NoCall /\ pending' = pending
      BY <2>1, QuietSteps DEF LifeInv, PendingIsAwaited
    <3> QED BY <3>1 DEF PendingIsAwaited
  <2>2. CASE DeliverCancel
    BY <2>2
    DEF DeliverCancel, CancelInside, CancelOutside, LifeInv, PendingIsAwaited,
        NoPending, NoCall
  <2>3. CASE Approved \/ Declined
    BY <2>3 DEF Approved, Declined, PendingIsAwaited, NoPending, NoCall
  <2>4. ASSUME NEW a \in Actions, AskApproval(a) PROVE PendingIsAwaited'
    <3>1. run' = WithStatus(run, "waiting_approval") /\ run \in Runs
      BY <2>4 DEF AskApproval, TypeInv, TypeOK, TypeOfRuns
    <3>2. run'.status = "waiting_approval"
      BY <3>1 DEF WithStatus, Runs
    <3> QED BY <2>4, <3>2 DEF AskApproval, PendingIsAwaited
  <2> QED BY <2>1, <2>2, <2>3, <2>4, StepKinds
<1> QED BY <1>3, <1>4 DEF LifeInv

----------------------------------------------------------------------------
(* The handlers.                                                            *)

\* Without a live task the coroutine is at rest: what start_run and
\* delete_run look up in _active_tasks is the truth.
LEMMA NotLiveIsAtRest ==
    ASSUME TypeInv, LifeInv
    PROVE  /\ ~Live \/ turn = 0 => pc \in Resting
           /\ pc \in Resting => pending.call = NoCall
<1>1. turn \in Nat /\ registered \in Nat
  BY ConsoleAssumption DEF TypeInv, TypeOK, TypeOfConsole
<1> QED
  BY <1>1 DEF LifeInv, LiveIsRegistered, Live, TaskDone, Resting,
              PendingIsAwaited

\* Nor does a handler: start_run and delete_run act only when no task is live,
\* release_run removes only its own entry.
LEMMA HandlerLife ==
    ASSUME TypeInv, LifeInv, ConsoleStep
    PROVE  LifeInv'
<1> USE NotLiveIsAtRest
    DEF LifeInv, LiveIsRegistered, PendingIsAwaited, TaskDone, Resting,
        Present,
        runnerVars, webVars, locals, tallies, records
<1>t. /\ turn \in Nat /\ registered \in Nat /\ pc \in Places
      /\ run \in Runs /\ saved \in Runs
  BY ConsoleAssumption DEF TypeInv, TypeOK, TypeOfConsole, TypeOfTask,
      TypeOfRuns
<1>1. CASE StartTopic
  BY <1>t, <1>1 DEF StartTopic, Launch, NoPending, NoCall, NewRun, Runs,
      WithStatus, OpenStatus
<1>2. CASE FollowUp
  BY <1>t, <1>2 DEF FollowUp, Launch, NoPending, NoCall, NewRun, Runs,
      WithStatus, OpenStatus
<1>3. ASSUME NEW t \in Turns, Release(t) PROVE LifeInv'
  BY <1>t, <1>3 DEF Release, NoPending, NoCall, NewRun, Runs, WithStatus,
      OpenStatus
<1>4. ASSUME NEW s \in Stoppers, RequestStop(s) PROVE LifeInv'
  BY <1>t, <1>4 DEF RequestStop, NoPending, NoCall, NewRun, Runs, WithStatus,
      OpenStatus
<1>5. ASSUME NEW s \in Stoppers, StopAbandoned(s) PROVE LifeInv'
  BY <1>t, <1>5 DEF StopAbandoned, NoPending, NoCall, NewRun, Runs, WithStatus,
      OpenStatus
<1>6. ASSUME NEW s \in Stoppers, FinishStop(s) PROVE LifeInv'
  BY <1>t, <1>6 DEF FinishStop, NoPending, NoCall, NewRun, Runs, WithStatus,
      OpenStatus
<1>7. ASSUME NEW a \in Actions, DecideApproval(a) PROVE LifeInv'
  BY <1>t, <1>7 DEF DecideApproval, NoPending, NoCall, NewRun, Runs,
      WithStatus, OpenStatus
<1>8. ASSUME NEW t \in Titles, Rename(t) PROVE LifeInv'
  BY <1>t, <1>8 DEF Rename, NoPending, NoCall, NewRun, Runs, WithStatus,
      OpenStatus
<1>9. CASE Delete
  BY <1>t, <1>9 DEF Delete, NoPending, NoCall, NewRun, Runs, WithStatus,
      OpenStatus
<1>10. CASE Crash
  BY <1>t, <1>10 DEF Crash, Forget, NoPending, NoCall, NewRun, Runs,
      WithStatus, OpenStatus
<1>11. CASE Shutdown
  BY <1>t, <1>11 DEF Shutdown, NoPending, NoCall, NewRun, Runs, WithStatus,
      OpenStatus
<1>12. CASE Leave
  BY <1>t, <1>12 DEF Leave, Forget, NoPending, NoCall, NewRun, Runs,
      WithStatus, OpenStatus
<1>13. CASE Recover
  BY <1>t, <1>13 DEF Recover, NoPending, NoCall, NewRun, Runs, WithStatus,
      OpenStatus
<1>14. CASE StartUnreconciled
  BY <1>t, <1>14 DEF StartUnreconciled, NoPending, NoCall, NewRun, Runs,
      WithStatus, OpenStatus
<1> QED
  BY <1>1, <1>2, <1>3, <1>4, <1>5, <1>6, <1>7, <1>8, <1>9, <1>10, <1>11, <1>12,
      <1>13, <1>14 DEF ConsoleStep

----------------------------------------------------------------------------
(* Consent.                                                                 *)

\* Only the answer "reused" to a call itself can make a ledger reuse it.
LEMMA LedgerReuse ==
    ASSUME NEW l \in Ledgers, NothingReused(l),
           NEW as \in SUBSET Actions, NEW a, NEW o \in Outcomes
    PROVE  /\ NothingReused(Propose(l, as))
           /\ NothingReused(Say(l))
           /\ NothingReused(Repair(l))
           /\ o # "reused" => NothingReused(RecordUnfinished(l, o))
           /\ o # "reused" \/ a \notin NeedsApproval =>
                 NothingReused(Answer(l, a, o))
<1> USE RunnerAssumption DEF NothingReused, Ledgers
<1>1. NothingReused(Propose(l, as))
  BY DEF Propose
<1>2. NothingReused(Say(l))
  BY DEF Say
<1>3. NothingReused(Repair(l))
  BY DEF Repair
<1>4. o # "reused" => NothingReused(RecordUnfinished(l, o))
  BY DEF RecordUnfinished
<1>5. o # "reused" \/ a \notin NeedsApproval => NothingReused(Answer(l, a, o))
  BY DEF Answer
<1> QED BY <1>1, <1>2, <1>3, <1>4, <1>5

\* A run whose ledger reuses nothing without consent.
Honest(r) == r \in Runs /\ NothingReused(r.ledger)

\* An answer other than "reused" keeps a run honest, and so does "reused" for
\* a call that needs no consent.
LEMMA HonestAnswer ==
    ASSUME NEW r, Honest(r), NEW a, NEW o \in Outcomes,
           o # "reused" \/ a \notin NeedsApproval
    PROVE  Honest(WithLedger(r, Answer(r.ledger, a, o)))
<1>1. r \in Runs /\ r.ledger \in Ledgers /\ NothingReused(r.ledger)
  BY RunTypes DEF Honest
<1>2. Answer(r.ledger, a, o) \in Ledgers
  BY <1>1, LedgerTypes
<1>3. NothingReused(Answer(r.ledger, a, o))
  BY <1>1, LedgerReuse
<1> QED BY <1>1, <1>2, <1>3 DEF Honest, WithLedger, Runs

\* What the messages the code appends, apart from answers, do to an honest
\* run.
LEMMA HonestRuns ==
    ASSUME NEW r, Honest(r)
    PROVE  /\ \A s \in RunStatus : Honest(WithStatus(r, s))
           /\ \A t \in Titles : Honest([r EXCEPT !.title = t])
           /\ Honest(WithLedger(r, Say(r.ledger)))
           /\ \A as \in SUBSET Actions :
                 Honest(WithLedger(r, Propose(r.ledger, as)))
           /\ \A o \in Outcomes : o # "reused" =>
                 Honest(WithLedger(r, RecordUnfinished(r.ledger, o)))
           /\ \A s \in RunStatus :
                 /\ Honest([r EXCEPT !.status = s, !.ledger = Say(@)])
                 /\ Honest([r EXCEPT !.status = s, !.ledger = Repair(@)])
                 /\ \A a : Honest([r EXCEPT !.status = s,
                                         !.ledger = Answer(@, a, "denied")])
<1> USE DEF Honest
<1>1. r.ledger \in Ledgers
  BY RunTypes
<1>2. \A s \in RunStatus : Honest(WithStatus(r, s))
  BY DEF WithStatus, Runs
<1>3. \A t \in Titles : Honest([r EXCEPT !.title = t])
  BY DEF Runs
<1>4. ASSUME NEW l \in Ledgers, NothingReused(l)
      PROVE  /\ Honest(WithLedger(r, l))
             /\ \A s \in RunStatus :
                   Honest([r EXCEPT !.status = s, !.ledger = l])
  BY <1>4 DEF WithLedger, Runs
<1>5. Honest(WithLedger(r, Say(r.ledger)))
  BY <1>1, <1>4, LedgerTypes, LedgerReuse DEF Outcomes
<1>6. ASSUME NEW as \in SUBSET Actions
      PROVE  Honest(WithLedger(r, Propose(r.ledger, as)))
  BY <1>1, <1>4, LedgerTypes, LedgerReuse DEF Outcomes
<1>7. ASSUME NEW o \in Outcomes, o # "reused"
      PROVE  Honest(WithLedger(r, RecordUnfinished(r.ledger, o)))
  BY <1>1, <1>4, <1>7, LedgerTypes, LedgerReuse
<1>8. ASSUME NEW s \in RunStatus, NEW a
      PROVE  /\ Honest([r EXCEPT !.status = s, !.ledger = Say(@)])
             /\ Honest([r EXCEPT !.status = s, !.ledger = Repair(@)])
             /\ Honest([r EXCEPT !.status = s,
                                 !.ledger = Answer(@, a, "denied")])
  <2>1. /\ Say(r.ledger) \in Ledgers /\ NothingReused(Say(r.ledger))
        /\ Repair(r.ledger) \in Ledgers /\ NothingReused(Repair(r.ledger))
        /\ Answer(r.ledger, a, "denied") \in Ledgers
        /\ NothingReused(Answer(r.ledger, a, "denied"))
    BY <1>1, LedgerTypes, LedgerReuse DEF Outcomes
  <2> QED BY <1>4, <2>1
<1> QED
  BY <1>2, <1>3, <1>5, <1>6, <1>7, <1>8

\* What a step of the execution does to the ledgers it holds and saves.
LEMMA TaskReuse ==
    ASSUME Honest(run), Honest(saved), TaskStep
    PROVE  Honest(run') /\ Honest(saved')
<1> DEFINE Kept == Honest(run') /\ Honest(saved')
           Closed(o) == WithLedger(run, RecordUnfinished(run.ledger, o))
           Answered(a, o) == WithLedger(run, Answer(run.ledger, a, o))
<1> USE DEF OpenStatus
<1>s. \A s \in RunStatus : Honest(WithStatus(run, s))
  BY HonestRuns
<1>l. Honest(WithLedger(run, Say(run.ledger)))
  BY HonestRuns
<1>c. \A o \in {"failed", "cancelled"} :
         Honest(Closed(o)) /\ Honest(WithStatus(Closed(o), o))
  <2>1. \A o \in {"failed", "cancelled"} : Honest(Closed(o))
    BY HonestRuns DEF Outcomes
  <2> QED BY <2>1, HonestRuns DEF RunStatus, Verdicts
<1>a. ASSUME NEW a, NEW o \in Outcomes \ {"reused"}
      PROVE  Honest(Answered(a, o))
  BY HonestAnswer
<1>r. Raise => Kept
  BY <1>c DEF Raise
<1>1. ASSUME DeliverCancel PROVE Kept
  BY <1>1, <1>c DEF DeliverCancel, CancelInside, CancelOutside
<1>2. ASSUME Begin PROVE Kept
  BY <1>2 DEF Begin
<1>3. ASSUME InitFails PROVE Kept
  BY <1>3 DEF InitFails
<1>4. ASSUME StartLoop PROVE Kept
  BY <1>4, <1>s DEF StartLoop, RunStatus
<1>5. ASSUME AnswerInquiry PROVE Kept
  <2>1. PICK verdict \in {"completed", "needs_review"} :
           /\ run' = [run EXCEPT !.status = verdict, !.ledger = Say(@)]
           /\ saved' = run'
    BY <1>5 DEF AnswerInquiry
  <2> QED BY <2>1, HonestRuns DEF RunStatus, Verdicts
<1>6. ASSUME BuildContext PROVE Kept
  BY <1>6 DEF BuildContext
<1>7. ASSUME NoTurn PROVE Kept
  BY <1>7, <1>r DEF NoTurn
<1>8. ASSUME OverBudget PROVE Kept
  BY <1>8, <1>s DEF OverBudget, RunStatus, Verdicts
<1>9. ASSUME ReportOverBudget PROVE Kept
  BY <1>9, <1>l DEF ReportOverBudget
<1>10. ASSUME ModelRetries PROVE Kept
  BY <1>10 DEF ModelRetries
<1>11. ASSUME ModelFails PROVE Kept
  BY <1>11, <1>r DEF ModelFails
<1>12. ASSUME ModelAnswers PROVE Kept
  BY <1>12 DEF ModelAnswers
<1>13. ASSUME ReviewAgain PROVE Kept
  BY <1>13 DEF ReviewAgain
<1>14. ASSUME AcceptAnswer PROVE Kept
  BY <1>14, <1>l DEF AcceptAnswer
<1>15. ASSUME Deliver PROVE Kept
  BY <1>15, <1>s DEF Deliver, RunStatus, Verdicts
<1>16. ASSUME Approved PROVE Kept
  BY <1>16, <1>s DEF Approved, StartTool, RunStatus
<1>17. ASSUME Declined PROVE Kept
  BY <1>17, HonestRuns DEF Declined, RunStatus
<1>18. ASSUME TakeEffect PROVE Kept
  BY <1>18 DEF TakeEffect
<1>19. ASSUME ToolSucceeds PROVE Kept
  BY <1>19, <1>a DEF ToolSucceeds, Outcomes
<1>20. ASSUME ToolFails PROVE Kept
  BY <1>20, <1>a DEF ToolFails, Outcomes
<1>21. ASSUME SaveResult PROVE Kept
  BY <1>21 DEF SaveResult
<1>22. ASSUME Announce PROVE Kept
  BY <1>22 DEF Announce
<1>23. ASSUME NextRound PROVE Kept
  BY <1>23 DEF NextRound
<1>24. ASSUME StallOut PROVE Kept
  BY <1>24, <1>s DEF StallOut, RunStatus, Verdicts
<1>25. ASSUME ReportStall PROVE Kept
  BY <1>25, <1>l DEF ReportStall
<1>26. ASSUME Unwind PROVE Kept
  BY <1>26 DEF Unwind
<1>27. ASSUME CloseServers PROVE Kept
  BY <1>27 DEF CloseServers
<1>28. ASSUME RecordFailure PROVE Kept
  BY <1>28, HonestRuns DEF RecordFailure, RunStatus, Verdicts
<1>29. ASSUME NEW as \in Proposals, ModelProposes(as) PROVE Kept
  <2>1. Honest(WithLedger(run, Propose(run.ledger, as)))
    BY HonestRuns DEF Proposals, Absent
  <2> QED BY <1>29, <2>1 DEF ModelProposes
<1>30. ASSUME NEW a \in Actions, RefuseCall(a) PROVE Kept
  BY <1>30, <1>a DEF RefuseCall, AnswerUnrun, Outcomes
<1>31. ASSUME NEW a \in Actions, SkipCall(a) PROVE Kept
  <2>1. PICK o \in {"skipped", "reused"} :
           /\ o = "reused" => a \notin NeedsApproval
           /\ AnswerUnrun(a, o)
    BY <1>31 DEF SkipCall
  <2>2. Honest(Answered(a, o))
    BY <2>1, HonestAnswer DEF Outcomes
  <2> QED BY <2>1, <2>2 DEF AnswerUnrun
<1>32. ASSUME NEW a \in Actions, PlanCall(a) PROVE Kept
  <2>1. PICK o \in {"succeeded", "failed", "skipped"} :
           run' = Answered(a, o) /\ saved' = run'
    BY <1>32 DEF PlanCall
  <2> QED BY <2>1, <1>a DEF Outcomes
<1>33. ASSUME NEW a \in Actions, InvalidPlan(a) PROVE Kept
  BY <1>33, <1>a DEF InvalidPlan, Outcomes
<1>34. ASSUME NEW a \in Actions, GiveUpPlanning(a) PROVE Kept
  BY <1>34, <1>r DEF GiveUpPlanning
<1>35. ASSUME NEW a \in Actions, ReachToolLimit(a) PROVE Kept
  BY <1>35, <1>r DEF ReachToolLimit
<1>36. ASSUME NEW a \in Actions, RunCall(a) PROVE Kept
  BY <1>36 DEF RunCall, StartTool
<1>37. ASSUME NEW a \in Actions, AskApproval(a) PROVE Kept
  BY <1>37, <1>s DEF AskApproval, RunStatus
<1>38. ASSUME NEW a \in Actions, RefuseUnoffered(a) PROVE Kept
  BY <1>38, <1>a DEF RefuseUnoffered, Outcomes
<1> QED
  BY <1>1, <1>2, <1>3, <1>4, <1>5, <1>6, <1>7, <1>8, <1>9, <1>10, <1>11, <1>12,
      <1>13, <1>14, <1>15, <1>16, <1>17, <1>18, <1>19, <1>20, <1>21, <1>22,
      <1>23, <1>24, <1>25, <1>26, <1>27, <1>28, <1>29, <1>30, <1>31, <1>32,
      <1>33, <1>34, <1>35, <1>36, <1>37, <1>38 DEF TaskStep, CallStep

\* The steps that leave the tools alone: none starts, runs or is approved.
HandsOffStep ==
    /\ pc' \notin {"tool", "reply"}
    /\ pending' \in {pending, NoPending}
    /\ UNCHANGED <<ran, granted>>

\* Every step of the coroutine but the starts of a tool, its effect and the
\* approval gate leaves consent as it was.
LEMMA HandsOff ==
    ASSUME TaskStep
    PROVE  \/ HandsOffStep \/ TakeEffect \/ Approved
           \/ \E a \in Actions : RunCall(a) \/ AskApproval(a)
<1> USE DEF HandsOffStep, locals, tallies, records
<1>1. CASE DeliverCancel
  BY <1>1 DEF DeliverCancel, CancelInside, CancelOutside
<1>2. CASE Begin
  BY <1>2 DEF Begin
<1>3. CASE InitFails
  BY <1>3 DEF InitFails
<1>4. CASE StartLoop
  BY <1>4 DEF StartLoop
<1>5. CASE AnswerInquiry
  BY <1>5 DEF AnswerInquiry
<1>6. CASE BuildContext
  BY <1>6 DEF BuildContext
<1>7. CASE NoTurn
  BY <1>7 DEF NoTurn, Raise
<1>8. CASE OverBudget
  BY <1>8 DEF OverBudget
<1>9. CASE ReportOverBudget
  BY <1>9 DEF ReportOverBudget
<1>10. CASE ModelRetries
  BY <1>10 DEF ModelRetries
<1>11. CASE ModelFails
  BY <1>11 DEF ModelFails, Raise
<1>12. CASE ModelAnswers
  BY <1>12 DEF ModelAnswers
<1>13. CASE ReviewAgain
  BY <1>13 DEF ReviewAgain
<1>14. CASE AcceptAnswer
  BY <1>14 DEF AcceptAnswer
<1>15. CASE Deliver
  BY <1>15 DEF Deliver
<1>16. CASE Declined
  BY <1>16 DEF Declined
<1>17. CASE ToolSucceeds
  BY <1>17 DEF ToolSucceeds
<1>18. CASE ToolFails
  BY <1>18 DEF ToolFails
<1>19. CASE SaveResult
  BY <1>19 DEF SaveResult
<1>20. CASE Announce
  BY <1>20 DEF Announce
<1>21. CASE NextRound
  BY <1>21 DEF NextRound
<1>22. CASE StallOut
  BY <1>22 DEF StallOut
<1>23. CASE ReportStall
  BY <1>23 DEF ReportStall
<1>24. CASE Unwind
  BY <1>24 DEF Unwind
<1>25. CASE CloseServers
  BY <1>25 DEF CloseServers
<1>26. CASE RecordFailure
  BY <1>26 DEF RecordFailure
<1>27. CASE \E as \in Proposals : ModelProposes(as)
  BY <1>27 DEF ModelProposes
<1>28. CASE \E a \in Actions : RefuseCall(a)
  BY <1>28 DEF RefuseCall, AtCall, AnswerUnrun
<1>29. CASE \E a \in Actions : SkipCall(a)
  BY <1>29 DEF SkipCall, AtCall, AnswerUnrun
<1>30. CASE \E a \in Actions : PlanCall(a)
  BY <1>30 DEF PlanCall, AtCall
<1>31. CASE \E a \in Actions : InvalidPlan(a)
  BY <1>31 DEF InvalidPlan, AtCall
<1>32. CASE \E a \in Actions : GiveUpPlanning(a)
  BY <1>32 DEF GiveUpPlanning, AtCall, Raise
<1>33. CASE \E a \in Actions : ReachToolLimit(a)
  BY <1>33 DEF ReachToolLimit, AtCall, Raise
<1>34. CASE \E a \in Actions : RefuseUnoffered(a)
  BY <1>34 DEF RefuseUnoffered, AtCall
<1> QED
  BY <1>1, <1>2, <1>3, <1>4, <1>5, <1>6, <1>7, <1>8, <1>9, <1>10, <1>11, <1>12,
      <1>13, <1>14, <1>15, <1>16, <1>17, <1>18, <1>19, <1>20, <1>21, <1>22,
      <1>23, <1>24, <1>25, <1>26, <1>27, <1>28, <1>29, <1>30, <1>31, <1>32,
      <1>33, <1>34 DEF TaskStep, CallStep

\* The coroutine keeps the rules of consent: RunCall starts only what the
\* policy lets pass, Approved only what the user granted.
LEMMA TaskConsent ==
    ASSUME TypeInv, ConsentInv, TaskStep
    PROVE  ConsentInv'
<1> USE RunnerAssumption, ActionsAssumption DEF Cleared
<1>t. /\ ran \in [Actions -> Nat] /\ granted \subseteq Actions
      /\ pending.answer # "none" => pending.call # NoCall
      /\ pc \in {"tool", "reply"} => at \in Actions
  BY DEF TypeInv, TypeOK, TypeOfRecords, LoopInv
<1>h. Honest(run') /\ Honest(saved')
  BY TaskReuse DEF Honest, TypeInv, TypeOK, TypeOfRuns, ConsentInv
<1>1. CASE HandsOffStep
  <2>1. pending'.call # NoCall => pending'.call \in NeedsApproval
    BY <1>1 DEF HandsOffStep, ConsentInv, NoPending
  <2>2. pending'.answer = "yes" => pending'.call \in granted'
    BY <1>1 DEF HandsOffStep, ConsentInv, NoPending
  <2> QED
    BY <1>1, <1>h, <2>1, <2>2
    DEF HandsOffStep, ConsentInv, Honest, NothingReused
<1>2. CASE TakeEffect
  <2>1. Cleared(at)
    BY <1>2 DEF TakeEffect, ConsentInv
  <2>2. UNCHANGED <<at, pending, granted>>
    BY <1>2 DEF TakeEffect, locals
  <2>3. \A a \in Actions : ran'[a] > 0 => Cleared(a)
    <3>1. ran' = [ran EXCEPT ![at] = ran[at] + 1]
      BY <1>2 DEF TakeEffect
    <3>2. \A a \in Actions : a # at => ran'[a] = ran[a]
      BY <1>t, <3>1
    <3> QED BY <2>1, <3>2 DEF ConsentInv
  <2> QED
    BY <1>h, <2>1, <2>2, <2>3 DEF ConsentInv, Honest, NothingReused
<1>3. CASE Approved
  <2>1. /\ pending.answer = "yes" /\ at' = pending.call /\ pending' = NoPending
        /\ UNCHANGED <<ran, granted>>
    BY <1>3 DEF Approved, StartTool
  <2>2. Cleared(at')
    BY <1>t, <2>1 DEF ConsentInv
  <2> QED
    BY <1>h, <2>1, <2>2 DEF ConsentInv, Honest, NothingReused, NoPending
<1>4. ASSUME NEW a \in Actions, RunCall(a) PROVE ConsentInv'
  <2>1. Cleared(a) /\ at' = a /\ UNCHANGED <<pending, ran, granted>>
    BY <1>4 DEF RunCall, StartTool
  <2> QED
    BY <1>h, <2>1 DEF ConsentInv, Honest, NothingReused
<1>5. ASSUME NEW a \in Actions, AskApproval(a) PROVE ConsentInv'
  <2>1. /\ pc' = "approve" /\ a \in NeedsApproval
        /\ pending' = [call |-> a, answer |-> "none"]
        /\ UNCHANGED <<ran, granted>>
    BY <1>5 DEF AskApproval
  <2> QED
    BY <1>h, <2>1 DEF ConsentInv, Honest, NothingReused
<1> QED BY <1>1, <1>2, <1>3, <1>4, <1>5, HandsOff

\* A run that was never saved holds no reused answer.
LEMMA HonestNewRun == Honest(NewRun)
<1>1. NewRun.ledger = EmptyLedger
  BY DEF NewRun
<1>2. NothingReused(EmptyLedger)
  BY RunnerAssumption DEF NothingReused, EmptyLedger
<1> QED BY <1>1, <1>2, NewRunType DEF Honest

\* What the handlers do to the ledgers.
LEMMA HandlerReuse ==
    ASSUME Honest(run), Honest(saved), ConsoleStep
    PROVE  Honest(run') /\ Honest(saved')
<1> DEFINE Kept == Honest(run') /\ Honest(saved')
<1> USE HonestNewRun DEF OpenStatus, RunStatus, Verdicts, runnerVars, webVars,
    records
<1>1. ASSUME StartTopic PROVE Kept
  BY <1>1, HonestRuns DEF StartTopic, Launch, WithStatus
<1>2. ASSUME FollowUp PROVE Kept
  BY <1>2, HonestRuns DEF FollowUp, Launch
<1>3. ASSUME NEW t \in Turns, Release(t) PROVE Kept
  BY <1>3, HonestRuns DEF Release
<1>4. ASSUME NEW s \in Stoppers, RequestStop(s) PROVE Kept
  BY <1>4, HonestRuns DEF RequestStop
<1>5. ASSUME NEW s \in Stoppers, StopAbandoned(s) PROVE Kept
  BY <1>5, HonestRuns DEF StopAbandoned
<1>6. ASSUME NEW s \in Stoppers, FinishStop(s) PROVE Kept
  BY <1>6, HonestRuns DEF FinishStop
<1>7. ASSUME NEW a \in Actions, DecideApproval(a) PROVE Kept
  BY <1>7, HonestRuns DEF DecideApproval
<1>8. ASSUME NEW t \in Titles, Rename(t) PROVE Kept
  <2>1. /\ Honest([run EXCEPT !.title = t])
        /\ Honest([saved EXCEPT !.title = t])
    BY HonestRuns
  <2>2. CASE Live
    BY <1>8, <2>1, <2>2 DEF Rename
  <2>3. CASE ~Live
    BY <1>8, <2>1, <2>3 DEF Rename
  <2> QED BY <2>2, <2>3
<1>9. ASSUME Delete PROVE Kept
  BY <1>9, HonestRuns DEF Delete
<1>10. ASSUME Crash PROVE Kept
  BY <1>10, HonestRuns DEF Crash, Forget
<1>11. ASSUME Shutdown PROVE Kept
  BY <1>11, HonestRuns DEF Shutdown
<1>12. ASSUME Leave PROVE Kept
  BY <1>12, HonestRuns DEF Leave, Forget
<1>13. ASSUME Recover PROVE Kept
  <2>1. Honest([saved EXCEPT !.status = "interrupted", !.ledger = Repair(@)])
    BY HonestRuns
  <2> QED BY <1>13, <2>1 DEF Recover
<1>14. ASSUME StartUnreconciled PROVE Kept
  BY <1>14, HonestRuns DEF StartUnreconciled
<1> QED
  BY <1>1, <1>2, <1>3, <1>4, <1>5, <1>6, <1>7, <1>8, <1>9, <1>10, <1>11, <1>12,
      <1>13, <1>14 DEF ConsoleStep

\* The handlers keep the rules of consent: only decide_approval grants, and
\* only the call that waits.
LEMMA HandlerConsent ==
    ASSUME TypeInv, LifeInv, ConsentInv, ConsoleStep
    PROVE  ConsentInv'
<1>t. pending.call \in Actions \cup {NoCall} /\ granted \subseteq Actions
  BY DEF TypeInv, TypeOK, TypeOfTask, TypeOfRecords, PendingApprovals
<1>h. Honest(run') /\ Honest(saved')
  BY HandlerReuse DEF Honest, TypeInv, TypeOK, TypeOfRuns, ConsentInv
<1>1. ASSUME NEW a \in Actions, DecideApproval(a) PROVE ConsentInv'
  <2>1. /\ granted \subseteq granted' /\ UNCHANGED <<pc, at, ran>>
        /\ pending'.call = pending.call
        /\ pending'.answer = "yes" => pending.call \in granted'
    BY <1>1 DEF DecideApproval, locals
  <2> QED
    BY <1>h, <2>1 DEF ConsentInv, Cleared, Honest, NothingReused
<1>2. ASSUME /\ pc' \notin {"tool", "reply"} \/ UNCHANGED <<pc, at>>
             /\ pending' \in {pending, NoPending}
             /\ UNCHANGED <<ran, granted>>
      PROVE  ConsentInv'
  <2>1. /\ pending'.call # NoCall => pending'.call \in NeedsApproval
        /\ pending'.answer = "yes" => pending'.call \in granted
    BY <1>2 DEF ConsentInv, NoPending
  <2> QED
    BY <1>2, <1>h, <2>1 DEF ConsentInv, Cleared, Honest, NothingReused
<1>3. ASSUME ConsoleStep, ~ \E a \in Actions : DecideApproval(a)
      PROVE  /\ pc' \notin {"tool", "reply"} \/ UNCHANGED <<pc, at>>
             /\ pending' \in {pending, NoPending}
             /\ UNCHANGED <<ran, granted>>
  <2> DEFINE Still == /\ pc' \notin {"tool", "reply"} \/ UNCHANGED <<pc, at>>
                     /\ pending' \in {pending, NoPending}
                     /\ UNCHANGED <<ran, granted>>
  <2> USE DEF runnerVars, webVars, locals, records
  <2>1. ASSUME StartTopic PROVE Still
    BY <2>1 DEF StartTopic, Launch
  <2>2. ASSUME FollowUp PROVE Still
    BY <2>2 DEF FollowUp, Launch
  <2>3. ASSUME NEW t \in Turns, Release(t) PROVE Still
    BY <2>3 DEF Release
  <2>4. ASSUME NEW s \in Stoppers, RequestStop(s) PROVE Still
    BY <2>4 DEF RequestStop
  <2>5. ASSUME NEW s \in Stoppers, StopAbandoned(s) PROVE Still
    BY <2>5 DEF StopAbandoned
  <2>6. ASSUME NEW s \in Stoppers, FinishStop(s) PROVE Still
    BY <2>6 DEF FinishStop
  <2>7. ASSUME NEW t \in Titles, Rename(t) PROVE Still
    BY <2>7 DEF Rename
  <2>8. ASSUME Delete PROVE Still
    BY <2>8 DEF Delete
  <2>9. ASSUME Crash PROVE Still
    BY <2>9 DEF Crash, Forget
  <2>10. ASSUME Shutdown PROVE Still
    BY <2>10 DEF Shutdown
  <2>11. ASSUME Leave PROVE Still
    BY <2>11 DEF Leave, Forget
  <2>12. ASSUME Recover PROVE Still
    BY <2>12 DEF Recover
  <2>13. ASSUME StartUnreconciled PROVE Still
    BY <2>13 DEF StartUnreconciled
  <2> QED
    BY <1>3, <2>1, <2>2, <2>3, <2>4, <2>5, <2>6, <2>7, <2>8, <2>9, <2>10,
        <2>11, <2>12, <2>13 DEF ConsoleStep
<1> QED BY <1>1, <1>2, <1>3

----------------------------------------------------------------------------
(* The theorems.                                                            *)

\* The console starts in the invariant.
LEMMA SafetyInit == Init => SafetyInv
<1> SUFFICES ASSUME Init PROVE SafetyInv
  OBVIOUS
<1>1. TypeInv
  BY TypeInit
<1>2. LifeInv
  BY DEF Init, LifeInv, LiveIsRegistered, TaskDone, Resting, PendingIsAwaited,
         NoPending, Present, NewRun
<1>3. Honest(run) /\ Honest(saved)
  BY HonestNewRun DEF Init
<1>4. ConsentInv
  BY <1>3 DEF Init, ConsentInv, Honest, NoPending
<1> QED BY <1>1, <1>2, <1>4 DEF SafetyInv, TypeInv

\* Every step of the console keeps it.
LEMMA SafetyStep == SafetyInv /\ [Next]_vars => SafetyInv'
<1> SUFFICES ASSUME SafetyInv, [Next]_vars PROVE SafetyInv'
  OBVIOUS
<1> USE DEF SafetyInv, TypeInv
<1>1. TypeInv'
  BY TypeStep
<1>2. CASE Execute
  BY <1>1, <1>2, TaskLife, TaskConsent DEF Execute
<1>3. CASE ConsoleStep
  BY <1>1, <1>3, HandlerLife, HandlerConsent
<1>4. CASE UNCHANGED vars
  <2>1. UNCHANGED <<run, saved, pc, pending, at, ran, granted, turn,
                    registered, deleted>>
    BY <1>4 DEF vars, runnerVars, webVars
  <2>2. LifeInv'
    BY <2>1 DEF LifeInv, LiveIsRegistered, TaskDone, Resting, PendingIsAwaited,
                Present
  <2>3. ConsentInv'
    BY <2>1 DEF ConsentInv, Cleared, NothingReused
  <2> QED BY <1>1, <2>2, <2>3
<1> QED BY <1>2, <1>3, <1>4 DEF Next

\* The invariant of the console: types, the bounds of a round, the life of an
\* execution and consent hold together whatever the user, the tools, the model
\* and the process do.
THEOREM SafetyInvariant == Spec => []SafetyInv
BY SafetyInit, SafetyStep, PTL DEF Spec

\* No denied call, no unapproved call and no unapproved content, however many
\* calls, executions and crashes there are.
THEOREM ConsentComesFirst == Spec => []ConsentFirst
<1>1. SafetyInv => ConsentFirst
  <2> SUFFICES ASSUME SafetyInv, NEW a \in Actions
               PROVE  /\ a \in Denied \cup Planning => ran[a] = 0
                      /\ a \in NeedsApproval /\ a \notin granted =>
                            ran[a] = 0 /\ run.ledger.result[a] # "reused"
    BY DEF ConsentFirst
  <2>1. ran[a] \in Nat
    BY DEF SafetyInv, TypeInv, TypeOK, TypeOfRecords
  <2> QED
    BY <2>1 DEF SafetyInv, ConsentInv, Cleared, NothingReused
<1> QED BY <1>1, SafetyInvariant, PTL

\* A request for approval never outlives the wait for it: neither a stop, nor a
\* crash, nor a follow-up leaves one that a late decision could reach.
THEOREM ApprovalsAreAwaited == Spec => []PendingIsAwaited
<1>1. SafetyInv => PendingIsAwaited
  BY DEF SafetyInv, LifeInv
<1> QED BY <1>1, SafetyInvariant, PTL

\* At most one execution is at work, and it is the one the handlers find.
THEOREM OneLiveExecution == Spec => []LiveIsRegistered
<1>1. SafetyInv => LiveIsRegistered
  BY DEF SafetyInv, LifeInv
<1> QED BY <1>1, SafetyInvariant, PTL

\* No execution is left that could save a deleted topic again.
THEOREM DeletionIsFinal == Spec => []DeletedStaysDeleted
<1>1. SafetyInv => DeletedStaysDeleted
  BY DEF SafetyInv, LifeInv, DeletedStaysDeleted
<1> QED BY <1>1, SafetyInvariant, PTL
==============================================================================
