---------------------------- MODULE ConsoleTypes ----------------------------
(***************************************************************************)
(* Type correctness of WebConsole, for every value of its constants.       *)
(*                                                                         *)
(* TypeOK is not inductive: that iteration stays within MaxIterations      *)
(* rests on where the coroutine stands in its round.  TypeInv adds LoopInv *)
(* for that.                                                               *)
(***************************************************************************)
EXTENDS WebConsole, TLAPS

TypeInv == TypeOK /\ LoopInv

----------------------------------------------------------------------------
(* The operators of Ledger return ledgers.                                  *)

\* Every operator on ledgers returns one.
LEMMA LedgerTypes ==
    ASSUME NEW l \in Ledgers, NEW as \in SUBSET Actions, NEW a,
           NEW o \in Outcomes
    PROVE  /\ Propose(l, as) \in Ledgers
           /\ Answer(l, a, o) \in Ledgers
           /\ Say(l) \in Ledgers
           /\ RecordUnfinished(l, o) \in Ledgers
           /\ Repair(l) \in Ledgers
<1>1. Propose(l, as) \in Ledgers
  BY DEF Propose, Ledgers
<1>2. Answer(l, a, o) \in Ledgers
  BY DEF Answer, Ledgers
<1>3. Say(l) \in Ledgers
  BY DEF Say, Ledgers
<1>4. RecordUnfinished(l, o) \in Ledgers
  BY DEF RecordUnfinished, Ledgers
<1>5. Repair(l) \in Ledgers
  BY DEF Repair, Ledgers, Outcomes
<1> QED BY <1>1, <1>2, <1>3, <1>4, <1>5

\* The empty ledger is one.
LEMMA EmptyLedgerType == EmptyLedger \in Ledgers
BY DEF EmptyLedger, Ledgers

\* The run of a topic without a file has the type of a run.
LEMMA NewRunType == NewRun \in Runs
BY EmptyLedgerType, RunnerAssumption DEF NewRun, Runs

\* What WithLedger and WithStatus do to a run.
LEMMA RunTypes ==
    ASSUME NEW r \in Runs
    PROVE  /\ r.ledger \in Ledgers
           /\ r.status \in RunStatus \cup {"absent"}
           /\ r.title \in Titles
           /\ \A l \in Ledgers : WithLedger(r, l) \in Runs
           /\ \A s \in RunStatus : WithStatus(r, s) \in Runs
           /\ \A s \in RunStatus, l \in Ledgers :
                 [r EXCEPT !.status = s, !.ledger = l] \in Runs
           /\ \A t \in Titles : [r EXCEPT !.title = t] \in Runs
BY DEF Runs, WithLedger, WithStatus

\* The runs a handler saves with a new status and a longer ledger.
LEMMA RunSays ==
    ASSUME NEW r \in Runs, NEW s \in RunStatus, NEW a, NEW o \in Outcomes
    PROVE  /\ [r EXCEPT !.status = s, !.ledger = Say(@)] \in Runs
           /\ [r EXCEPT !.status = s, !.ledger = Repair(@)] \in Runs
           /\ [r EXCEPT !.status = s, !.ledger = Answer(@, a, o)] \in Runs
<1>1. r.ledger \in Ledgers
  BY RunTypes
<1>2. /\ Say(r.ledger) \in Ledgers
      /\ Repair(r.ledger) \in Ledgers
      /\ Answer(r.ledger, a, o) \in Ledgers
  BY <1>1, LedgerTypes DEF Outcomes
<1> QED BY <1>2 DEF Runs

----------------------------------------------------------------------------

\* The console starts well typed.
LEMMA TypeInit == Init => TypeInv
<1> SUFFICES ASSUME Init PROVE TypeInv
  OBVIOUS
<1>1. TypeOfRuns /\ named \in Titles
  BY NewRunType, RunTypes DEF Init, TypeOfRuns
<1>2. TypeOfTask
  BY DEF Init, TypeOfTask, NoPending, NoCall, PendingApprovals, Places,
      Awaiting
<1>3. TypeOfTallies
  BY RunnerAssumption DEF Init, TypeOfTallies
<1>4. TypeOfRecords
  BY DEF Init, TypeOfRecords
<1>5. TypeOfConsole
  BY <1>1, ConsoleAssumption DEF Init, TypeOfConsole
<1>6. LoopInv
  BY DEF Init, LoopInv, InRound, NoPending
<1>7. TypeOfFlags
  BY Zenon DEF Init, TypeOfFlags
<1> QED
  BY <1>1, <1>2, <1>3, <1>4, <1>5, <1>6, <1>7 DEF TypeInv, TypeOK

\* Every step of the coroutine keeps the types and the bounds of a round.
LEMMA TaskTypes ==
    ASSUME TypeInv, TaskStep, UNCHANGED webVars
    PROVE  TypeInv'
<1> USE DEF TypeInv, TypeOK, locals, tallies, records
<1> DEFINE Steps == TypeOfTask' /\ TypeOfTallies' /\ TypeOfRecords' /\ LoopInv'
<1>c. TypeOfConsole'
  BY DEF webVars, TypeOfConsole
<1>1. CASE DeliverCancel
  <2>1. TypeOfRuns'
    <3> DEFINE closed ==
                 WithLedger(run, RecordUnfinished(run.ledger, "cancelled"))
    <3>1. RecordUnfinished(run.ledger, "cancelled") \in Ledgers
      BY RunTypes, LedgerTypes DEF TypeOfRuns, Outcomes
    <3>2. closed \in Runs /\ WithStatus(closed, "cancelled") \in Runs
      BY <3>1, RunTypes DEF TypeOfRuns, RunStatus, Verdicts
    <3> QED
      BY <1>1, <3>2 DEF DeliverCancel, CancelInside, CancelOutside, TypeOfRuns
  <2>2. TypeOfFlags'
    BY <1>1, Zenon DEF DeliverCancel, CancelInside, CancelOutside, TypeOfFlags,
        webVars
  <2>3. TypeOfTask' /\ TypeOfTallies'
    BY <1>1, RunnerAssumption
    DEF DeliverCancel, CancelInside, CancelOutside, TypeOfTask, TypeOfTallies,
        LoopInv, InRound, Places, Awaiting, PendingApprovals, NoPending, NoCall
  <2>4. TypeOfRecords'
    BY <1>1 DEF DeliverCancel, CancelInside, CancelOutside, TypeOfRecords,
        TypeOfTask, LoopInv, EventKinds, PendingApprovals, NoCall
  <2>5. LoopInv'
    BY <1>1, RunnerAssumption DEF DeliverCancel, CancelInside, CancelOutside,
        LoopInv, InRound, TypeOfTask, TypeOfTallies, PendingApprovals,
        NoPending, NoCall
  <2> QED BY <1>c, <2>1, <2>2, <2>3, <2>4, <2>5
<1>2. CASE Begin
  <2>1. TypeOfRuns'
    BY <1>2, RunTypes, RunSays, LedgerTypes
    DEF Begin, TypeOfRuns, OpenStatus, Verdicts, RunStatus, Outcomes
  <2>2. TypeOfFlags'
    BY <1>2, Zenon DEF Begin, TypeOfFlags, webVars
  <2>3. TypeOfTask' /\ TypeOfTallies'
    BY <1>2, RunnerAssumption
    DEF Begin, TypeOfTask, TypeOfTallies, LoopInv, InRound, Places, Awaiting,
        PendingApprovals, NoPending, NoCall
  <2>4. TypeOfRecords'
    BY <1>2 DEF Begin, TypeOfRecords, TypeOfTask, LoopInv, EventKinds,
        PendingApprovals, NoCall
  <2>5. LoopInv'
    BY <1>2, RunnerAssumption DEF Begin, LoopInv, InRound, TypeOfTask,
        TypeOfTallies, PendingApprovals, NoPending, NoCall
  <2> QED BY <1>c, <2>1, <2>2, <2>3, <2>4, <2>5
<1>3. CASE InitFails
  <2>1. TypeOfRuns'
    BY <1>3, RunTypes, RunSays, LedgerTypes
    DEF InitFails, TypeOfRuns, OpenStatus, Verdicts, RunStatus, Outcomes
  <2>2. TypeOfFlags'
    BY <1>3, Zenon DEF InitFails, TypeOfFlags, webVars
  <2>3. TypeOfTask' /\ TypeOfTallies'
    BY <1>3, RunnerAssumption
    DEF InitFails, TypeOfTask, TypeOfTallies, LoopInv, InRound, Places,
        Awaiting, PendingApprovals, NoPending, NoCall
  <2>4. TypeOfRecords'
    BY <1>3 DEF InitFails, TypeOfRecords, TypeOfTask, LoopInv, EventKinds,
        PendingApprovals, NoCall
  <2>5. LoopInv'
    BY <1>3, RunnerAssumption DEF InitFails, LoopInv, InRound, TypeOfTask,
        TypeOfTallies, PendingApprovals, NoPending, NoCall
  <2> QED BY <1>c, <2>1, <2>2, <2>3, <2>4, <2>5
<1>4. CASE StartLoop
  <2>1. TypeOfRuns'
    BY <1>4, RunTypes, RunSays, LedgerTypes
    DEF StartLoop, TypeOfRuns, OpenStatus, Verdicts, RunStatus, Outcomes
  <2>2. TypeOfFlags'
    BY <1>4, Zenon DEF StartLoop, TypeOfFlags, webVars
  <2>3. TypeOfTask' /\ TypeOfTallies'
    BY <1>4, RunnerAssumption
    DEF StartLoop, TypeOfTask, TypeOfTallies, LoopInv, InRound, Places,
        Awaiting, PendingApprovals, NoPending, NoCall
  <2>4. TypeOfRecords'
    BY <1>4 DEF StartLoop, TypeOfRecords, TypeOfTask, LoopInv, EventKinds,
        PendingApprovals, NoCall
  <2>5. LoopInv'
    BY <1>4, RunnerAssumption DEF StartLoop, LoopInv, InRound, TypeOfTask,
        TypeOfTallies, PendingApprovals, NoPending, NoCall
  <2> QED BY <1>c, <2>1, <2>2, <2>3, <2>4, <2>5
<1>5. CASE AnswerInquiry
  <2>1. TypeOfRuns'
    <3>1. PICK verdict \in {"completed", "needs_review"} :
             /\ run' = [run EXCEPT !.status = verdict, !.ledger = Say(@)]
             /\ saved' = run'
      BY <1>5 DEF AnswerInquiry
    <3>2. verdict \in RunStatus
      BY DEF RunStatus, Verdicts
    <3> QED BY <3>1, <3>2, RunSays DEF TypeOfRuns, Outcomes
  <2>2. TypeOfFlags'
    BY <1>5, Zenon DEF AnswerInquiry, TypeOfFlags, webVars
  <2>3. TypeOfTask' /\ TypeOfTallies'
    BY <1>5, RunnerAssumption
    DEF AnswerInquiry, TypeOfTask, TypeOfTallies, LoopInv, InRound, Places,
        Awaiting, PendingApprovals, NoPending, NoCall
  <2>4. TypeOfRecords'
    BY <1>5 DEF AnswerInquiry, TypeOfRecords, TypeOfTask, LoopInv, EventKinds,
        PendingApprovals, NoCall
  <2>5. LoopInv'
    BY <1>5, RunnerAssumption DEF AnswerInquiry, LoopInv, InRound, TypeOfTask,
        TypeOfTallies, PendingApprovals, NoPending, NoCall
  <2> QED BY <1>c, <2>1, <2>2, <2>3, <2>4, <2>5
<1>6. CASE BuildContext
  <2>1. TypeOfRuns'
    BY <1>6, RunTypes, RunSays, LedgerTypes
    DEF BuildContext, TypeOfRuns, OpenStatus, Verdicts, RunStatus, Outcomes
  <2>2. TypeOfFlags'
    BY <1>6, Zenon DEF BuildContext, TypeOfFlags, webVars
  <2>3. TypeOfTask' /\ TypeOfTallies'
    BY <1>6, RunnerAssumption
    DEF BuildContext, TypeOfTask, TypeOfTallies, LoopInv, InRound, Places,
        Awaiting, PendingApprovals, NoPending, NoCall
  <2>4. TypeOfRecords'
    BY <1>6 DEF BuildContext, TypeOfRecords, TypeOfTask, LoopInv, EventKinds,
        PendingApprovals, NoCall
  <2>5. LoopInv'
    BY <1>6, RunnerAssumption DEF BuildContext, LoopInv, InRound, TypeOfTask,
        TypeOfTallies, PendingApprovals, NoPending, NoCall
  <2> QED BY <1>c, <2>1, <2>2, <2>3, <2>4, <2>5
<1>7. CASE NoTurn
  <2>1. TypeOfRuns'
    BY <1>7, RunTypes, RunSays, LedgerTypes
    DEF NoTurn, Raise, TypeOfRuns, OpenStatus, Verdicts, RunStatus, Outcomes
  <2>2. TypeOfFlags'
    BY <1>7, Zenon DEF NoTurn, Raise, TypeOfFlags, webVars
  <2>3. TypeOfTask' /\ TypeOfTallies'
    BY <1>7, RunnerAssumption
    DEF NoTurn, Raise, TypeOfTask, TypeOfTallies, LoopInv, InRound, Places,
        Awaiting, PendingApprovals, NoPending, NoCall
  <2>4. TypeOfRecords'
    BY <1>7 DEF NoTurn, Raise, TypeOfRecords, TypeOfTask, LoopInv, EventKinds,
        PendingApprovals, NoCall
  <2>5. LoopInv'
    BY <1>7, RunnerAssumption DEF NoTurn, Raise, LoopInv, InRound, TypeOfTask,
        TypeOfTallies, PendingApprovals, NoPending, NoCall
  <2> QED BY <1>c, <2>1, <2>2, <2>3, <2>4, <2>5
<1>8. CASE OverBudget
  <2>1. TypeOfRuns'
    BY <1>8, RunTypes, RunSays, LedgerTypes
    DEF OverBudget, TypeOfRuns, OpenStatus, Verdicts, RunStatus, Outcomes
  <2>2. TypeOfFlags'
    BY <1>8, Zenon DEF OverBudget, TypeOfFlags, webVars
  <2>3. TypeOfTask' /\ TypeOfTallies'
    BY <1>8, RunnerAssumption
    DEF OverBudget, TypeOfTask, TypeOfTallies, LoopInv, InRound, Places,
        Awaiting, PendingApprovals, NoPending, NoCall
  <2>4. TypeOfRecords'
    BY <1>8 DEF OverBudget, TypeOfRecords, TypeOfTask, LoopInv, EventKinds,
        PendingApprovals, NoCall
  <2>5. LoopInv'
    BY <1>8, RunnerAssumption DEF OverBudget, LoopInv, InRound, TypeOfTask,
        TypeOfTallies, PendingApprovals, NoPending, NoCall
  <2> QED BY <1>c, <2>1, <2>2, <2>3, <2>4, <2>5
<1>9. CASE ReportOverBudget
  <2>1. TypeOfRuns'
    BY <1>9, RunTypes, RunSays, LedgerTypes
    DEF ReportOverBudget, TypeOfRuns, OpenStatus, Verdicts, RunStatus, Outcomes
  <2>2. TypeOfFlags'
    BY <1>9, Zenon DEF ReportOverBudget, TypeOfFlags, webVars
  <2>3. TypeOfTask' /\ TypeOfTallies'
    BY <1>9, RunnerAssumption
    DEF ReportOverBudget, TypeOfTask, TypeOfTallies, LoopInv, InRound, Places,
        Awaiting, PendingApprovals, NoPending, NoCall
  <2>4. TypeOfRecords'
    BY <1>9 DEF ReportOverBudget, TypeOfRecords, TypeOfTask, LoopInv,
        EventKinds, PendingApprovals, NoCall
  <2>5. LoopInv'
    BY <1>9, RunnerAssumption DEF ReportOverBudget, LoopInv, InRound,
        TypeOfTask, TypeOfTallies, PendingApprovals, NoPending, NoCall
  <2> QED BY <1>c, <2>1, <2>2, <2>3, <2>4, <2>5
<1>10. CASE ModelRetries
  <2>1. TypeOfRuns'
    BY <1>10, RunTypes, RunSays, LedgerTypes
    DEF ModelRetries, TypeOfRuns, OpenStatus, Verdicts, RunStatus, Outcomes
  <2>2. TypeOfFlags'
    BY <1>10, Zenon DEF ModelRetries, TypeOfFlags, webVars
  <2>3. TypeOfTask' /\ TypeOfTallies'
    BY <1>10, RunnerAssumption
    DEF ModelRetries, TypeOfTask, TypeOfTallies, LoopInv, InRound, Places,
        Awaiting, PendingApprovals, NoPending, NoCall
  <2>4. TypeOfRecords'
    BY <1>10 DEF ModelRetries, TypeOfRecords, TypeOfTask, LoopInv, EventKinds,
        PendingApprovals, NoCall
  <2>5. LoopInv'
    BY <1>10, RunnerAssumption DEF ModelRetries, LoopInv, InRound, TypeOfTask,
        TypeOfTallies, PendingApprovals, NoPending, NoCall
  <2> QED BY <1>c, <2>1, <2>2, <2>3, <2>4, <2>5
<1>11. CASE ModelFails
  <2>1. TypeOfRuns'
    BY <1>11, RunTypes, RunSays, LedgerTypes
    DEF ModelFails, Raise, TypeOfRuns, OpenStatus, Verdicts, RunStatus,
        Outcomes
  <2>2. TypeOfFlags'
    BY <1>11, Zenon DEF ModelFails, Raise, TypeOfFlags, webVars
  <2>3. TypeOfTask' /\ TypeOfTallies'
    BY <1>11, RunnerAssumption
    DEF ModelFails, Raise, TypeOfTask, TypeOfTallies, LoopInv, InRound, Places,
        Awaiting, PendingApprovals, NoPending, NoCall
  <2>4. TypeOfRecords'
    BY <1>11 DEF ModelFails, Raise, TypeOfRecords, TypeOfTask, LoopInv,
        EventKinds, PendingApprovals, NoCall
  <2>5. LoopInv'
    BY <1>11, RunnerAssumption DEF ModelFails, Raise, LoopInv, InRound,
        TypeOfTask, TypeOfTallies, PendingApprovals, NoPending, NoCall
  <2> QED BY <1>c, <2>1, <2>2, <2>3, <2>4, <2>5
<1>12. CASE ModelAnswers
  <2>1. TypeOfRuns'
    BY <1>12, RunTypes, RunSays, LedgerTypes
    DEF ModelAnswers, TypeOfRuns, OpenStatus, Verdicts, RunStatus, Outcomes
  <2>2. TypeOfFlags'
    BY <1>12, Zenon DEF ModelAnswers, TypeOfFlags, webVars
  <2>3. TypeOfTask' /\ TypeOfTallies'
    BY <1>12, RunnerAssumption
    DEF ModelAnswers, TypeOfTask, TypeOfTallies, LoopInv, InRound, Places,
        Awaiting, PendingApprovals, NoPending, NoCall
  <2>4. TypeOfRecords'
    BY <1>12 DEF ModelAnswers, TypeOfRecords, TypeOfTask, LoopInv, EventKinds,
        PendingApprovals, NoCall
  <2>5. LoopInv'
    BY <1>12, RunnerAssumption DEF ModelAnswers, LoopInv, InRound, TypeOfTask,
        TypeOfTallies, PendingApprovals, NoPending, NoCall
  <2> QED BY <1>c, <2>1, <2>2, <2>3, <2>4, <2>5
<1>13. CASE ReviewAgain
  <2>1. TypeOfRuns'
    BY <1>13, RunTypes, RunSays, LedgerTypes
    DEF ReviewAgain, TypeOfRuns, OpenStatus, Verdicts, RunStatus, Outcomes
  <2>2. TypeOfFlags'
    BY <1>13, Zenon DEF ReviewAgain, TypeOfFlags, webVars
  <2>3. TypeOfTask' /\ TypeOfTallies'
    BY <1>13, RunnerAssumption
    DEF ReviewAgain, TypeOfTask, TypeOfTallies, LoopInv, InRound, Places,
        Awaiting, PendingApprovals, NoPending, NoCall
  <2>4. TypeOfRecords'
    BY <1>13 DEF ReviewAgain, TypeOfRecords, TypeOfTask, LoopInv, EventKinds,
        PendingApprovals, NoCall
  <2>5. LoopInv'
    BY <1>13, RunnerAssumption DEF ReviewAgain, LoopInv, InRound, TypeOfTask,
        TypeOfTallies, PendingApprovals, NoPending, NoCall
  <2> QED BY <1>c, <2>1, <2>2, <2>3, <2>4, <2>5
<1>14. CASE AcceptAnswer
  <2>1. TypeOfRuns'
    BY <1>14, RunTypes, RunSays, LedgerTypes
    DEF AcceptAnswer, TypeOfRuns, OpenStatus, Verdicts, RunStatus, Outcomes
  <2>2. TypeOfFlags'
    BY <1>14, Zenon DEF AcceptAnswer, TypeOfFlags, webVars
  <2>3. TypeOfTask' /\ TypeOfTallies'
    BY <1>14, RunnerAssumption
    DEF AcceptAnswer, TypeOfTask, TypeOfTallies, LoopInv, InRound, Places,
        Awaiting, PendingApprovals, NoPending, NoCall
  <2>4. TypeOfRecords'
    BY <1>14 DEF AcceptAnswer, TypeOfRecords, TypeOfTask, LoopInv, EventKinds,
        PendingApprovals, NoCall
  <2>5. LoopInv'
    BY <1>14, RunnerAssumption DEF AcceptAnswer, LoopInv, InRound, TypeOfTask,
        TypeOfTallies, PendingApprovals, NoPending, NoCall
  <2> QED BY <1>c, <2>1, <2>2, <2>3, <2>4, <2>5
<1>15. CASE Deliver
  <2>1. TypeOfRuns'
    BY <1>15, RunTypes, RunSays, LedgerTypes
    DEF Deliver, TypeOfRuns, OpenStatus, Verdicts, RunStatus, Outcomes
  <2>2. TypeOfFlags'
    BY <1>15, Zenon DEF Deliver, TypeOfFlags, webVars
  <2>3. TypeOfTask' /\ TypeOfTallies'
    BY <1>15, RunnerAssumption
    DEF Deliver, TypeOfTask, TypeOfTallies, LoopInv, InRound, Places, Awaiting,
        PendingApprovals, NoPending, NoCall
  <2>4. TypeOfRecords'
    BY <1>15 DEF Deliver, TypeOfRecords, TypeOfTask, LoopInv, EventKinds,
        PendingApprovals, NoCall
  <2>5. LoopInv'
    BY <1>15, RunnerAssumption DEF Deliver, LoopInv, InRound, TypeOfTask,
        TypeOfTallies, PendingApprovals, NoPending, NoCall
  <2> QED BY <1>c, <2>1, <2>2, <2>3, <2>4, <2>5
<1>16. CASE Approved
  <2>1. TypeOfRuns'
    BY <1>16, RunTypes, RunSays, LedgerTypes
    DEF Approved, StartTool, TypeOfRuns, OpenStatus, Verdicts, RunStatus,
        Outcomes
  <2>2. TypeOfFlags'
    BY <1>16, Zenon DEF Approved, StartTool, TypeOfFlags, webVars
  <2>3. TypeOfTask' /\ TypeOfTallies'
    BY <1>16, RunnerAssumption
    DEF Approved, StartTool, TypeOfTask, TypeOfTallies, LoopInv, InRound,
        Places, Awaiting, PendingApprovals, NoPending, NoCall
  <2>4. TypeOfRecords'
    BY <1>16 DEF Approved, StartTool, TypeOfRecords, TypeOfTask, LoopInv,
        EventKinds, PendingApprovals, NoCall
  <2>5. LoopInv'
    BY <1>16, RunnerAssumption DEF Approved, StartTool, LoopInv, InRound,
        TypeOfTask, TypeOfTallies, PendingApprovals, NoPending, NoCall
  <2> QED BY <1>c, <2>1, <2>2, <2>3, <2>4, <2>5
<1>17. CASE Declined
  <2>1. TypeOfRuns'
    BY <1>17, RunTypes, RunSays, LedgerTypes
    DEF Declined, TypeOfRuns, OpenStatus, Verdicts, RunStatus, Outcomes
  <2>2. TypeOfFlags'
    BY <1>17, Zenon DEF Declined, TypeOfFlags, webVars
  <2>3. TypeOfTask' /\ TypeOfTallies'
    BY <1>17, RunnerAssumption
    DEF Declined, TypeOfTask, TypeOfTallies, LoopInv, InRound, Places,
        Awaiting, PendingApprovals, NoPending, NoCall
  <2>4. TypeOfRecords'
    BY <1>17 DEF Declined, TypeOfRecords, TypeOfTask, LoopInv, EventKinds,
        PendingApprovals, NoCall
  <2>5. LoopInv'
    BY <1>17, RunnerAssumption DEF Declined, LoopInv, InRound, TypeOfTask,
        TypeOfTallies, PendingApprovals, NoPending, NoCall
  <2> QED BY <1>c, <2>1, <2>2, <2>3, <2>4, <2>5
<1>18. CASE TakeEffect
  <2>1. TypeOfRuns'
    BY <1>18, RunTypes, RunSays, LedgerTypes
    DEF TakeEffect, TypeOfRuns, OpenStatus, Verdicts, RunStatus, Outcomes
  <2>2. TypeOfFlags'
    BY <1>18, Zenon DEF TakeEffect, TypeOfFlags, webVars
  <2>3. TypeOfTask' /\ TypeOfTallies'
    BY <1>18, RunnerAssumption
    DEF TakeEffect, TypeOfTask, TypeOfTallies, LoopInv, InRound, Places,
        Awaiting, PendingApprovals, NoPending, NoCall
  <2>4. TypeOfRecords'
    BY <1>18 DEF TakeEffect, TypeOfRecords, TypeOfTask, LoopInv, EventKinds,
        PendingApprovals, NoCall
  <2>5. LoopInv'
    BY <1>18, RunnerAssumption DEF TakeEffect, LoopInv, InRound, TypeOfTask,
        TypeOfTallies, PendingApprovals, NoPending, NoCall
  <2> QED BY <1>c, <2>1, <2>2, <2>3, <2>4, <2>5
<1>19. CASE ToolSucceeds
  <2>1. TypeOfRuns'
    BY <1>19, RunTypes, RunSays, LedgerTypes
    DEF ToolSucceeds, TypeOfRuns, OpenStatus, Verdicts, RunStatus, Outcomes
  <2>2. TypeOfFlags'
    BY <1>19, Zenon DEF ToolSucceeds, TypeOfFlags, webVars
  <2>3. TypeOfTask' /\ TypeOfTallies'
    BY <1>19, RunnerAssumption
    DEF ToolSucceeds, TypeOfTask, TypeOfTallies, LoopInv, InRound, Places,
        Awaiting, PendingApprovals, NoPending, NoCall
  <2>4. TypeOfRecords'
    BY <1>19 DEF ToolSucceeds, TypeOfRecords, TypeOfTask, LoopInv, EventKinds,
        PendingApprovals, NoCall
  <2>5. LoopInv'
    BY <1>19, RunnerAssumption DEF ToolSucceeds, LoopInv, InRound, TypeOfTask,
        TypeOfTallies, PendingApprovals, NoPending, NoCall
  <2> QED BY <1>c, <2>1, <2>2, <2>3, <2>4, <2>5
<1>20. CASE ToolFails
  <2>1. TypeOfRuns'
    BY <1>20, RunTypes, RunSays, LedgerTypes
    DEF ToolFails, TypeOfRuns, OpenStatus, Verdicts, RunStatus, Outcomes
  <2>2. TypeOfFlags'
    BY <1>20, Zenon DEF ToolFails, TypeOfFlags, webVars
  <2>3. TypeOfTask' /\ TypeOfTallies'
    BY <1>20, RunnerAssumption
    DEF ToolFails, TypeOfTask, TypeOfTallies, LoopInv, InRound, Places,
        Awaiting, PendingApprovals, NoPending, NoCall
  <2>4. TypeOfRecords'
    BY <1>20 DEF ToolFails, TypeOfRecords, TypeOfTask, LoopInv, EventKinds,
        PendingApprovals, NoCall
  <2>5. LoopInv'
    BY <1>20, RunnerAssumption DEF ToolFails, LoopInv, InRound, TypeOfTask,
        TypeOfTallies, PendingApprovals, NoPending, NoCall
  <2> QED BY <1>c, <2>1, <2>2, <2>3, <2>4, <2>5
<1>21. CASE SaveResult
  <2>1. TypeOfRuns'
    BY <1>21, RunTypes, RunSays, LedgerTypes
    DEF SaveResult, TypeOfRuns, OpenStatus, Verdicts, RunStatus, Outcomes
  <2>2. TypeOfFlags'
    BY <1>21, Zenon DEF SaveResult, TypeOfFlags, webVars
  <2>3. TypeOfTask' /\ TypeOfTallies'
    BY <1>21, RunnerAssumption
    DEF SaveResult, TypeOfTask, TypeOfTallies, LoopInv, InRound, Places,
        Awaiting, PendingApprovals, NoPending, NoCall
  <2>4. TypeOfRecords'
    BY <1>21 DEF SaveResult, TypeOfRecords, TypeOfTask, LoopInv, EventKinds,
        PendingApprovals, NoCall
  <2>5. LoopInv'
    BY <1>21, RunnerAssumption DEF SaveResult, LoopInv, InRound, TypeOfTask,
        TypeOfTallies, PendingApprovals, NoPending, NoCall
  <2> QED BY <1>c, <2>1, <2>2, <2>3, <2>4, <2>5
<1>22. CASE Announce
  <2>1. TypeOfRuns'
    BY <1>22, RunTypes, RunSays, LedgerTypes
    DEF Announce, TypeOfRuns, OpenStatus, Verdicts, RunStatus, Outcomes
  <2>2. TypeOfFlags'
    BY <1>22, Zenon DEF Announce, TypeOfFlags, webVars
  <2>3. TypeOfTask' /\ TypeOfTallies'
    BY <1>22, RunnerAssumption
    DEF Announce, TypeOfTask, TypeOfTallies, LoopInv, InRound, Places,
        Awaiting, PendingApprovals, NoPending, NoCall
  <2>4. TypeOfRecords'
    BY <1>22 DEF Announce, TypeOfRecords, TypeOfTask, LoopInv, EventKinds,
        PendingApprovals, NoCall
  <2>5. LoopInv'
    BY <1>22, RunnerAssumption DEF Announce, LoopInv, InRound, TypeOfTask,
        TypeOfTallies, PendingApprovals, NoPending, NoCall
  <2> QED BY <1>c, <2>1, <2>2, <2>3, <2>4, <2>5
<1>23. CASE NextRound
  <2>1. TypeOfRuns'
    BY <1>23, RunTypes, RunSays, LedgerTypes
    DEF NextRound, TypeOfRuns, OpenStatus, Verdicts, RunStatus, Outcomes
  <2>2. TypeOfFlags'
    BY <1>23, Zenon DEF NextRound, TypeOfFlags, webVars
  <2>3. TypeOfTask' /\ TypeOfTallies'
    BY <1>23, RunnerAssumption
    DEF NextRound, TypeOfTask, TypeOfTallies, LoopInv, InRound, Places,
        Awaiting, PendingApprovals, NoPending, NoCall
  <2>4. TypeOfRecords'
    BY <1>23 DEF NextRound, TypeOfRecords, TypeOfTask, LoopInv, EventKinds,
        PendingApprovals, NoCall
  <2>5. LoopInv'
    BY <1>23, RunnerAssumption DEF NextRound, LoopInv, InRound, TypeOfTask,
        TypeOfTallies, PendingApprovals, NoPending, NoCall
  <2> QED BY <1>c, <2>1, <2>2, <2>3, <2>4, <2>5
<1>24. CASE StallOut
  <2>1. TypeOfRuns'
    BY <1>24, RunTypes, RunSays, LedgerTypes
    DEF StallOut, TypeOfRuns, OpenStatus, Verdicts, RunStatus, Outcomes
  <2>2. TypeOfFlags'
    BY <1>24, Zenon DEF StallOut, TypeOfFlags, webVars
  <2>3. TypeOfTask' /\ TypeOfTallies'
    BY <1>24, RunnerAssumption
    DEF StallOut, TypeOfTask, TypeOfTallies, LoopInv, InRound, Places,
        Awaiting, PendingApprovals, NoPending, NoCall
  <2>4. TypeOfRecords'
    BY <1>24 DEF StallOut, TypeOfRecords, TypeOfTask, LoopInv, EventKinds,
        PendingApprovals, NoCall
  <2>5. LoopInv'
    BY <1>24, RunnerAssumption DEF StallOut, LoopInv, InRound, TypeOfTask,
        TypeOfTallies, PendingApprovals, NoPending, NoCall
  <2> QED BY <1>c, <2>1, <2>2, <2>3, <2>4, <2>5
<1>25. CASE ReportStall
  <2>1. TypeOfRuns'
    BY <1>25, RunTypes, RunSays, LedgerTypes
    DEF ReportStall, TypeOfRuns, OpenStatus, Verdicts, RunStatus, Outcomes
  <2>2. TypeOfFlags'
    BY <1>25, Zenon DEF ReportStall, TypeOfFlags, webVars
  <2>3. TypeOfTask' /\ TypeOfTallies'
    BY <1>25, RunnerAssumption
    DEF ReportStall, TypeOfTask, TypeOfTallies, LoopInv, InRound, Places,
        Awaiting, PendingApprovals, NoPending, NoCall
  <2>4. TypeOfRecords'
    BY <1>25 DEF ReportStall, TypeOfRecords, TypeOfTask, LoopInv, EventKinds,
        PendingApprovals, NoCall
  <2>5. LoopInv'
    BY <1>25, RunnerAssumption DEF ReportStall, LoopInv, InRound, TypeOfTask,
        TypeOfTallies, PendingApprovals, NoPending, NoCall
  <2> QED BY <1>c, <2>1, <2>2, <2>3, <2>4, <2>5
<1>26. CASE Unwind
  <2>1. TypeOfRuns'
    BY <1>26, RunTypes, RunSays, LedgerTypes
    DEF Unwind, TypeOfRuns, OpenStatus, Verdicts, RunStatus, Outcomes
  <2>2. TypeOfFlags'
    BY <1>26, Zenon DEF Unwind, TypeOfFlags, webVars
  <2>3. TypeOfTask' /\ TypeOfTallies'
    BY <1>26, RunnerAssumption
    DEF Unwind, TypeOfTask, TypeOfTallies, LoopInv, InRound, Places, Awaiting,
        PendingApprovals, NoPending, NoCall
  <2>4. TypeOfRecords'
    BY <1>26 DEF Unwind, TypeOfRecords, TypeOfTask, LoopInv, EventKinds,
        PendingApprovals, NoCall
  <2>5. LoopInv'
    BY <1>26, RunnerAssumption DEF Unwind, LoopInv, InRound, TypeOfTask,
        TypeOfTallies, PendingApprovals, NoPending, NoCall
  <2> QED BY <1>c, <2>1, <2>2, <2>3, <2>4, <2>5
<1>27. CASE CloseServers
  <2>1. TypeOfRuns'
    BY <1>27, RunTypes, RunSays, LedgerTypes
    DEF CloseServers, TypeOfRuns, OpenStatus, Verdicts, RunStatus, Outcomes
  <2>2. TypeOfFlags'
    BY <1>27, Zenon DEF CloseServers, TypeOfFlags, webVars
  <2>3. TypeOfTask' /\ TypeOfTallies'
    BY <1>27, RunnerAssumption
    DEF CloseServers, TypeOfTask, TypeOfTallies, LoopInv, InRound, Places,
        Awaiting, PendingApprovals, NoPending, NoCall
  <2>4. TypeOfRecords'
    BY <1>27 DEF CloseServers, TypeOfRecords, TypeOfTask, LoopInv, EventKinds,
        PendingApprovals, NoCall
  <2>5. LoopInv'
    BY <1>27, RunnerAssumption DEF CloseServers, LoopInv, InRound, TypeOfTask,
        TypeOfTallies, PendingApprovals, NoPending, NoCall
  <2> QED BY <1>c, <2>1, <2>2, <2>3, <2>4, <2>5
<1>28. CASE RecordFailure
  <2>1. TypeOfRuns'
    BY <1>28, RunTypes, RunSays, LedgerTypes
    DEF RecordFailure, TypeOfRuns, OpenStatus, Verdicts, RunStatus, Outcomes
  <2>2. TypeOfFlags'
    BY <1>28, Zenon DEF RecordFailure, TypeOfFlags, webVars
  <2>3. TypeOfTask' /\ TypeOfTallies'
    BY <1>28, RunnerAssumption
    DEF RecordFailure, TypeOfTask, TypeOfTallies, LoopInv, InRound, Places,
        Awaiting, PendingApprovals, NoPending, NoCall
  <2>4. TypeOfRecords'
    BY <1>28 DEF RecordFailure, TypeOfRecords, TypeOfTask, LoopInv, EventKinds,
        PendingApprovals, NoCall
  <2>5. LoopInv'
    BY <1>28, RunnerAssumption DEF RecordFailure, LoopInv, InRound, TypeOfTask,
        TypeOfTallies, PendingApprovals, NoPending, NoCall
  <2> QED BY <1>c, <2>1, <2>2, <2>3, <2>4, <2>5
<1>29. CASE \E as \in Proposals : ModelProposes(as)
  <2>1. TypeOfRuns'
    <3>1. PICK as \in Proposals : ModelProposes(as)
      BY <1>29
    <3>2. Propose(run.ledger, as) \in Ledgers
      BY RunTypes, LedgerTypes DEF TypeOfRuns, Proposals, Absent, Outcomes
    <3> QED BY <3>1, <3>2, RunTypes DEF ModelProposes, TypeOfRuns
  <2>2. TypeOfFlags'
    BY <1>29, Zenon DEF ModelProposes, Proposals, Absent, TypeOfFlags, webVars
  <2>3. TypeOfTask' /\ TypeOfTallies'
    BY <1>29, RunnerAssumption
    DEF ModelProposes, Proposals, Absent, TypeOfTask, TypeOfTallies, LoopInv,
        InRound, Places, Awaiting, PendingApprovals, NoPending, NoCall
  <2>4. TypeOfRecords'
    BY <1>29 DEF ModelProposes, Proposals, Absent, TypeOfRecords, TypeOfTask,
        LoopInv, EventKinds, PendingApprovals, NoCall
  <2>5. LoopInv'
    BY <1>29, RunnerAssumption DEF ModelProposes, Proposals, Absent, LoopInv,
        InRound, TypeOfTask, TypeOfTallies, PendingApprovals, NoPending, NoCall
  <2> QED BY <1>c, <2>1, <2>2, <2>3, <2>4, <2>5
<1>30. ASSUME NEW a \in Actions, RefuseCall(a) PROVE TypeInv'
  <2>1. TypeOfRuns'
    BY <1>30, RunTypes, RunSays, LedgerTypes
    DEF RefuseCall, AnswerUnrun, AtCall, TypeOfRuns, OpenStatus, Verdicts,
        RunStatus, Outcomes
  <2>2. TypeOfFlags'
    BY <1>30, Zenon DEF RefuseCall, AnswerUnrun, AtCall, TypeOfFlags, webVars
  <2>3. TypeOfTask' /\ TypeOfTallies'
    BY <1>30, RunnerAssumption
    DEF RefuseCall, AnswerUnrun, AtCall, TypeOfTask, TypeOfTallies, LoopInv,
        InRound, Places, Awaiting, PendingApprovals, NoPending, NoCall
  <2>4. TypeOfRecords'
    BY <1>30 DEF RefuseCall, AnswerUnrun, AtCall, TypeOfRecords, TypeOfTask,
        LoopInv, EventKinds, PendingApprovals, NoCall
  <2>5. LoopInv'
    BY <1>30, RunnerAssumption DEF RefuseCall, AnswerUnrun, AtCall, LoopInv,
        InRound, TypeOfTask, TypeOfTallies, PendingApprovals, NoPending, NoCall
  <2> QED BY <1>c, <2>1, <2>2, <2>3, <2>4, <2>5
<1>31. ASSUME NEW a \in Actions, SkipCall(a) PROVE TypeInv'
  <2>1. TypeOfRuns'
    <3>1. PICK o \in {"skipped", "reused"} : AnswerUnrun(a, o)
      BY <1>31 DEF SkipCall
    <3>2. Answer(run.ledger, a, o) \in Ledgers
      BY RunTypes, LedgerTypes DEF TypeOfRuns, Outcomes
    <3> QED BY <3>1, <3>2, RunTypes DEF AnswerUnrun, TypeOfRuns
  <2>2. TypeOfFlags'
    BY <1>31, Zenon DEF SkipCall, AnswerUnrun, AtCall, TypeOfFlags, webVars
  <2>3. TypeOfTask' /\ TypeOfTallies'
    BY <1>31, RunnerAssumption
    DEF SkipCall, AnswerUnrun, AtCall, TypeOfTask, TypeOfTallies, LoopInv,
        InRound, Places, Awaiting, PendingApprovals, NoPending, NoCall
  <2>4. TypeOfRecords'
    BY <1>31 DEF SkipCall, AnswerUnrun, AtCall, TypeOfRecords, TypeOfTask,
        LoopInv, EventKinds, PendingApprovals, NoCall
  <2>5. LoopInv'
    BY <1>31, RunnerAssumption DEF SkipCall, AnswerUnrun, AtCall, LoopInv,
        InRound, TypeOfTask, TypeOfTallies, PendingApprovals, NoPending, NoCall
  <2> QED BY <1>c, <2>1, <2>2, <2>3, <2>4, <2>5
<1>32. ASSUME NEW a \in Actions, PlanCall(a) PROVE TypeInv'
  <2>1. TypeOfRuns'
    BY <1>32, RunTypes, RunSays, LedgerTypes
    DEF PlanCall, AtCall, TypeOfRuns, OpenStatus, Verdicts, RunStatus, Outcomes
  <2>2. TypeOfFlags'
    BY <1>32, Zenon DEF PlanCall, AtCall, TypeOfFlags, webVars
  <2>3. TypeOfTask' /\ TypeOfTallies'
    BY <1>32, RunnerAssumption
    DEF PlanCall, AtCall, TypeOfTask, TypeOfTallies, LoopInv, InRound, Places,
        Awaiting, PendingApprovals, NoPending, NoCall
  <2>4. TypeOfRecords'
    BY <1>32 DEF PlanCall, AtCall, TypeOfRecords, TypeOfTask, LoopInv,
        EventKinds, PendingApprovals, NoCall
  <2>5. LoopInv'
    BY <1>32, RunnerAssumption DEF PlanCall, AtCall, LoopInv, InRound,
        TypeOfTask, TypeOfTallies, PendingApprovals, NoPending, NoCall
  <2> QED BY <1>c, <2>1, <2>2, <2>3, <2>4, <2>5
<1>33. ASSUME NEW a \in Actions, InvalidPlan(a) PROVE TypeInv'
  <2>1. TypeOfRuns'
    BY <1>33, RunTypes, RunSays, LedgerTypes
    DEF InvalidPlan, AtCall, TypeOfRuns, OpenStatus, Verdicts, RunStatus,
        Outcomes
  <2>2. TypeOfFlags'
    BY <1>33, Zenon DEF InvalidPlan, AtCall, TypeOfFlags, webVars
  <2>3. TypeOfTask' /\ TypeOfTallies'
    BY <1>33, RunnerAssumption
    DEF InvalidPlan, AtCall, TypeOfTask, TypeOfTallies, LoopInv, InRound,
        Places, Awaiting, PendingApprovals, NoPending, NoCall
  <2>4. TypeOfRecords'
    BY <1>33 DEF InvalidPlan, AtCall, TypeOfRecords, TypeOfTask, LoopInv,
        EventKinds, PendingApprovals, NoCall
  <2>5. LoopInv'
    BY <1>33, RunnerAssumption DEF InvalidPlan, AtCall, LoopInv, InRound,
        TypeOfTask, TypeOfTallies, PendingApprovals, NoPending, NoCall
  <2> QED BY <1>c, <2>1, <2>2, <2>3, <2>4, <2>5
<1>34. ASSUME NEW a \in Actions, GiveUpPlanning(a) PROVE TypeInv'
  <2>1. TypeOfRuns'
    BY <1>34, RunTypes, RunSays, LedgerTypes
    DEF GiveUpPlanning, Raise, AtCall, TypeOfRuns, OpenStatus, Verdicts,
        RunStatus, Outcomes
  <2>2. TypeOfFlags'
    BY <1>34, Zenon DEF GiveUpPlanning, Raise, AtCall, TypeOfFlags, webVars
  <2>3. TypeOfTask' /\ TypeOfTallies'
    BY <1>34, RunnerAssumption
    DEF GiveUpPlanning, Raise, AtCall, TypeOfTask, TypeOfTallies, LoopInv,
        InRound, Places, Awaiting, PendingApprovals, NoPending, NoCall
  <2>4. TypeOfRecords'
    BY <1>34 DEF GiveUpPlanning, Raise, AtCall, TypeOfRecords, TypeOfTask,
        LoopInv, EventKinds, PendingApprovals, NoCall
  <2>5. LoopInv'
    BY <1>34, RunnerAssumption DEF GiveUpPlanning, Raise, AtCall, LoopInv,
        InRound, TypeOfTask, TypeOfTallies, PendingApprovals, NoPending, NoCall
  <2> QED BY <1>c, <2>1, <2>2, <2>3, <2>4, <2>5
<1>35. ASSUME NEW a \in Actions, ReachToolLimit(a) PROVE TypeInv'
  <2>1. TypeOfRuns'
    BY <1>35, RunTypes, RunSays, LedgerTypes
    DEF ReachToolLimit, Raise, AtCall, TypeOfRuns, OpenStatus, Verdicts,
        RunStatus, Outcomes
  <2>2. TypeOfFlags'
    BY <1>35, Zenon DEF ReachToolLimit, Raise, AtCall, TypeOfFlags, webVars
  <2>3. TypeOfTask' /\ TypeOfTallies'
    BY <1>35, RunnerAssumption
    DEF ReachToolLimit, Raise, AtCall, TypeOfTask, TypeOfTallies, LoopInv,
        InRound, Places, Awaiting, PendingApprovals, NoPending, NoCall
  <2>4. TypeOfRecords'
    BY <1>35 DEF ReachToolLimit, Raise, AtCall, TypeOfRecords, TypeOfTask,
        LoopInv, EventKinds, PendingApprovals, NoCall
  <2>5. LoopInv'
    BY <1>35, RunnerAssumption DEF ReachToolLimit, Raise, AtCall, LoopInv,
        InRound, TypeOfTask, TypeOfTallies, PendingApprovals, NoPending, NoCall
  <2> QED BY <1>c, <2>1, <2>2, <2>3, <2>4, <2>5
<1>36. ASSUME NEW a \in Actions, RunCall(a) PROVE TypeInv'
  <2>1. TypeOfRuns'
    BY <1>36, RunTypes, RunSays, LedgerTypes
    DEF RunCall, StartTool, AtCall, TypeOfRuns, OpenStatus, Verdicts,
        RunStatus, Outcomes
  <2>2. TypeOfFlags'
    BY <1>36, Zenon DEF RunCall, StartTool, AtCall, TypeOfFlags, webVars
  <2>3. TypeOfTask' /\ TypeOfTallies'
    BY <1>36, RunnerAssumption
    DEF RunCall, StartTool, AtCall, TypeOfTask, TypeOfTallies, LoopInv,
        InRound, Places, Awaiting, PendingApprovals, NoPending, NoCall
  <2>4. TypeOfRecords'
    BY <1>36 DEF RunCall, StartTool, AtCall, TypeOfRecords, TypeOfTask,
        LoopInv, EventKinds, PendingApprovals, NoCall
  <2>5. LoopInv'
    BY <1>36, RunnerAssumption DEF RunCall, StartTool, AtCall, LoopInv,
        InRound, TypeOfTask, TypeOfTallies, PendingApprovals, NoPending, NoCall
  <2> QED BY <1>c, <2>1, <2>2, <2>3, <2>4, <2>5
<1>37. ASSUME NEW a \in Actions, AskApproval(a) PROVE TypeInv'
  <2>1. TypeOfRuns'
    BY <1>37, RunTypes, RunSays, LedgerTypes
    DEF AskApproval, AtCall, TypeOfRuns, OpenStatus, Verdicts, RunStatus,
        Outcomes
  <2>2. TypeOfFlags'
    BY <1>37, Zenon DEF AskApproval, AtCall, TypeOfFlags, webVars
  <2>3. TypeOfTask' /\ TypeOfTallies'
    BY <1>37, RunnerAssumption
    DEF AskApproval, AtCall, TypeOfTask, TypeOfTallies, LoopInv, InRound,
        Places, Awaiting, PendingApprovals, NoPending, NoCall
  <2>4. TypeOfRecords'
    BY <1>37 DEF AskApproval, AtCall, TypeOfRecords, TypeOfTask, LoopInv,
        EventKinds, PendingApprovals, NoCall
  <2>5. LoopInv'
    BY <1>37, RunnerAssumption DEF AskApproval, AtCall, LoopInv, InRound,
        TypeOfTask, TypeOfTallies, PendingApprovals, NoPending, NoCall
  <2> QED BY <1>c, <2>1, <2>2, <2>3, <2>4, <2>5
<1>38. ASSUME NEW a \in Actions, RefuseUnoffered(a) PROVE TypeInv'
  <2>1. TypeOfRuns'
    BY <1>38, RunTypes, LedgerTypes DEF RefuseUnoffered, TypeOfRuns, Outcomes
  <2>2. TypeOfFlags'
    BY <1>38, Zenon DEF RefuseUnoffered, TypeOfFlags, webVars
  <2>3. TypeOfTask' /\ TypeOfTallies'
    BY <1>38 DEF RefuseUnoffered, TypeOfTask, TypeOfTallies
  <2>4. TypeOfRecords'
    BY <1>38 DEF RefuseUnoffered, TypeOfRecords
  <2>5. LoopInv'
    BY <1>38 DEF RefuseUnoffered, LoopInv
  <2> QED BY <1>c, <2>1, <2>2, <2>3, <2>4, <2>5
<1> QED
  BY <1>1, <1>2, <1>3, <1>4, <1>5, <1>6, <1>7, <1>8, <1>9, <1>10, <1>11, <1>12,
      <1>13, <1>14, <1>15, <1>16, <1>17, <1>18, <1>19, <1>20, <1>21, <1>22,
      <1>23, <1>24, <1>25, <1>26, <1>27, <1>28, <1>29, <1>30, <1>31, <1>32,
      <1>33, <1>34, <1>35, <1>36, <1>37, <1>38 DEF TaskStep, CallStep

\* So does every handler, callback, crash and start.
LEMMA HandlerTypes ==
    ASSUME TypeInv, ConsoleStep
    PROVE  TypeInv'
<1> USE DEF TypeInv, TypeOK, runnerVars, webVars, locals, tallies, records
<1>1. CASE StartTopic
  <2>1. TypeOfRuns'
    <3>1. WithStatus(NewRun, "created") \in Runs
      BY NewRunType, RunTypes DEF RunStatus, OpenStatus
    <3> QED BY <1>1, <3>1 DEF StartTopic, Launch, TypeOfRuns, WithStatus
  <2>2. TypeOfFlags'
    BY <1>1, Zenon DEF StartTopic, Launch, TypeOfFlags
  <2>3. TypeOfTask' /\ TypeOfTallies'
    BY <1>1, RunnerAssumption DEF StartTopic, Launch, TypeOfTask,
        TypeOfTallies, LoopInv, Places, Awaiting, PendingApprovals, NoPending,
        NoCall
  <2>4. TypeOfRecords'
    BY <1>1 DEF StartTopic, Launch, TypeOfRecords, EventKinds, Open
  <2>5. TypeOfConsole'
    BY <1>1, ConsoleAssumption DEF StartTopic, Launch, TypeOfConsole, Turns
  <2>6. LoopInv'
    BY <1>1, RunnerAssumption DEF StartTopic, Launch, LoopInv, InRound,
        TypeOfTask, PendingApprovals, NoPending, NoCall
  <2> QED BY <2>1, <2>2, <2>3, <2>4, <2>5, <2>6
<1>2. CASE FollowUp
  <2>1. TypeOfRuns'
    BY <1>2, RunTypes, RunSays, LedgerTypes, NewRunType DEF FollowUp, Launch,
        TypeOfRuns, OpenStatus, Verdicts, RunStatus, Outcomes
  <2>2. TypeOfFlags'
    BY <1>2, Zenon DEF FollowUp, Launch, TypeOfFlags
  <2>3. TypeOfTask' /\ TypeOfTallies'
    BY <1>2, RunnerAssumption DEF FollowUp, Launch, TypeOfTask, TypeOfTallies,
        LoopInv, Places, Awaiting, PendingApprovals, NoPending, NoCall
  <2>4. TypeOfRecords'
    BY <1>2 DEF FollowUp, Launch, TypeOfRecords, EventKinds, Open
  <2>5. TypeOfConsole'
    BY <1>2, ConsoleAssumption DEF FollowUp, Launch, TypeOfConsole, Turns
  <2>6. LoopInv'
    BY <1>2, RunnerAssumption DEF FollowUp, Launch, LoopInv, InRound,
        TypeOfTask, PendingApprovals, NoPending, NoCall
  <2> QED BY <2>1, <2>2, <2>3, <2>4, <2>5, <2>6
<1>3. ASSUME NEW t \in Turns, Release(t) PROVE TypeInv'
  <2>1. TypeOfRuns'
    BY <1>3, RunTypes, RunSays, LedgerTypes, NewRunType DEF Release,
        TypeOfRuns, OpenStatus, Verdicts, RunStatus, Outcomes
  <2>2. TypeOfFlags'
    BY <1>3, Zenon DEF Release, TypeOfFlags
  <2>3. TypeOfTask' /\ TypeOfTallies'
    BY <1>3, RunnerAssumption DEF Release, TypeOfTask, TypeOfTallies, LoopInv,
        Places, Awaiting, PendingApprovals, NoPending, NoCall
  <2>4. TypeOfRecords'
    BY <1>3 DEF Release, TypeOfRecords, EventKinds, Open
  <2>5. TypeOfConsole'
    BY <1>3, ConsoleAssumption DEF Release, TypeOfConsole, Turns
  <2>6. LoopInv'
    BY <1>3, RunnerAssumption DEF Release, LoopInv, InRound, TypeOfTask,
        PendingApprovals, NoPending, NoCall
  <2> QED BY <2>1, <2>2, <2>3, <2>4, <2>5, <2>6
<1>4. ASSUME NEW s \in Stoppers, RequestStop(s) PROVE TypeInv'
  <2>1. TypeOfRuns'
    BY <1>4, RunTypes, RunSays, LedgerTypes, NewRunType DEF RequestStop,
        TypeOfRuns, OpenStatus, Verdicts, RunStatus, Outcomes
  <2>2. TypeOfFlags'
    BY <1>4, Zenon DEF RequestStop, TypeOfFlags
  <2>3. TypeOfTask' /\ TypeOfTallies'
    BY <1>4, RunnerAssumption DEF RequestStop, TypeOfTask, TypeOfTallies,
        LoopInv, Places, Awaiting, PendingApprovals, NoPending, NoCall
  <2>4. TypeOfRecords'
    BY <1>4 DEF RequestStop, TypeOfRecords, EventKinds, Open
  <2>5. TypeOfConsole'
    BY <1>4, ConsoleAssumption DEF RequestStop, TypeOfConsole, Turns
  <2>6. LoopInv'
    BY <1>4, RunnerAssumption DEF RequestStop, LoopInv, InRound, TypeOfTask,
        PendingApprovals, NoPending, NoCall
  <2> QED BY <2>1, <2>2, <2>3, <2>4, <2>5, <2>6
<1>5. ASSUME NEW s \in Stoppers, StopAbandoned(s) PROVE TypeInv'
  <2>1. TypeOfRuns'
    BY <1>5, RunTypes, RunSays, LedgerTypes, NewRunType DEF StopAbandoned,
        TypeOfRuns, OpenStatus, Verdicts, RunStatus, Outcomes
  <2>2. TypeOfFlags'
    BY <1>5, Zenon DEF StopAbandoned, TypeOfFlags
  <2>3. TypeOfTask' /\ TypeOfTallies'
    BY <1>5, RunnerAssumption DEF StopAbandoned, TypeOfTask, TypeOfTallies,
        LoopInv, Places, Awaiting, PendingApprovals, NoPending, NoCall
  <2>4. TypeOfRecords'
    BY <1>5 DEF StopAbandoned, TypeOfRecords, EventKinds, Open
  <2>5. TypeOfConsole'
    BY <1>5, ConsoleAssumption DEF StopAbandoned, TypeOfConsole, Turns
  <2>6. LoopInv'
    BY <1>5, RunnerAssumption DEF StopAbandoned, LoopInv, InRound, TypeOfTask,
        PendingApprovals, NoPending, NoCall
  <2> QED BY <2>1, <2>2, <2>3, <2>4, <2>5, <2>6
<1>6. ASSUME NEW s \in Stoppers, FinishStop(s) PROVE TypeInv'
  <2>1. TypeOfRuns'
    BY <1>6, RunTypes, RunSays, LedgerTypes, NewRunType DEF FinishStop,
        TypeOfRuns, OpenStatus, Verdicts, RunStatus, Outcomes
  <2>2. TypeOfFlags'
    BY <1>6, Zenon DEF FinishStop, TypeOfFlags
  <2>3. TypeOfTask' /\ TypeOfTallies'
    BY <1>6, RunnerAssumption DEF FinishStop, TypeOfTask, TypeOfTallies,
        LoopInv, Places, Awaiting, PendingApprovals, NoPending, NoCall
  <2>4. TypeOfRecords'
    BY <1>6 DEF FinishStop, TypeOfRecords, EventKinds, Open
  <2>5. TypeOfConsole'
    BY <1>6, ConsoleAssumption DEF FinishStop, TypeOfConsole, Turns
  <2>6. LoopInv'
    BY <1>6, RunnerAssumption DEF FinishStop, LoopInv, InRound, TypeOfTask,
        PendingApprovals, NoPending, NoCall
  <2> QED BY <2>1, <2>2, <2>3, <2>4, <2>5, <2>6
<1>7. ASSUME NEW a \in Actions, DecideApproval(a) PROVE TypeInv'
  <2>1. TypeOfRuns'
    BY <1>7, RunTypes, RunSays, LedgerTypes, NewRunType DEF DecideApproval,
        TypeOfRuns, OpenStatus, Verdicts, RunStatus, Outcomes
  <2>2. TypeOfFlags'
    BY <1>7, Zenon DEF DecideApproval, TypeOfFlags
  <2>3. TypeOfTask' /\ TypeOfTallies'
    BY <1>7, RunnerAssumption DEF DecideApproval, TypeOfTask, TypeOfTallies,
        LoopInv, Places, Awaiting, PendingApprovals, NoPending, NoCall
  <2>4. TypeOfRecords'
    BY <1>7 DEF DecideApproval, TypeOfRecords, EventKinds, Open
  <2>5. TypeOfConsole'
    BY <1>7, ConsoleAssumption DEF DecideApproval, TypeOfConsole, Turns
  <2>6. LoopInv'
    BY <1>7, ActionsAssumption DEF DecideApproval, LoopInv, NoCall
  <2> QED BY <2>1, <2>2, <2>3, <2>4, <2>5, <2>6
<1>8. ASSUME NEW t \in Titles, Rename(t) PROVE TypeInv'
  <2>1. TypeOfRuns'
    <3>1. /\ [run EXCEPT !.title = t] \in Runs
          /\ [saved EXCEPT !.title = t] \in Runs
      BY RunTypes DEF TypeOfRuns
    <3>2. CASE Live
      BY <1>8, <3>1, <3>2 DEF Rename, TypeOfRuns
    <3>3. CASE ~Live
      BY <1>8, <3>1, <3>3 DEF Rename, TypeOfRuns
    <3> QED BY <3>2, <3>3
  <2>2. TypeOfFlags'
    BY <1>8, Zenon DEF Rename, TypeOfFlags
  <2>3. TypeOfTask' /\ TypeOfTallies'
    BY <1>8, RunnerAssumption DEF Rename, TypeOfTask, TypeOfTallies, LoopInv,
        Places, Awaiting, PendingApprovals, NoPending, NoCall
  <2>4. TypeOfRecords'
    BY <1>8 DEF Rename, TypeOfRecords, EventKinds, Open
  <2>5. TypeOfConsole'
    BY <1>8, ConsoleAssumption DEF Rename, TypeOfConsole, Turns
  <2>6. LoopInv'
    BY <1>8, RunnerAssumption DEF Rename, LoopInv, InRound, TypeOfTask,
        PendingApprovals, NoPending, NoCall
  <2> QED BY <2>1, <2>2, <2>3, <2>4, <2>5, <2>6
<1>9. CASE Delete
  <2>1. TypeOfRuns'
    BY <1>9, RunTypes, RunSays, LedgerTypes, NewRunType DEF Delete, TypeOfRuns,
        OpenStatus, Verdicts, RunStatus, Outcomes
  <2>2. TypeOfFlags'
    BY <1>9, Zenon DEF Delete, TypeOfFlags
  <2>3. TypeOfTask' /\ TypeOfTallies'
    BY <1>9, RunnerAssumption DEF Delete, TypeOfTask, TypeOfTallies, LoopInv,
        Places, Awaiting, PendingApprovals, NoPending, NoCall
  <2>4. TypeOfRecords'
    BY <1>9 DEF Delete, TypeOfRecords, EventKinds, Open
  <2>5. TypeOfConsole'
    BY <1>9, ConsoleAssumption DEF Delete, TypeOfConsole, Turns
  <2>6. LoopInv'
    BY <1>9, RunnerAssumption DEF Delete, LoopInv, InRound, TypeOfTask,
        PendingApprovals, NoPending, NoCall
  <2> QED BY <2>1, <2>2, <2>3, <2>4, <2>5, <2>6
<1>10. CASE Crash
  <2>1. TypeOfRuns'
    BY <1>10, RunTypes, RunSays, LedgerTypes, NewRunType DEF Crash, Forget,
        TypeOfRuns, OpenStatus, Verdicts, RunStatus, Outcomes
  <2>2. TypeOfFlags'
    BY <1>10, Zenon DEF Crash, Forget, TypeOfFlags
  <2>3. TypeOfTask' /\ TypeOfTallies'
    BY <1>10, RunnerAssumption DEF Crash, Forget, TypeOfTask, TypeOfTallies,
        LoopInv, Places, Awaiting, PendingApprovals, NoPending, NoCall
  <2>4. TypeOfRecords'
    BY <1>10 DEF Crash, Forget, TypeOfRecords, EventKinds, Open
  <2>5. TypeOfConsole'
    BY <1>10, ConsoleAssumption DEF Crash, Forget, TypeOfConsole, Turns
  <2>6. LoopInv'
    BY <1>10, RunnerAssumption DEF Crash, Forget, LoopInv, InRound, TypeOfTask,
        PendingApprovals, NoPending, NoCall
  <2> QED BY <2>1, <2>2, <2>3, <2>4, <2>5, <2>6
<1>11. CASE Shutdown
  <2>1. TypeOfRuns'
    BY <1>11, RunTypes, RunSays, LedgerTypes, NewRunType DEF Shutdown,
        TypeOfRuns, OpenStatus, Verdicts, RunStatus, Outcomes
  <2>2. TypeOfFlags'
    BY <1>11, Zenon DEF Shutdown, TypeOfFlags
  <2>3. TypeOfTask' /\ TypeOfTallies'
    BY <1>11, RunnerAssumption DEF Shutdown, TypeOfTask, TypeOfTallies,
        LoopInv, Places, Awaiting, PendingApprovals, NoPending, NoCall
  <2>4. TypeOfRecords'
    BY <1>11 DEF Shutdown, TypeOfRecords, EventKinds, Open
  <2>5. TypeOfConsole'
    BY <1>11, ConsoleAssumption DEF Shutdown, TypeOfConsole, Turns
  <2>6. LoopInv'
    BY <1>11, RunnerAssumption DEF Shutdown, LoopInv, InRound, TypeOfTask,
        PendingApprovals, NoPending, NoCall
  <2> QED BY <2>1, <2>2, <2>3, <2>4, <2>5, <2>6
<1>12. CASE Leave
  <2>1. TypeOfRuns'
    BY <1>12, RunTypes, RunSays, LedgerTypes, NewRunType DEF Leave, Forget,
        TypeOfRuns, OpenStatus, Verdicts, RunStatus, Outcomes
  <2>2. TypeOfFlags'
    BY <1>12, Zenon DEF Leave, Forget, TypeOfFlags
  <2>3. TypeOfTask' /\ TypeOfTallies'
    BY <1>12, RunnerAssumption DEF Leave, Forget, TypeOfTask, TypeOfTallies,
        LoopInv, Places, Awaiting, PendingApprovals, NoPending, NoCall
  <2>4. TypeOfRecords'
    BY <1>12 DEF Leave, Forget, TypeOfRecords, EventKinds, Open
  <2>5. TypeOfConsole'
    BY <1>12, ConsoleAssumption DEF Leave, Forget, TypeOfConsole, Turns
  <2>6. LoopInv'
    BY <1>12, RunnerAssumption DEF Leave, Forget, LoopInv, InRound, TypeOfTask,
        PendingApprovals, NoPending, NoCall
  <2> QED BY <2>1, <2>2, <2>3, <2>4, <2>5, <2>6
<1>13. CASE Recover
  <2>1. TypeOfRuns'
    <3>1. [saved EXCEPT !.status = "interrupted", !.ledger = Repair(@)] \in Runs
      BY RunSays DEF TypeOfRuns, RunStatus, Verdicts, Outcomes
    <3> QED BY <1>13, <3>1 DEF Recover, TypeOfRuns
  <2>2. TypeOfFlags'
    BY <1>13, Zenon DEF Recover, TypeOfFlags
  <2>3. TypeOfTask' /\ TypeOfTallies'
    BY <1>13, RunnerAssumption DEF Recover, TypeOfTask, TypeOfTallies, LoopInv,
        Places, Awaiting, PendingApprovals, NoPending, NoCall
  <2>4. TypeOfRecords'
    BY <1>13 DEF Recover, TypeOfRecords, EventKinds, Open
  <2>5. TypeOfConsole'
    BY <1>13, ConsoleAssumption DEF Recover, TypeOfConsole, Turns
  <2>6. LoopInv'
    BY <1>13, RunnerAssumption DEF Recover, LoopInv, InRound, TypeOfTask,
        PendingApprovals, NoPending, NoCall
  <2> QED BY <2>1, <2>2, <2>3, <2>4, <2>5, <2>6
<1>14. CASE StartUnreconciled
  <2>1. TypeOfRuns'
    BY <1>14, RunTypes, RunSays, LedgerTypes, NewRunType DEF StartUnreconciled,
        TypeOfRuns, OpenStatus, Verdicts, RunStatus, Outcomes
  <2>2. TypeOfFlags'
    BY <1>14, Zenon DEF StartUnreconciled, TypeOfFlags
  <2>3. TypeOfTask' /\ TypeOfTallies'
    BY <1>14, RunnerAssumption DEF StartUnreconciled, TypeOfTask,
        TypeOfTallies, LoopInv, Places, Awaiting, PendingApprovals, NoPending,
        NoCall
  <2>4. TypeOfRecords'
    BY <1>14 DEF StartUnreconciled, TypeOfRecords, EventKinds, Open
  <2>5. TypeOfConsole'
    BY <1>14, ConsoleAssumption DEF StartUnreconciled, TypeOfConsole, Turns
  <2>6. LoopInv'
    BY <1>14, RunnerAssumption DEF StartUnreconciled, LoopInv, InRound,
        TypeOfTask, PendingApprovals, NoPending, NoCall
  <2> QED BY <2>1, <2>2, <2>3, <2>4, <2>5, <2>6
<1> QED
  BY <1>1, <1>2, <1>3, <1>4, <1>5, <1>6, <1>7, <1>8, <1>9, <1>10, <1>11, <1>12,
      <1>13, <1>14 DEF ConsoleStep

\* [Next]_vars preserves the invariant.
LEMMA TypeStep == TypeInv /\ [Next]_vars => TypeInv'
<1> SUFFICES ASSUME TypeInv, [Next]_vars PROVE TypeInv'
  OBVIOUS
<1>1. CASE Execute
  BY <1>1, TaskTypes DEF Execute
<1>2. CASE ConsoleStep
  BY <1>2, HandlerTypes
<1>3. CASE UNCHANGED vars
  <2>1. TypeOfFlags'
    BY <1>3, Zenon
    DEF vars, runnerVars, webVars, TypeInv, TypeOK, TypeOfFlags
  <2>2. /\ TypeOfRuns' /\ TypeOfTask' /\ TypeOfTallies' /\ TypeOfRecords'
        /\ TypeOfConsole' /\ LoopInv'
    BY <1>3
    DEF vars, runnerVars, webVars, TypeInv, TypeOK, LoopInv, TypeOfRuns,
        TypeOfTask, TypeOfTallies, TypeOfRecords, TypeOfConsole
  <2> QED BY <2>1, <2>2 DEF TypeInv, TypeOK
<1> QED BY <1>1, <1>2, <1>3 DEF Next

\* Every variable keeps its type, and the counters their bounds, however the
\* execution, the handlers and the deaths of the process interleave.
THEOREM TypeCorrect == Spec => []TypeOK
<1>1. Spec => []TypeInv
  BY TypeInit, TypeStep, PTL DEF Spec
<1>2. TypeInv => TypeOK
  BY DEF TypeInv
<1> QED BY <1>1, <1>2, PTL
=============================================================================
