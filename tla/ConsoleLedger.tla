---------------------------- MODULE ConsoleLedger ----------------------------
(***************************************************************************)
(* What WebConsole records, for every value of its constants: effects and  *)
(* answers agree, events follow the ledger, verdicts and titles stay, and  *)
(* the topic lives as RunLifecycle says.                                   *)
(***************************************************************************)
EXTENDS ConsoleSafety, FiniteSetTheorems

----------------------------------------------------------------------------
(* What the operators of Ledger and AgentRunner return.                     *)

\* The parts of a run after one of them is replaced.
LEMMA RunParts ==
    ASSUME NEW r \in Runs
    PROVE  /\ \A l : /\ WithLedger(r, l).ledger = l
                     /\ WithLedger(r, l).status = r.status
                     /\ WithLedger(r, l).title = r.title
           /\ \A s : /\ WithStatus(r, s).ledger = r.ledger
                     /\ WithStatus(r, s).status = s
                     /\ WithStatus(r, s).title = r.title
           /\ \A s, l : LET q == [r EXCEPT !.status = s, !.ledger = l]
                        IN  q.ledger = l /\ q.status = s /\ q.title = r.title
           /\ \A t : LET q == [r EXCEPT !.title = t]
                     IN  q.ledger = r.ledger /\ q.status = r.status /\ q.title = t
BY DEF Runs, WithLedger, WithStatus

\* The answers and the last group after each operation on a ledger.
LEMMA LedgerParts ==
    ASSUME NEW l \in Ledgers
    PROVE  /\ Say(l).result = l.result /\ Say(l).tail = {}
           /\ \A cs : /\ Propose(l, cs).tail = cs
                      /\ \A b \in Actions : Propose(l, cs).result[b] =
                            IF b \in cs THEN "open" ELSE l.result[b]
           /\ \A a, o : /\ Answer(l, a, o).tail = l.tail
                        /\ \A b \in Actions : Answer(l, a, o).result[b] =
                              IF b = a THEN o ELSE l.result[b]
           /\ \A o : /\ RecordUnfinished(l, o).tail = l.tail
                     /\ \A b \in Actions : RecordUnfinished(l, o).result[b] =
                           IF b \in Open(l) \cap l.tail THEN o ELSE l.result[b]
           /\ \A b \in Actions : Repair(l).result[b] =
                 IF b \in Open(l) THEN "interrupted" ELSE l.result[b]
<1> USE DEF Ledgers
<1>1. Say(l).result = l.result /\ Say(l).tail = {}
  BY DEF Say
<1>2. ASSUME NEW cs
      PROVE  /\ Propose(l, cs).tail = cs
             /\ \A b \in Actions : Propose(l, cs).result[b] =
                   IF b \in cs THEN "open" ELSE l.result[b]
  BY DEF Propose
<1>3. ASSUME NEW a, NEW o
      PROVE  /\ Answer(l, a, o).tail = l.tail
             /\ \A b \in Actions : Answer(l, a, o).result[b] =
                   IF b = a THEN o ELSE l.result[b]
  BY DEF Answer
<1>4. ASSUME NEW o
      PROVE  /\ RecordUnfinished(l, o).tail = l.tail
             /\ \A b \in Actions : RecordUnfinished(l, o).result[b] =
                   IF b \in Open(l) \cap l.tail THEN o ELSE l.result[b]
  BY DEF RecordUnfinished, Open
<1>5. \A b \in Actions : Repair(l).result[b] =
          IF b \in Open(l) THEN "interrupted" ELSE l.result[b]
  BY DEF Repair, Open
<1> QED BY <1>1, <1>2, <1>3, <1>4, <1>5

----------------------------------------------------------------------------
(* What a step of the coroutine does to the ledgers.                        *)

Same(r, q) ==
    \A b \in Actions : q.ledger.result[b] = r.ledger.result[b]

\* It says something, or nothing: no answer changes.
Talks ==
    /\ pc \notin Resting \cup (InGroup \ {"calls"}) /\ pc' \notin InGroup
    /\ GroupOpen(run) = {}
    /\ Same(run, run') /\ Same(saved, saved')
    /\ run'.ledger.tail \subseteq run.ledger.tail
    /\ UNCHANGED <<events, checkpoints, ran>>

\* New calls are proposed.
Proposes(cs) ==
    /\ pc = "chat" /\ pc' = "calls" /\ cs \subseteq Absent(run.ledger)
    /\ run'.ledger.tail = cs
    /\ \A b \in Actions : run'.ledger.result[b] =
          IF b \in cs THEN "open" ELSE run.ledger.result[b]
    /\ Same(run', saved')
    /\ UNCHANGED <<events, checkpoints, ran>>

\* An open call is answered, and the answer saved.
Answers(a, o) ==
    /\ pc \in {"calls", "approve", "tool", "reply"} /\ pc' \in {"calls", "announce"}
    /\ a \in GroupOpen(run) /\ o \in Outcomes
    /\ pc # "calls" => a = at
    /\ pc' = "announce" => at' = a
    /\ o = "succeeded" => a \in Planning
    /\ pc = "reply" => o = "failed"
    /\ run'.ledger.tail = run.ledger.tail
    /\ \A b \in Actions : run'.ledger.result[b] =
          IF b = a THEN o ELSE run.ledger.result[b]
    /\ Same(run', saved')
    /\ UNCHANGED <<events, checkpoints, ran>>

\* A call goes to the gate or to its tool.
Starts(a, kind) ==
    /\ pc \in {"calls", "approve"} /\ pc' \in {"approve", "tool"}
    /\ a \in GroupOpen(run) /\ at' = a
    /\ pc' = "approve" => pending'.call = a
    /\ run'.ledger.tail = run.ledger.tail
    /\ Same(run, run') /\ Same(run, saved')
    /\ kind \in {"required", "started"} /\ events' = events \cup {<<kind, a>>}
    /\ UNCHANGED <<checkpoints, ran>>

\* The rest of the group is answered on the way out.
Closes(o) ==
    /\ pc \in {"calls", "approve", "tool", "reply"} /\ pc' = "unwind"
    /\ o \in {"failed", "cancelled"}
    /\ run'.ledger.tail = run.ledger.tail
    /\ \A b \in Actions : run'.ledger.result[b] =
          IF b \in GroupOpen(run) THEN o ELSE run.ledger.result[b]
    /\ Same(run', saved')
    /\ UNCHANGED <<events, checkpoints, ran>>

Shapes ==
    \/ Talks
    \/ \E cs \in SUBSET Actions : Proposes(cs)
    \/ \E a \in Actions, o \in Outcomes : Answers(a, o)
    \/ \E a \in Actions : \E kind \in {"required", "started"} : Starts(a, kind)
    \/ \E o \in {"failed", "cancelled"} : Closes(o)
    \/ TakeEffect \/ ToolSucceeds \/ SaveResult \/ Announce

\* Every step of the coroutine has one of these shapes.
LEMMA TaskShape ==
    ASSUME TypeInv, LifeInv, LedgerInv, TaskStep
    PROVE  Shapes
<1> USE DEF Resting, InGroup, locals, tallies, records
<1>r. run \in Runs /\ saved \in Runs /\ run.ledger \in Ledgers /\ saved.ledger \in Ledgers
  BY RunTypes DEF TypeInv, TypeOK, TypeOfRuns
<1>a. \A a \in Actions : AtCall(a) => pc = "calls" /\ a \in GroupOpen(run)
  BY DEF AtCall
<1>o. pc \notin Resting \cup InGroup => GroupOpen(run) = {}
  BY DEF LedgerInv
<1>g. GroupOpen(run) = Open(run.ledger) \cap run.ledger.tail
  BY DEF GroupOpen
<1>s. /\ Say(run.ledger).result = run.ledger.result /\ Say(run.ledger).tail = {}
      /\ Say(saved.ledger).result = saved.ledger.result
  BY <1>r, LedgerParts
<1>c. ASSUME NEW o, NEW q, q = WithLedger(run, RecordUnfinished(run.ledger, o))
      PROVE  /\ q.ledger.tail = run.ledger.tail /\ q.status = run.status
             /\ \A b \in Actions : q.ledger.result[b] =
                   IF b \in GroupOpen(run) THEN o ELSE run.ledger.result[b]
             /\ \A s : WithStatus(q, s).ledger = q.ledger
  <2>1. q.ledger = RecordUnfinished(run.ledger, o) /\ q.status = run.status
    BY <1>r, <1>c, RunParts
  <2>2. \A s : WithStatus(q, s).ledger = q.ledger
    BY <1>r, <1>c DEF WithStatus, WithLedger, Runs
  <2> QED BY <1>r, <1>g, <2>1, <2>2, LedgerParts
<1>e. pc \notin Resting \cup {"record"} =>
        \A b \in Actions : saved.ledger.result[b] = run.ledger.result[b]
  BY DEF LedgerInv
<1>1. ASSUME Begin PROVE Talks
  BY <1>o, <1>r, <1>s, <1>e, <1>1, RunParts DEF Begin, Talks, Same
<1>2. ASSUME InitFails PROVE Talks
  BY <1>o, <1>r, <1>s, <1>e, <1>2, RunParts DEF InitFails, Talks, Same
<1>3. ASSUME StartLoop PROVE Talks
  BY <1>o, <1>r, <1>s, <1>e, <1>3, RunParts DEF StartLoop, Talks, Same
<1>4. ASSUME BuildContext PROVE Talks
  BY <1>o, <1>r, <1>s, <1>e, <1>4, RunParts DEF BuildContext, Talks, Same
<1>5. ASSUME OverBudget PROVE Talks
  BY <1>o, <1>r, <1>s, <1>e, <1>5, RunParts DEF OverBudget, Talks, Same
<1>6. ASSUME ReportOverBudget PROVE Talks
  BY <1>o, <1>r, <1>s, <1>e, <1>6, RunParts DEF ReportOverBudget, Talks, Same
<1>7. ASSUME ModelRetries PROVE Talks
  BY <1>o, <1>r, <1>s, <1>e, <1>7, RunParts DEF ModelRetries, Talks, Same
<1>8. ASSUME ModelAnswers PROVE Talks
  BY <1>o, <1>r, <1>s, <1>e, <1>8, RunParts DEF ModelAnswers, Talks, Same
<1>9. ASSUME ReviewAgain PROVE Talks
  BY <1>o, <1>r, <1>s, <1>e, <1>9, RunParts DEF ReviewAgain, Talks, Same
<1>10. ASSUME AcceptAnswer PROVE Talks
  BY <1>o, <1>r, <1>s, <1>e, <1>10, RunParts DEF AcceptAnswer, Talks, Same
<1>11. ASSUME Deliver PROVE Talks
  BY <1>o, <1>r, <1>s, <1>e, <1>11, RunParts DEF Deliver, Talks, Same
<1>12. ASSUME NextRound PROVE Talks
  BY <1>o, <1>r, <1>s, <1>e, <1>12, RunParts DEF NextRound, Talks, Same
<1>13. ASSUME StallOut PROVE Talks
  BY <1>o, <1>r, <1>s, <1>e, <1>13, RunParts DEF StallOut, Talks, Same
<1>14. ASSUME ReportStall PROVE Talks
  BY <1>o, <1>r, <1>s, <1>e, <1>14, RunParts DEF ReportStall, Talks, Same
<1>15. ASSUME Unwind PROVE Talks
  BY <1>o, <1>r, <1>s, <1>e, <1>15, RunParts DEF Unwind, Talks, Same
<1>16. ASSUME CloseServers PROVE Talks
  BY <1>o, <1>r, <1>s, <1>e, <1>16, RunParts DEF CloseServers, Talks, Same
<1>17. ASSUME RecordFailure PROVE Talks
  BY <1>o, <1>r, <1>s, <1>e, <1>17, RunParts DEF RecordFailure, Talks, Same
<1>18. ASSUME AnswerInquiry PROVE Talks
  <2>1. PICK verdict : /\ run' = [run EXCEPT !.status = verdict, !.ledger = Say(@)]
                       /\ saved' = run'
    BY <1>18 DEF AnswerInquiry
  <2>2. run'.ledger = Say(run.ledger)
    BY <1>r, <2>1, RunParts
  <2> QED BY <1>o, <1>s, <1>e, <1>18, <2>1, <2>2 DEF AnswerInquiry, Talks, Same
<1>19. ASSUME NoTurn \/ ModelFails PROVE Talks
  <2>1. PICK q : q = WithLedger(run, RecordUnfinished(run.ledger, "failed"))
    OBVIOUS
  <2>2. Raise /\ pc \in {"turn", "chat"}
    BY <1>19 DEF NoTurn, ModelFails
  <2>3. run'.ledger = q.ledger /\ saved' = saved /\ pc' = "unwind"
    BY <1>c, <2>1, <2>2 DEF Raise
  <2>4. UNCHANGED <<events, checkpoints, ran>>
    BY <2>2 DEF Raise
  <2> QED BY <1>o, <1>c, <2>1, <2>2, <2>3, <2>4 DEF Talks, Same
<1>20. ASSUME DeliverCancel
       PROVE  Talks \/ Closes("cancelled")
  <2>1. PICK q : q = WithLedger(run, RecordUnfinished(run.ledger, "cancelled"))
    OBVIOUS
  <2>2. UNCHANGED <<events, checkpoints, ran>>
    BY <1>20 DEF DeliverCancel
  <2>3. CASE pc \in {"queued", "connect", "close", "over_budget", "unwind"}
    <3>1. pc' \notin InGroup /\ UNCHANGED <<run, saved>>
      BY <1>20, <2>3 DEF DeliverCancel
    <3> QED BY <1>o, <2>2, <2>3, <3>1 DEF Talks, Same
  <2>4. CASE pc \in {"inquiry", "chat", "judge", "stalling"}
    <3>1. pc' = "unwind" /\ CancelOutside
      BY <1>20, <2>4 DEF DeliverCancel
    <3>2. run'.ledger = q.ledger /\ saved' = saved
      BY <1>c, <2>1, <3>1 DEF CancelOutside
    <3> QED BY <1>o, <1>c, <2>1, <2>2, <2>4, <3>1, <3>2 DEF Talks, Same
  <2>5. CASE pc \in {"approve", "tool", "reply"}
    <3>1. pc' = "unwind" /\ CancelInside
      BY <1>20, <2>5 DEF DeliverCancel
    <3>2. run'.ledger = q.ledger /\ saved' = q
      BY <1>c, <2>1, <3>1 DEF CancelInside
    <3> QED BY <1>c, <2>1, <2>2, <2>5, <3>1, <3>2 DEF Closes, Same
  <2> QED BY <1>20, <2>3, <2>4, <2>5 DEF DeliverCancel
<1>21. ASSUME NEW a \in Actions, GiveUpPlanning(a) \/ ReachToolLimit(a)
       PROVE  Closes("failed")
  <2>1. PICK q : q = WithLedger(run, RecordUnfinished(run.ledger, "failed"))
    OBVIOUS
  <2>2. Raise /\ pc = "calls"
    BY <1>21, <1>a DEF GiveUpPlanning, ReachToolLimit
  <2>3. run'.ledger = q.ledger /\ saved' = q /\ pc' = "unwind"
    BY <1>c, <2>1, <2>2 DEF Raise
  <2>4. UNCHANGED <<events, checkpoints, ran>>
    BY <2>2 DEF Raise
  <2> QED BY <1>c, <2>1, <2>2, <2>3, <2>4 DEF Closes, Same
<1>22. ASSUME NEW cs \in Proposals, ModelProposes(cs) PROVE Proposes(cs)
  <2>1. /\ run' = WithLedger(run, Propose(run.ledger, cs)) /\ saved' = run'
        /\ pc = "chat" /\ pc' = "calls" /\ cs \subseteq Absent(run.ledger)
        /\ UNCHANGED <<events, checkpoints, ran>>
    BY <1>22 DEF ModelProposes, Proposals
  <2>2. WithLedger(run, Propose(run.ledger, cs)).ledger = Propose(run.ledger, cs)
    BY <1>r, RunParts
  <2>3. run'.ledger = Propose(run.ledger, cs)
    BY <2>1, <2>2
  <2>4. /\ run'.ledger.tail = cs
        /\ \A b \in Actions : run'.ledger.result[b] =
              IF b \in cs THEN "open" ELSE run.ledger.result[b]
    BY <1>r, <2>3, LedgerParts
  <2> QED BY <2>1, <2>4 DEF Proposes, Same
<1>w. ASSUME NEW a, NEW o
      PROVE  LET q == WithLedger(run, Answer(run.ledger, a, o))
             IN  /\ q.ledger.tail = run.ledger.tail
                 /\ \A b \in Actions : q.ledger.result[b] =
                       IF b = a THEN o ELSE run.ledger.result[b]
  <2>1. WithLedger(run, Answer(run.ledger, a, o)).ledger = Answer(run.ledger, a, o)
    BY <1>r, RunParts
  <2> QED BY <1>r, <2>1, LedgerParts
<1>u. ASSUME NEW a \in Actions, NEW o \in Outcomes, AtCall(a),
             o = "succeeded" => a \in Planning,
             run' = WithLedger(run, Answer(run.ledger, a, o)), saved' = run',
             pc' \in {"calls", "announce"}, pc' = "announce" => at' = a,
             UNCHANGED <<events, checkpoints, ran>>
      PROVE  Answers(a, o)
  BY <1>a, <1>w, <1>u DEF Answers, Same
<1>23. ASSUME NEW a \in Actions, RefuseCall(a) PROVE Answers(a, "denied")
  <2>1. "denied" \in Outcomes
    BY DEF Outcomes
  <2> QED BY <1>u, <1>23, <2>1 DEF RefuseCall, AnswerUnrun
<1>24. ASSUME NEW a \in Actions, RefuseUnoffered(a) PROVE Answers(a, "denied")
  <2>1. /\ "denied" \in Outcomes /\ AtCall(a) /\ pc' = "calls" /\ saved' = run'
        /\ run' = WithLedger(run, Answer(run.ledger, a, "denied"))
        /\ UNCHANGED <<events, checkpoints, ran>>
    BY <1>a, <1>24 DEF Outcomes, RefuseUnoffered
  <2> QED BY <1>u, <2>1
<1>25. ASSUME NEW a \in Actions, SkipCall(a) PROVE \E o \in Outcomes : Answers(a, o)
  <2>1. PICK o \in {"skipped", "reused"} : AnswerUnrun(a, o)
    BY <1>25 DEF SkipCall
  <2>2. o \in Outcomes /\ o # "succeeded" /\ AtCall(a)
    BY <1>25 DEF Outcomes, SkipCall
  <2>3. Answers(a, o)
    BY <1>u, <2>1, <2>2 DEF AnswerUnrun
  <2> QED BY <2>2, <2>3
<1>26. ASSUME NEW a \in Actions, PlanCall(a) \/ InvalidPlan(a)
       PROVE  \E o \in Outcomes : Answers(a, o)
  <2>1. /\ AtCall(a) /\ a \in Planning /\ pc' = "calls" /\ saved' = run'
        /\ UNCHANGED <<events, checkpoints, ran>>
    BY <1>a, <1>26 DEF PlanCall, InvalidPlan
  <2>2. PICK o \in {"succeeded", "failed", "skipped"} :
           run' = WithLedger(run, Answer(run.ledger, a, o))
    BY <1>26 DEF PlanCall, InvalidPlan
  <2>3. o \in Outcomes
    BY DEF Outcomes
  <2>4. Answers(a, o)
    <3>1. pc' \in {"calls", "announce"} /\ (pc' = "announce" => at' = a)
      BY <2>1
    <3> QED BY <1>u, <2>1, <2>2, <2>3, <3>1
  <2> QED BY <2>3, <2>4
<1>27. ASSUME Declined PROVE at \in Actions /\ Answers(at, "denied")
  <2>1. pc = "approve" /\ pending.call = at /\ at \in GroupOpen(run)
    BY <1>27 DEF Declined, LedgerInv
  <2>2. run'.ledger = Answer(run.ledger, at, "denied") /\ saved' = run'
    BY <1>r, <1>27, <2>1, RunParts DEF Declined
  <2>3. /\ pc' = "announce" /\ at' = at /\ "denied" \in Outcomes
        /\ UNCHANGED <<events, checkpoints, ran>>
    BY <1>27 DEF Declined, Outcomes
  <2>4. at \in Actions
    BY <2>1 DEF GroupOpen, Open
  <2> QED BY <1>r, <2>1, <2>2, <2>3, <2>4, LedgerParts DEF Answers, Same
<1>28. ASSUME ToolFails PROVE at \in Actions /\ Answers(at, "failed")
  <2>1. pc \in {"tool", "reply"} /\ at \in GroupOpen(run)
    BY <1>28 DEF ToolFails, LedgerInv
  <2>2. run'.ledger = Answer(run.ledger, at, "failed") /\ saved' = run'
    BY <1>r, <1>28, RunParts DEF ToolFails
  <2>3. /\ pc' = "announce" /\ at' = at /\ "failed" \in Outcomes
        /\ UNCHANGED <<events, checkpoints, ran>>
    BY <1>28 DEF ToolFails, Outcomes
  <2>4. at \in Actions
    BY <2>1 DEF GroupOpen, Open
  <2> QED BY <1>r, <2>1, <2>2, <2>3, <2>4, LedgerParts DEF Answers, Same
<1>29. ASSUME NEW a \in Actions, RunCall(a) PROVE Starts(a, "started")
  BY <1>a, <1>29 DEF RunCall, StartTool, Starts, Same
<1>30. ASSUME NEW a \in Actions, AskApproval(a) PROVE Starts(a, "required")
  <2>1. run'.ledger = run.ledger /\ saved' = run'
    BY <1>r, <1>30, RunParts DEF AskApproval
  <2> QED BY <1>a, <1>30, <2>1 DEF AskApproval, Starts, Same
<1>31. ASSUME Approved PROVE at \in Actions /\ Starts(at, "started")
  <2>1. pc = "approve" /\ pending.call = at /\ at \in GroupOpen(run)
    BY <1>31 DEF Approved, LedgerInv
  <2>2. run'.ledger = run.ledger /\ saved' = run'
    BY <1>r, <1>31, RunParts DEF Approved, StartTool
  <2>3. at \in Actions
    BY <2>1 DEF GroupOpen, Open
  <2> QED BY <1>31, <2>1, <2>2, <2>3 DEF Approved, StartTool, Starts, Same
<1>x. "denied" \in Outcomes /\ "failed" \in Outcomes
  BY DEF Outcomes
<1>p. Proposals \subseteq SUBSET Actions
  BY DEF Proposals, Absent
<1> QED
  BY <1>1, <1>2, <1>3, <1>4, <1>5, <1>6, <1>7, <1>8, <1>9, <1>10, <1>11, <1>12,
      <1>13, <1>14, <1>15, <1>16, <1>17, <1>18, <1>19, <1>20, <1>21, <1>22,
      <1>23, <1>24, <1>25, <1>26, <1>27, <1>28, <1>29, <1>30, <1>31, <1>x, <1>p
  DEF TaskStep, CallStep, Shapes

\* At work there is a file, and nobody has deleted the topic.
LEMMA AtWorkIsPresent ==
    ASSUME TypeInv, LifeInv, ProcessInv, pc \notin Resting
    PROVE  Present /\ turn \in Nat /\ turn > 0 /\ registered = turn /\ ~deleted
<1>1. turn > 0 /\ ~deleted
  BY DEF LifeInv
<1>2. turn \in Nat
  BY ConsoleAssumption DEF TypeInv, TypeOK, TypeOfConsole
<1>3. registered = turn
  BY <1>2 DEF LifeInv, LiveIsRegistered, TaskDone, Resting
<1> QED BY <1>1, <1>2, <1>3 DEF ProcessInv

\* Every step of the coroutine keeps the ledgers together, with the effects
\* and the events: runner.py saves before it publishes, and answers what it
\* leaves open.
LEMMA TaskLedger ==
    ASSUME TypeInv, LifeInv, ProcessInv, LedgerInv, EffectInv, EventsInv,
           TaskStep
    PROVE  LedgerInv' /\ EffectInv' /\ EventsInv'
<1> DEFINE Fits == LedgerInv' /\ EffectInv' /\ EventsInv'
<1>r. /\ run \in Runs /\ run.ledger \in Ledgers /\ ran \in [Actions -> Nat]
      /\ events \subseteq EventKinds \X Actions
  BY RunTypes DEF TypeInv, TypeOK, TypeOfRuns, TypeOfRecords
<1>p. pc \notin Resting => Present
  BY AtWorkIsPresent
<1>e. pc \notin Resting \cup {"record"} =>
        \A b \in Actions : saved.ledger.result[b] = run.ledger.result[b]
  BY DEF LedgerInv
<1>g. /\ \A b : b \in GroupOpen(run) <=> /\ b \in Actions /\ b \in run.ledger.tail
                                         /\ run.ledger.result[b] = "open"
      /\ \A b : b \in GroupOpen(run)' <=> /\ b \in Actions /\ b \in run'.ledger.tail
                                          /\ run'.ledger.result[b] = "open"
  BY DEF GroupOpen, Open
<1>v. \A e \in events : e[2] \in Actions
  BY <1>r
<1> USE DEF Resting, InGroup, Same
<1>1. CASE Talks
  <2>1. LedgerInv'
    BY <1>1, <1>e, <1>g DEF Talks, LedgerInv
  <2>2. EffectInv'
    BY <1>1, <1>e, <1>g, <1>p DEF Talks, EffectInv, SuccessIsReal, Present
  <2>3. EventsInv'
    BY <1>1, <1>v DEF Talks, EventsInv
  <2> QED BY <2>1, <2>2, <2>3
<1>2. ASSUME NEW cs \in SUBSET Actions, Proposes(cs) PROVE Fits
  <2>1. LedgerInv'
    BY <1>2, <1>g DEF Proposes, LedgerInv
  <2>2. \A b \in cs : ran[b] = 0
    <3> SUFFICES ASSUME NEW b \in cs PROVE ran[b] = 0
      OBVIOUS
    <3>1. b \in Actions /\ saved.ledger.result[b] = "absent" /\ ran[b] \in Nat
      BY <1>2, <1>e, <1>r DEF Proposes, Absent
    <3>2. ~(ran[b] > 0)
      BY <1>2, <1>p, <3>1 DEF Proposes, EffectInv
    <3> QED BY <3>1, <3>2
  <2>3. \A b \in Actions : saved'.ledger.result[b] =
            IF b \in cs THEN "open" ELSE saved.ledger.result[b]
    BY <1>2, <1>e DEF Proposes
  <2>4. EffectInv'
    BY <1>2, <1>g, <1>p, <2>2, <2>3 DEF Proposes, EffectInv, SuccessIsReal, Present
  <2>5. EventsInv'
    <3> SUFFICES ASSUME NEW e \in events
                 PROVE  /\ saved'.ledger.result[e[2]] # "absent"
                        /\ e[1] \in {"finished", "not_run", "interrupted"} =>
                              saved'.ledger.result[e[2]] # "open"
      BY <1>2 DEF Proposes, EventsInv
    <3>1. e[2] \in Actions /\ saved.ledger.result[e[2]] # "absent"
      BY <1>v DEF EventsInv
    <3>2. e[2] \notin cs
      BY <1>2, <1>e, <3>1 DEF Proposes, Absent
    <3> QED BY <2>3, <3>1, <3>2 DEF EventsInv
  <2> QED BY <2>1, <2>4, <2>5
<1>3. ASSUME NEW a \in Actions, NEW o \in Outcomes, Answers(a, o) PROVE Fits
  <2>0. o \notin {"absent", "open"}
    BY DEF Outcomes
  <2>1. LedgerInv'
    BY <1>3, <1>g, <2>0 DEF Answers, LedgerInv
  <2>2. \A b \in Actions : saved'.ledger.result[b] =
            IF b = a THEN o ELSE saved.ledger.result[b]
    BY <1>3, <1>e DEF Answers
  <2>3. ran[a] > 0 => o = "failed"
    BY <1>3 DEF Answers, EffectInv
  <2>4. \A b \in GroupOpen(run)' : b # a /\ b \in GroupOpen(run)
    BY <1>3, <1>g, <2>0 DEF Answers
  <2>5. EffectInv'
    <3>1. (\A b \in Actions : ran[b] <= 1)'
      BY <1>3 DEF Answers, EffectInv
    <3>2. \A b \in GroupOpen(run)' : ran'[b] = 0
      BY <1>3, <2>4 DEF Answers, EffectInv
    <3>3. \A b \in Actions : ran'[b] > 0 =>
            saved'.ledger.result[b] \in {"open", "succeeded", "failed",
                                         "cancelled", "interrupted"}
      BY <1>3, <1>p, <2>2, <2>3 DEF Answers, EffectInv
    <3>4. SuccessIsReal'
      BY <1>3, <2>2 DEF Answers, EffectInv, SuccessIsReal
    <3> QED BY <1>3, <3>1, <3>2, <3>3, <3>4 DEF Answers, EffectInv
  <2>6. EventsInv'
    BY <1>3, <1>v, <2>0, <2>2 DEF Answers, EventsInv
  <2> QED BY <2>1, <2>5, <2>6
<1>4. ASSUME NEW a \in Actions, NEW kind \in {"required", "started"},
             Starts(a, kind)
      PROVE  Fits
  <2>1. LedgerInv'
    BY <1>4, <1>g DEF Starts, LedgerInv
  <2>2. \A b \in Actions : saved'.ledger.result[b] = saved.ledger.result[b]
    BY <1>4, <1>e DEF Starts
  <2>3. EffectInv'
    BY <1>4, <1>g, <1>p, <2>2 DEF Starts, EffectInv, SuccessIsReal, Present
  <2>4. EventsInv'
    <3>1. saved'.ledger.result[a] = "open"
      BY <1>4, <1>g DEF Starts
    <3>2. ASSUME NEW e \in events'
          PROVE  e \in events \/ e = <<kind, a>>
      BY <1>4 DEF Starts
    <3> QED BY <1>v, <2>2, <3>1, <3>2 DEF EventsInv
  <2> QED BY <2>1, <2>3, <2>4
<1>5. ASSUME NEW o \in {"failed", "cancelled"}, Closes(o) PROVE Fits
  <2>1. LedgerInv'
    BY <1>5, <1>g DEF Closes, LedgerInv
  <2>2. \A b \in Actions : saved'.ledger.result[b] =
            IF b \in GroupOpen(run) THEN o ELSE saved.ledger.result[b]
    BY <1>5, <1>e DEF Closes
  <2>3. GroupOpen(run)' = {}
    BY <1>5, <1>g DEF Closes
  <2>4. EffectInv'
    BY <1>5, <1>p, <2>2, <2>3 DEF Closes, EffectInv, SuccessIsReal, Present
  <2>5. EventsInv'
    BY <1>5, <1>v, <2>2 DEF Closes, EventsInv
  <2> QED BY <2>1, <2>4, <2>5
<1>6. CASE TakeEffect
  <2>1. /\ pc = "tool" /\ pc' = "reply" /\ at' = at /\ at \in GroupOpen(run)
        /\ UNCHANGED <<run, saved, pending, events, checkpoints>>
    BY <1>6 DEF TakeEffect, locals, LedgerInv
  <2>2. at \in Actions /\ ran[at] = 0
    BY <1>g, <2>1 DEF EffectInv
  <2>3. /\ ran'[at] = 1
        /\ \A b \in Actions : b # at => ran'[b] = ran[b]
    BY <1>6, <1>r, <2>2 DEF TakeEffect
  <2>4. LedgerInv'
    BY <1>g, <2>1 DEF LedgerInv
  <2>5. saved.ledger.result[at] = "open"
    BY <1>e, <1>g, <2>1
  <2>6. EffectInv'
    <3>1. \A b \in GroupOpen(run)' : b \in Actions /\ b \in GroupOpen(run)
      BY <1>g, <2>1
    <3>2. (\A b \in GroupOpen(run) : ran[b] = IF pc = "reply" /\ b = at THEN 1 ELSE 0)'
      BY <2>1, <2>3, <3>1 DEF EffectInv
    <3>3. SuccessIsReal'
      BY <2>1, <2>3, <2>5 DEF EffectInv, SuccessIsReal
    <3>4. (\A b \in Actions : ran[b] <= 1)'
      BY <2>3 DEF EffectInv
    <3>5. (Present => \A b \in Actions : ran[b] > 0 =>
            saved.ledger.result[b] \in {"open", "succeeded", "failed",
                                        "cancelled", "interrupted"})'
      BY <1>p, <2>1, <2>3, <2>5 DEF EffectInv, Present
    <3> QED BY <2>1, <3>2, <3>3, <3>4, <3>5 DEF EffectInv
  <2>7. EventsInv'
    BY <2>1 DEF EventsInv
  <2> QED BY <2>4, <2>6, <2>7
<1>7. CASE ToolSucceeds
  <2>1. /\ pc = "reply" /\ pc' = "record" /\ at' = at /\ at \in GroupOpen(run)
        /\ checkpoints' = checkpoints \cup {at}
        /\ UNCHANGED <<saved, events, ran>>
    BY <1>7 DEF ToolSucceeds, locals, tallies, LedgerInv
  <2>2. run'.ledger = Answer(run.ledger, at, "succeeded")
    BY <1>7, <1>r, RunParts DEF ToolSucceeds
  <2>3. /\ run'.ledger.tail = run.ledger.tail
        /\ \A b \in Actions : run'.ledger.result[b] =
              IF b = at THEN "succeeded" ELSE run.ledger.result[b]
    BY <1>r, <2>2, LedgerParts
  <2>4. LedgerInv'
    BY <1>g, <1>e, <2>1, <2>3 DEF LedgerInv
  <2>5. \A b \in GroupOpen(run)' : b # at /\ b \in GroupOpen(run)
    BY <1>g, <2>1, <2>3
  <2>6. EffectInv'
    BY <1>p, <2>1, <2>5 DEF EffectInv, SuccessIsReal, Present
  <2>7. EventsInv'
    BY <2>1 DEF EventsInv
  <2> QED BY <2>4, <2>6, <2>7
<1>8. CASE SaveResult
  <2>1. /\ pc = "record" /\ pc' = "announce" /\ at' = at /\ saved' = run
        /\ run.ledger.result[at] = "succeeded" /\ at \in Actions
        /\ UNCHANGED <<run, events, checkpoints, ran>>
    BY <1>8 DEF SaveResult, locals, records, LedgerInv, TypeInv, LoopInv
  <2>2. \A b \in Actions : saved.ledger.result[b] =
            IF b = at THEN "open" ELSE saved'.ledger.result[b]
    BY <2>1 DEF LedgerInv
  <2>3. LedgerInv'
    BY <1>g, <2>1 DEF LedgerInv
  <2>4. EffectInv'
    BY <1>g, <1>p, <2>1, <2>2 DEF EffectInv, SuccessIsReal, Present
  <2>5. EventsInv'
    BY <1>v, <2>1, <2>2 DEF EventsInv
  <2> QED BY <2>3, <2>4, <2>5
<1>9. CASE Announce
  <2>1. /\ pc = "announce" /\ pc' = "calls" /\ at \in Actions
        /\ run.ledger.result[at] \notin {"absent", "open"}
        /\ UNCHANGED <<run, saved, checkpoints, ran>>
    BY <1>9 DEF Announce, LedgerInv, TypeInv, LoopInv
  <2>2. \A e \in events' : e \in events \/ e[2] = at
    BY <1>9 DEF Announce
  <2>3. LedgerInv'
    BY <1>g, <2>1 DEF LedgerInv
  <2>4. EffectInv'
    BY <1>g, <1>p, <2>1 DEF EffectInv, SuccessIsReal, Present
  <2>5. EventsInv'
    BY <1>e, <1>v, <2>1, <2>2 DEF EventsInv
  <2> QED BY <2>3, <2>4, <2>5
<1> QED
  BY <1>1, <1>2, <1>3, <1>4, <1>5, <1>6, <1>7, <1>8, <1>9, TaskShape DEF Shapes

----------------------------------------------------------------------------
(* What a handler, or an end or start of the process, does to the ledgers.  *)

\* It leaves every answer where it is.
Leaves ==
    /\ UNCHANGED <<pc, at, events, checkpoints, ran>>
    /\ pending'.call = pending.call
    /\ Same(run, run') /\ run'.ledger.tail = run.ledger.tail
    /\ Same(saved, saved') /\ (Present' <=> Present)
    /\ proc = "down" => proc' = "down" \/ ConfigBreaks

\* It starts an execution with the ledger of the file, and a request after it.
Launches ==
    /\ proc = "up" /\ pc \in Resting /\ pc' = "queued"
    /\ run' = saved' /\ run'.ledger.tail = {}
    /\ Same(saved, saved') /\ (Present \/ turn = 0)
    /\ UNCHANGED <<events, checkpoints, ran>>

\* The process loses everything but the files.
Dies ==
    /\ pc' = "none" /\ proc' = "down"
    /\ UNCHANGED <<saved, events, checkpoints, ran>>

\* Every handler has one of these shapes, or deletes, or recovers.
LEMMA HandlerShape ==
    ASSUME TypeInv, LifeInv, ProcessInv, LedgerInv, StatusInv, ConsoleStep
    PROVE  Leaves \/ Launches \/ Dies \/ Delete \/ Recover
<1> USE DEF runnerVars, webVars, locals, tallies, records, Resting
<1>r. /\ run \in Runs /\ saved \in Runs /\ saved.ledger \in Ledgers
      /\ NewRun \in Runs
  BY RunTypes, NewRunType DEF TypeInv, TypeOK, TypeOfRuns
<1>l. ~Live \/ turn = 0 => pc \in Resting
  BY NotLiveIsAtRest
<1>o. OpenStatus \subseteq RunStatus /\ "absent" \notin RunStatus
      /\ "cancelled" \in RunStatus /\ "created" \in RunStatus
  BY DEF RunStatus, OpenStatus, Verdicts
<1>1. ASSUME StartTopic PROVE Launches
  <2>1. /\ proc = "up" /\ pc' = "queued" /\ turn = 0 /\ run' = saved'
        /\ saved' = [NewRun EXCEPT !.status = "created"]
        /\ UNCHANGED <<events, checkpoints, ran>>
    BY <1>1 DEF StartTopic, Launch, HandlerMayRun
  <2>2. saved = NewRun
    BY <2>1 DEF ProcessInv
  <2>3. saved'.ledger = NewRun.ledger
    BY <1>r, <2>1, RunParts DEF WithStatus
  <2>4. NewRun.ledger.tail = {}
    BY DEF NewRun, EmptyLedger
  <2> QED BY <1>l, <2>1, <2>2, <2>3, <2>4 DEF Launches, Same
<1>2. ASSUME FollowUp PROVE Launches
  <2>1. /\ proc = "up" /\ pc' = "queued" /\ ~Live /\ Present /\ run' = saved'
        /\ saved' = [saved EXCEPT !.status = "created", !.ledger = Say(@)]
        /\ UNCHANGED <<events, checkpoints, ran>>
    BY <1>2 DEF FollowUp, Launch, HandlerMayRun
  <2>2. saved'.ledger = Say(saved.ledger)
    BY <1>r, <2>1, RunParts
  <2>3. saved'.ledger.tail = {} /\ saved'.ledger.result = saved.ledger.result
    BY <1>r, <2>2, LedgerParts
  <2> QED BY <1>l, <2>1, <2>3 DEF Launches, Same
<1>3. ASSUME NEW t \in Turns, Release(t) PROVE Leaves
  BY <1>3 DEF Release, Leaves, Same, Present
<1>4. ASSUME NEW s \in Stoppers, RequestStop(s) PROVE Leaves
  BY <1>4 DEF RequestStop, HandlerMayRun, Leaves, Same, Present
<1>5. ASSUME NEW s \in Stoppers, StopAbandoned(s) PROVE Leaves
  <2>1. saved'.ledger = saved.ledger /\ saved'.status = "cancelled"
    BY <1>5, <1>r, RunParts DEF StopAbandoned
  <2> QED BY <1>5, <1>o, <2>1 DEF StopAbandoned, HandlerMayRun, Leaves, Same, Present
<1>6. ASSUME NEW s \in Stoppers, FinishStop(s) PROVE Leaves
  <2>1. saved'.ledger = saved.ledger /\ (Present' <=> Present)
    BY <1>6, <1>r, RunParts DEF FinishStop, Present
  <2> QED BY <1>6, <2>1 DEF FinishStop, HandlerMayRun, Leaves, Same
<1>7. ASSUME NEW a \in Actions, DecideApproval(a) PROVE Leaves
  <2>1. pending'.call = pending.call
    BY <1>7 DEF DecideApproval, TypeInv, TypeOK, TypeOfTask, PendingApprovals
  <2> QED BY <1>7, <2>1 DEF DecideApproval, HandlerMayRun, Leaves, Same, Present
<1>8. ASSUME NEW t \in Titles, Rename(t) PROVE Leaves
  <2>0. HandlerMayRun /\ Present /\ UNCHANGED <<pc, at, pending, events, checkpoints, ran, proc>>
    BY <1>8 DEF Rename
  <2>1. CASE Live
    <3>1. run' = [run EXCEPT !.title = t] /\ saved' = run'
      BY <1>8, <2>1 DEF Rename
    <3>2. run'.ledger = run.ledger /\ run'.status = run.status
      BY <1>r, <3>1, RunParts
    <3>3. pc \notin Resting \cup {"record"}
      BY <2>0, <2>1 DEF Live, TaskDone, HandlerMayRun, Awaiting
    <3>4. Same(saved, saved')
      BY <3>1, <3>2, <3>3 DEF LedgerInv, Same
    <3>5. run.status # "absent"
      BY <2>0, <3>3 DEF HandlerMayRun, Awaiting, StatusInv, AtWork, Verdicts
    <3> QED BY <2>0, <3>1, <3>2, <3>4, <3>5 DEF HandlerMayRun, Leaves, Same, Present
  <2>2. CASE ~Live
    <3>1. run' = run /\ saved' = [saved EXCEPT !.title = t]
      BY <1>8, <2>2 DEF Rename
    <3>2. saved'.ledger = saved.ledger /\ saved'.status = saved.status
      BY <1>r, <3>1, RunParts
    <3> QED BY <2>0, <3>1, <3>2 DEF HandlerMayRun, Leaves, Same, Present
  <2> QED BY <2>1, <2>2
<1>9. ASSUME Crash \/ Leave PROVE Dies
  BY <1>9 DEF Crash, Leave, Forget, Dies
<1>10. ASSUME Shutdown PROVE Leaves
  BY <1>10 DEF Shutdown, HandlerMayRun, Leaves, Same, Present
<1>11. ASSUME StartUnreconciled PROVE Leaves
  BY <1>11 DEF StartUnreconciled, Leaves, Same, Present
<1> QED
  BY <1>1, <1>2, <1>3, <1>4, <1>5, <1>6, <1>7, <1>8, <1>9, <1>10, <1>11
  DEF ConsoleStep

\* No handler separates them either: a follow-up starts from the file, a
\* recovery answers what a death left open before it tells of it.
LEMMA HandlerLedger ==
    ASSUME TypeInv, LifeInv, ProcessInv, StatusInv, LedgerInv, EffectInv,
           EventsInv, ConsoleStep
    PROVE  LedgerInv' /\ EffectInv' /\ EventsInv'
<1> DEFINE Fits == LedgerInv' /\ EffectInv' /\ EventsInv'
<1>r. /\ saved \in Runs /\ saved.ledger \in Ledgers /\ ran \in [Actions -> Nat]
      /\ events \subseteq EventKinds \X Actions
  BY RunTypes DEF TypeInv, TypeOK, TypeOfRuns, TypeOfRecords
<1>g. /\ \A b : b \in GroupOpen(run) <=> /\ b \in Actions /\ b \in run.ledger.tail
                                         /\ run.ledger.result[b] = "open"
      /\ \A b : b \in GroupOpen(run)' <=> /\ b \in Actions /\ b \in run'.ledger.tail
                                          /\ run'.ledger.result[b] = "open"
  BY DEF GroupOpen, Open
<1>v. \A e \in events : e[2] \in Actions
  BY <1>r
<1> USE DEF Resting, InGroup, Same
<1>1. CASE Leaves
  <2>1. LedgerInv'
    BY <1>1, <1>g DEF Leaves, LedgerInv, TypeInv, LoopInv
  <2>2. EffectInv'
    BY <1>1, <1>g DEF Leaves, EffectInv, SuccessIsReal
  <2>3. EventsInv'
    BY <1>1, <1>v DEF Leaves, EventsInv
  <2> QED BY <2>1, <2>2, <2>3
<1>2. CASE Launches
  <2>1. LedgerInv'
    BY <1>2, <1>g DEF Launches, LedgerInv
  <2>2. EffectInv'
    <3>1. GroupOpen(run)' = {}
      BY <1>2, <1>g DEF Launches
    <3>2. \A b \in Actions : ran[b] > 0 =>
            saved.ledger.result[b] \in {"open", "succeeded", "failed",
                                        "cancelled", "interrupted"}
      BY <1>2, <1>r DEF Launches, EffectInv, ProcessInv
    <3> QED BY <1>2, <3>1, <3>2 DEF Launches, EffectInv, SuccessIsReal
  <2>3. EventsInv'
    BY <1>2, <1>v DEF Launches, EventsInv
  <2> QED BY <2>1, <2>2, <2>3
<1>3. CASE Dies
  <2>1. LedgerInv'
    BY <1>3 DEF Dies, LedgerInv
  <2>2. EffectInv'
    BY <1>3 DEF Dies, EffectInv, SuccessIsReal, Present
  <2>3. EventsInv'
    BY <1>3 DEF Dies, EventsInv
  <2> QED BY <2>1, <2>2, <2>3
<1>4. CASE Delete
  <2>1. /\ pc \in Resting /\ pc' = pc /\ saved' = NewRun /\ events' = {}
        /\ UNCHANGED <<ran, checkpoints>>
    BY <1>4, NotLiveIsAtRest DEF Delete
  <2>2. saved'.status = "absent" /\ \A b \in Actions : saved'.ledger.result[b] = "absent"
    BY <2>1 DEF NewRun, EmptyLedger
  <2>3. LedgerInv'
    BY <2>1 DEF LedgerInv
  <2>4. EffectInv'
    BY <2>1, <2>2 DEF EffectInv, SuccessIsReal, Present
  <2>5. EventsInv'
    BY <2>1 DEF EventsInv
  <2> QED BY <2>3, <2>4, <2>5
<1>5. CASE Recover
  <2>1. /\ pc = "none" /\ pc' = "none" /\ UNCHANGED <<ran, checkpoints>>
    BY <1>5 DEF Recover, ProcessInv
  <2>2. CASE saved.status \notin OpenStatus
    <3>1. UNCHANGED <<saved, events>>
      BY <1>5, <2>2 DEF Recover
    <3> QED BY <2>1, <3>1 DEF LedgerInv, EffectInv, SuccessIsReal, Present, EventsInv
  <2>3. CASE saved.status \in OpenStatus
    <3>1. /\ saved' = [saved EXCEPT !.status = "interrupted", !.ledger = Repair(@)]
          /\ events' = events \cup {<<"interrupted", a>> : a \in Open(saved.ledger)}
      BY <1>5, <2>3 DEF Recover
    <3>2. saved'.ledger = Repair(saved.ledger)
      BY <1>r, <3>1, RunParts
    <3>3. \A b \in Actions : saved'.ledger.result[b] =
              IF saved.ledger.result[b] = "open" THEN "interrupted"
              ELSE saved.ledger.result[b]
      BY <1>r, <3>2, LedgerParts DEF Open
    <3>4. Present
      BY <2>3 DEF Present, OpenStatus
    <3>5. LedgerInv'
      BY <2>1 DEF LedgerInv
    <3>6. EffectInv'
      BY <2>1, <3>3, <3>4 DEF EffectInv, SuccessIsReal
    <3>7. EventsInv'
      <4> SUFFICES ASSUME NEW e \in events'
                   PROVE  saved'.ledger.result[e[2]] \notin {"absent", "open"}
                          \/ (e \in events /\ saved'.ledger.result[e[2]] # "absent")
        BY <1>v, <3>3 DEF EventsInv
      <4>1. CASE e \in events
        BY <1>v, <3>3, <4>1 DEF EventsInv
      <4>2. CASE e \in {<<"interrupted", a>> : a \in Open(saved.ledger)}
        <5>1. PICK a \in Open(saved.ledger) : e = <<"interrupted", a>>
          BY <4>2
        <5> QED BY <3>3, <5>1 DEF Open
      <4> QED BY <3>1, <4>1, <4>2
    <3> QED BY <3>5, <3>6, <3>7
  <2> QED BY <2>2, <2>3
<1> QED BY <1>1, <1>2, <1>3, <1>4, <1>5, HandlerShape

----------------------------------------------------------------------------
(* What a step of the coroutine does to the status of the file.             *)

\* The transitions of runtime/state.py, status by status.
LEMMA TransitionTable ==
    /\ AllowedTransitions["created"] = {"running", "failed", "cancelled"}
    /\ AllowedTransitions["running"] =
          {"waiting_approval", "paused", "completed", "needs_review", "failed",
           "cancelled"}
    /\ AllowedTransitions["waiting_approval"] =
          {"running", "paused", "failed", "cancelled"}
    /\ \A s \in Verdicts : AllowedTransitions[s] = {}
    /\ DOMAIN AllowedTransitions = RunStatus
BY DEF AllowedTransitions, RunStatus, OpenStatus, Verdicts

\* The file follows the table, or is overtaken by the execution that a stop
\* was not meant for; at its end it stays, or fails if it was open.
Progress ==
    /\ pc \notin Resting /\ pc' # "none"
    /\ \/ saved'.status = saved.status
       \/ /\ pc' \notin Resting
          /\ saved'.status \in AllowedTransitions[saved.status]
       \/ /\ pc' \notin Resting
          /\ saved.status = "cancelled" /\ saved'.status = "running"
       \/ /\ pc' \in Resting
          /\ saved.status \in OpenStatus /\ saved'.status = "failed"

\* Every step of the coroutine keeps the statuses of its run and of the file
\* where its place says, and the file follows the table.
LEMMA TaskStatus ==
    ASSUME TypeInv, LifeInv, StatusInv, TaskStep
    PROVE  StatusInv' /\ Progress
<1> DEFINE Goes == StatusInv' /\ Progress
<1>r. run \in Runs /\ saved \in Runs
  BY DEF TypeInv, TypeOK, TypeOfRuns
<1> USE DEF Resting, AtWork, OpenStatus, Verdicts
<1>1. ASSUME Begin PROVE Goes
  BY <1>r, <1>1, RunParts, TransitionTable DEF Begin, StatusInv, Progress
<1>2. ASSUME InitFails PROVE Goes
  BY <1>r, <1>2, RunParts, TransitionTable DEF InitFails, StatusInv, Progress
<1>3. ASSUME StartLoop PROVE Goes
  BY <1>r, <1>3, RunParts, TransitionTable DEF StartLoop, StatusInv, Progress
<1>4. ASSUME BuildContext PROVE Goes
  BY <1>r, <1>4, RunParts, TransitionTable DEF BuildContext, StatusInv, Progress
<1>5. ASSUME OverBudget PROVE Goes
  BY <1>r, <1>5, RunParts, TransitionTable DEF OverBudget, StatusInv, Progress
<1>6. ASSUME ReportOverBudget PROVE Goes
  BY <1>r, <1>6, RunParts, TransitionTable DEF ReportOverBudget, StatusInv, Progress
<1>7. ASSUME ModelRetries PROVE Goes
  BY <1>r, <1>7, RunParts, TransitionTable DEF ModelRetries, StatusInv, Progress
<1>8. ASSUME ModelAnswers PROVE Goes
  BY <1>r, <1>8, RunParts, TransitionTable DEF ModelAnswers, StatusInv, Progress
<1>9. ASSUME ReviewAgain PROVE Goes
  BY <1>r, <1>9, RunParts, TransitionTable DEF ReviewAgain, StatusInv, Progress
<1>10. ASSUME AcceptAnswer PROVE Goes
  BY <1>r, <1>10, RunParts, TransitionTable DEF AcceptAnswer, StatusInv, Progress
<1>11. ASSUME Deliver PROVE Goes
  BY <1>r, <1>11, RunParts, TransitionTable DEF Deliver, StatusInv, Progress
<1>12. ASSUME Declined PROVE Goes
  BY <1>r, <1>12, RunParts, TransitionTable DEF Declined, StatusInv, Progress
<1>13. ASSUME TakeEffect PROVE Goes
  BY <1>r, <1>13, RunParts, TransitionTable DEF TakeEffect, StatusInv, Progress
<1>14. ASSUME ToolSucceeds PROVE Goes
  BY <1>r, <1>14, RunParts, TransitionTable DEF ToolSucceeds, StatusInv, Progress
<1>15. ASSUME ToolFails PROVE Goes
  BY <1>r, <1>15, RunParts, TransitionTable DEF ToolFails, StatusInv, Progress
<1>16. ASSUME SaveResult PROVE Goes
  BY <1>r, <1>16, RunParts, TransitionTable DEF SaveResult, StatusInv, Progress
<1>17. ASSUME Announce PROVE Goes
  BY <1>r, <1>17, RunParts, TransitionTable DEF Announce, StatusInv, Progress
<1>18. ASSUME NextRound PROVE Goes
  BY <1>r, <1>18, RunParts, TransitionTable DEF NextRound, StatusInv, Progress
<1>19. ASSUME StallOut PROVE Goes
  BY <1>r, <1>19, RunParts, TransitionTable DEF StallOut, StatusInv, Progress
<1>20. ASSUME ReportStall PROVE Goes
  BY <1>r, <1>20, RunParts, TransitionTable DEF ReportStall, StatusInv, Progress
<1>21. ASSUME Unwind PROVE Goes
  BY <1>r, <1>21, RunParts, TransitionTable DEF Unwind, StatusInv, Progress
<1>22. ASSUME CloseServers PROVE Goes
  BY <1>r, <1>22, RunParts, TransitionTable DEF CloseServers, StatusInv, Progress
<1>23. ASSUME RecordFailure PROVE Goes
  BY <1>r, <1>23, RunParts, TransitionTable DEF RecordFailure, StatusInv, Progress
<1>24. ASSUME NEW a \in Actions, RefuseCall(a) PROVE Goes
  BY <1>r, <1>24, RunParts, TransitionTable DEF RefuseCall, AtCall, AnswerUnrun, StatusInv, Progress
<1>25. ASSUME NEW a \in Actions, SkipCall(a) PROVE Goes
  BY <1>r, <1>25, RunParts, TransitionTable DEF SkipCall, AtCall, AnswerUnrun, StatusInv, Progress
<1>26. ASSUME NEW a \in Actions, PlanCall(a) PROVE Goes
  BY <1>r, <1>26, RunParts, TransitionTable DEF PlanCall, AtCall, StatusInv, Progress
<1>27. ASSUME NEW a \in Actions, InvalidPlan(a) PROVE Goes
  BY <1>r, <1>27, RunParts, TransitionTable DEF InvalidPlan, AtCall, StatusInv, Progress
<1>28. ASSUME NEW a \in Actions, RunCall(a) PROVE Goes
  BY <1>r, <1>28, RunParts, TransitionTable DEF RunCall, AtCall, StartTool, StatusInv, Progress
<1>29. ASSUME NEW a \in Actions, AskApproval(a) PROVE Goes
  BY <1>r, <1>29, RunParts, TransitionTable DEF AskApproval, AtCall, StatusInv, Progress
<1>30. ASSUME NEW a \in Actions, RefuseUnoffered(a) PROVE Goes
  BY <1>r, <1>30, RunParts, TransitionTable DEF RefuseUnoffered, AtCall, StatusInv, Progress
<1>31. ASSUME AnswerInquiry PROVE Goes
  <2>1. PICK verdict \in {"completed", "needs_review"} :
           /\ run' = [run EXCEPT !.status = verdict, !.ledger = Say(@)]
           /\ saved' = run'
    BY <1>31 DEF AnswerInquiry
  <2>2. run'.status = verdict /\ saved'.status = verdict
    BY <1>r, <2>1, RunParts
  <2> QED BY <1>31, <2>2, TransitionTable DEF AnswerInquiry, StatusInv, Progress
<1>32. ASSUME Approved PROVE Goes
  <2>1. run'.status = "running" /\ saved'.status = "running" /\ pc' = "tool"
    BY <1>r, <1>32, RunParts DEF Approved, StartTool
  <2> QED BY <1>32, <2>1, TransitionTable DEF Approved, StatusInv, Progress
<1>33. ASSUME NEW cs \in Proposals, ModelProposes(cs) PROVE Goes
  <2>1. run'.status = run.status
    BY <1>r, <1>33, RunParts DEF ModelProposes
  <2> QED BY <1>33, <2>1 DEF ModelProposes, StatusInv, Progress
<1>c. ASSUME NEW o
      PROVE  LET closed == WithLedger(run, RecordUnfinished(run.ledger, o))
             IN  /\ closed.status = run.status
                 /\ \A s : WithStatus(closed, s).status = s
  <2>1. WithLedger(run, RecordUnfinished(run.ledger, o)).status = run.status
    BY <1>r, RunParts
  <2>2. \A s : WithStatus(WithLedger(run, RecordUnfinished(run.ledger, o)), s).status = s
    BY <1>r DEF WithStatus, WithLedger, Runs
  <2> QED BY <2>1, <2>2
<1>x. ASSUME Raise, pc \in {"turn", "chat", "calls"} PROVE Goes
  <2>1. /\ run'.status = "failed" /\ saved'.status = "running"
        /\ pc' = "unwind" /\ exit' = "error"
    BY <1>c, <1>x DEF Raise, StatusInv
  <2> QED BY <1>x, <2>1 DEF StatusInv, Progress
<1>34. ASSUME NoTurn \/ ModelFails PROVE Goes
  BY <1>34, <1>x DEF NoTurn, ModelFails
<1>35. ASSUME NEW a \in Actions, GiveUpPlanning(a) \/ ReachToolLimit(a) PROVE Goes
  BY <1>35, <1>x DEF GiveUpPlanning, ReachToolLimit, AtCall
<1>36. ASSUME DeliverCancel PROVE Goes
  <2>1. exit' = "cancel"
    BY <1>36 DEF DeliverCancel
  <2>2. CASE pc \in {"queued", "connect", "close"}
    <3>1. pc' = "done" /\ UNCHANGED <<run, saved>>
      BY <1>36, <2>2 DEF DeliverCancel
    <3> QED BY <2>2, <3>1 DEF StatusInv, Progress
  <2>3. CASE pc \in {"over_budget", "unwind"}
    <3>1. pc' = "close" /\ UNCHANGED <<run, saved>>
      BY <1>36, <2>3 DEF DeliverCancel
    <3> QED BY <2>1, <2>3, <3>1 DEF StatusInv, Progress
  <2>4. CASE pc \in {"inquiry", "chat", "judge", "stalling"}
    <3>1. pc' = "unwind" /\ CancelOutside
      BY <1>36, <2>4 DEF DeliverCancel
    <3>2. /\ run'.status = IF pc = "stalling" THEN "needs_review" ELSE "cancelled"
          /\ saved' = saved
      BY <1>c, <2>4, <3>1 DEF CancelOutside, StatusInv
    <3> QED BY <2>1, <2>4, <3>1, <3>2 DEF StatusInv, Progress
  <2>5. CASE pc \in {"approve", "tool", "reply"}
    <3>1. pc' = "unwind" /\ CancelInside
      BY <1>36, <2>5 DEF DeliverCancel
    <3>2. run'.status = "cancelled" /\ saved'.status = run.status
      BY <1>c, <3>1 DEF CancelInside
    <3> QED BY <2>1, <2>5, <3>1, <3>2 DEF StatusInv, Progress
  <2> QED BY <1>36, <2>2, <2>3, <2>4, <2>5 DEF DeliverCancel
<1> QED
  BY <1>1, <1>2, <1>3, <1>4, <1>5, <1>6, <1>7, <1>8, <1>9, <1>10, <1>11, <1>12,
      <1>13, <1>14, <1>15, <1>16, <1>17, <1>18, <1>19, <1>20, <1>21, <1>22,
      <1>23, <1>24, <1>25, <1>26, <1>27, <1>28, <1>29, <1>30, <1>31, <1>32,
      <1>33, <1>34, <1>35, <1>36 DEF TaskStep, CallStep

----------------------------------------------------------------------------
(* What the handlers do to the status of the file, and to those who wait.   *)

\* A handler starts an execution, ends with the process, or leaves the
\* coroutine where it is; then a file at work follows the table or is
\* overtaken, any unfinished or doubtful one may be withdrawn, and one at rest
\* is deleted or reconciled.
HandlerProgress ==
    \/ /\ pc \in Resting /\ pc' = "queued"
       /\ saved'.status = "created" /\ turn' = turn + 1
    \/ pc' = "none" /\ saved' = saved
    \/ /\ pc' = pc
       /\ \/ saved'.status = saved.status
          \/ /\ pc \notin Resting
             /\ saved'.status \in AllowedTransitions[saved.status]
          \/ /\ pc \notin Resting
             /\ saved.status = "cancelled" /\ saved'.status = "created"
          \/ /\ saved.status \in OpenStatus \cup {"needs_review", "failed"}
             /\ saved'.status = "cancelled"
          \/ pc \in Resting /\ saved'.status = "absent"
          \/ /\ pc \in Resting /\ saved.status \in OpenStatus
             /\ saved'.status = "interrupted"

\* Every handler keeps the statuses, the order of stops and starts, and what a
\* dead process holds.
LEMMA HandlerStatus ==
    ASSUME TypeInv, LifeInv, ProcessInv, StatusInv, StopInv, ConsoleStep
    PROVE  StatusInv' /\ HandlerProgress /\ StopInv' /\ ProcessInv'
<1> DEFINE Goes == StatusInv' /\ HandlerProgress /\ StopInv' /\ ProcessInv'
<1>r. /\ run \in Runs /\ saved \in Runs /\ NewRun \in Runs /\ turn \in Nat
      /\ stops \in [Stoppers -> 0 .. MaxTurns] /\ MaxTurns \in Nat
      /\ registered \in Nat
  BY NewRunType, ConsoleAssumption DEF TypeInv, TypeOK, TypeOfRuns, TypeOfConsole
<1>l. ~Live \/ turn = 0 => pc \in Resting
  BY NotLiveIsAtRest
<1>q. ASSUME pc \notin Resting PROVE Live /\ registered = turn /\ turn > 0
  BY <1>l, <1>q, <1>r DEF LifeInv, LiveIsRegistered, TaskDone, Resting
<1>n. NewRun.status = "absent"
  BY DEF NewRun
<1>a. saved.status # "absent" => turn > 0
  BY DEF LifeInv, Present
<1>s. saved.status \in OpenStatus \cup Verdicts \cup {"absent"}
  BY <1>r, RunTypes DEF RunStatus
<1>t. \A s \in Stoppers : stops[s] \in Nat
  BY <1>r
<1> USE DEF Resting, OpenStatus, Verdicts, runnerVars, webVars, locals, tallies, records
<1>1. ASSUME StartTopic \/ FollowUp PROVE Goes
  <2>1. /\ pc \in Resting /\ pc' = "queued" /\ turn' = turn + 1
        /\ proc' = "up" /\ cancelling' = FALSE /\ run' = saved' /\ stops' = stops
    BY <1>1, <1>l DEF StartTopic, FollowUp, Launch, HandlerMayRun
  <2>2. saved'.status = "created"
    <3>1. CASE StartTopic
      BY <1>r, <3>1, RunParts DEF StartTopic, Launch, WithStatus
    <3>2. CASE FollowUp
      <4>1. saved' = [saved EXCEPT !.status = "created", !.ledger = Say(saved.ledger)]
        BY <3>2 DEF FollowUp, Launch
      <4> QED BY <1>r, <4>1, RunParts
    <3> QED BY <1>1, <3>1, <3>2
  <2>3. StatusInv' /\ HandlerProgress
    BY <2>1, <2>2 DEF StatusInv, AtWork, HandlerProgress
  <2>4. StopInv'
    <3> SUFFICES ASSUME NEW s \in Stoppers PROVE stops[s] # turn'
      BY <2>1 DEF StopInv
    <3>1. stops[s] \in {0, turn}
      BY <2>1 DEF StopInv
    <3> QED BY <1>r, <2>1, <3>1
  <2>5. ProcessInv'
    BY <1>r, <2>1, <2>2 DEF ProcessInv, Present
  <2> QED BY <2>3, <2>4, <2>5
<1>2. ASSUME UNCHANGED <<run, saved, pc, exit, cancelling, turn, stops, proc,
                        ran, named, deleted>>
      PROVE  Goes
  BY <1>2 DEF StatusInv, StopInv, ProcessInv, HandlerProgress, Present
<1>3. ASSUME NEW t \in Turns, Release(t) PROVE Goes
  BY <1>2, <1>3 DEF Release
<1>4. ASSUME NEW a \in Actions, DecideApproval(a) PROVE Goes
  BY <1>2, <1>4 DEF DecideApproval
<1>5. ASSUME NEW s \in Stoppers, RequestStop(s) PROVE Goes
  <2>1. /\ Live /\ pc \in Awaiting \ Resting /\ cancelling' = TRUE
        /\ stops' = [stops EXCEPT ![s] = registered] /\ saved.status \in OpenStatus
        /\ UNCHANGED <<run, saved, pc, exit, turn, proc, ran, named, deleted>>
    BY <1>5 DEF RequestStop, HandlerMayRun, Live, TaskDone
  <2>2. stops' = [stops EXCEPT ![s] = turn]
    BY <1>q, <2>1
  <2>3. StatusInv' /\ HandlerProgress
    BY <2>1 DEF StatusInv, HandlerProgress
  <2>4. StopInv'
    <3>1. saved.status \notin {"completed", "interrupted"}
      BY <2>1
    <3>2. pc \in {"unwind", "close"} => run.status # "completed"
      BY <2>1 DEF StatusInv
    <3>3. ASSUME NEW q \in Stoppers
          PROVE  stops'[q] = turn \/ stops'[q] = stops[q]
      BY <1>r, <2>2
    <3> QED BY <2>1, <3>1, <3>2, <3>3 DEF StopInv
  <2>5. ProcessInv'
    BY <1>q, <2>1 DEF ProcessInv, Present
  <2> QED BY <2>3, <2>4, <2>5
<1>6. ASSUME NEW s \in Stoppers, StopAbandoned(s) PROVE Goes
  <2>1. /\ pc \in Resting /\ saved.status \in OpenStatus
        /\ UNCHANGED <<run, pc, exit, cancelling, turn, stops, proc, ran, named, deleted>>
    BY <1>6, <1>l DEF StopAbandoned
  <2>2. saved'.status = "cancelled"
    BY <1>6, <1>r, RunParts DEF StopAbandoned
  <2> QED
    BY <1>a, <2>1, <2>2 DEF StatusInv, AtWork, HandlerProgress, StopInv, ProcessInv,
        Present
<1>7. ASSUME NEW s \in Stoppers, FinishStop(s) PROVE Goes
  <2>1. /\ stops[s] # 0 /\ TaskDone(stops[s]) /\ stops' = [stops EXCEPT ![s] = 0]
        /\ saved' = IF Present THEN WithStatus(saved, "cancelled") ELSE saved
        /\ UNCHANGED <<run, pc, exit, cancelling, turn, proc, ran, named, deleted>>
    BY <1>7 DEF FinishStop
  <2>2. saved'.status = IF Present THEN "cancelled" ELSE saved.status
    <3>1. WithStatus(saved, "cancelled").status = "cancelled"
      BY <1>r, RunParts
    <3> QED BY <2>1, <3>1
  <2>3. \/ pc = "queued"
        \/ pc \in Resting /\ stops[s] = turn /\ turn # 0
    BY <1>r, <2>1 DEF StopInv, TaskDone
  <2>4. StatusInv'
    BY <2>1, <2>2, <2>3 DEF StatusInv, AtWork
  <2>5. HandlerProgress
    <3>1. CASE pc = "queued"
      BY <2>1, <2>2, <3>1 DEF StatusInv, HandlerProgress
    <3>2. CASE pc \in Resting /\ stops[s] = turn /\ turn # 0
      BY <1>s, <2>1, <2>2, <3>2 DEF StopInv, HandlerProgress, Present
    <3> QED BY <2>3, <3>1, <3>2
  <2>6. \A q \in Stoppers : stops'[q] = 0 \/ stops'[q] = stops[q]
    BY <1>r, <2>1
  <2>7. StopInv'
    BY <2>1, <2>2, <2>6 DEF StopInv
  <2>8. ProcessInv'
    BY <1>a, <1>n, <2>1, <2>2, <2>6 DEF ProcessInv, Present
  <2> QED BY <2>4, <2>5, <2>7, <2>8
<1>8. ASSUME NEW t \in Titles, Rename(t) PROVE Goes
  <2>0. /\ pc \in Awaiting /\ Present
        /\ UNCHANGED <<pc, exit, cancelling, turn, stops, proc, ran, deleted>>
    BY <1>8 DEF Rename, HandlerMayRun
  <2>1. CASE Live
    <3>1. run' = [run EXCEPT !.title = t] /\ saved' = run'
      BY <1>8, <2>1 DEF Rename
    <3>2. run'.status = run.status /\ saved'.status = run.status
      BY <1>r, <3>1, RunParts
    <3>3. pc \in Awaiting \ Resting
      BY <2>0, <2>1 DEF Live, TaskDone
    <3>4. StatusInv'
      BY <2>0, <3>2, <3>3 DEF StatusInv, AtWork, Awaiting
    <3>5. HandlerProgress
      BY <2>0, <3>2, <3>3, TransitionTable DEF StatusInv, AtWork, Awaiting, HandlerProgress
    <3>6. run.status # "absent"
      BY <3>3 DEF StatusInv, AtWork, Awaiting
    <3>7. StopInv'
      BY <2>0, <3>2, <3>3 DEF StatusInv, StopInv, AtWork, Awaiting
    <3>8. ProcessInv'
      BY <1>q, <2>0, <3>2, <3>3, <3>6 DEF ProcessInv, Present
    <3> QED BY <3>4, <3>5, <3>7, <3>8
  <2>2. CASE ~Live
    <3>1. run' = run /\ saved' = [saved EXCEPT !.title = t]
      BY <1>8, <2>2 DEF Rename
    <3>2. saved'.status = saved.status
      BY <1>r, <3>1, RunParts
    <3>3. StatusInv' /\ StopInv' /\ HandlerProgress
      BY <2>0, <3>1, <3>2 DEF StatusInv, StopInv, HandlerProgress
    <3>4. ProcessInv'
      BY <1>a, <2>0, <3>2 DEF ProcessInv, Present
    <3> QED BY <3>3, <3>4
  <2> QED BY <2>1, <2>2
<1>9. ASSUME Delete PROVE Goes
  <2>1. /\ pc \in Resting /\ saved' = NewRun /\ deleted' = TRUE /\ Present
        /\ UNCHANGED <<run, pc, exit, cancelling, turn, stops, proc, ran, named>>
    BY <1>9, <1>l DEF Delete
  <2> QED
    BY <1>a, <1>n, <2>1 DEF StatusInv, AtWork, HandlerProgress, StopInv, ProcessInv,
        Present
<1>10. ASSUME Crash \/ Leave PROVE Goes
  <2>1. /\ pc' = "none" /\ proc' = "down" /\ cancelling' = FALSE
        /\ stops' = [s \in Stoppers |-> 0]
        /\ UNCHANGED <<saved, turn, ran, named, deleted>>
    BY <1>10 DEF Crash, Leave, Forget
  <2> QED
    BY <2>1 DEF StatusInv, AtWork, HandlerProgress, StopInv, ProcessInv, Present
<1>11. ASSUME Shutdown PROVE Goes
  <2>1. /\ pc \in Awaiting /\ stops = [s \in Stoppers |-> 0]
        /\ proc' = "stopping" /\ cancelling' = (pc \notin Resting)
        /\ UNCHANGED <<run, saved, pc, exit, turn, stops, ran, named, deleted>>
    BY <1>11 DEF Shutdown, HandlerMayRun
  <2>2. StatusInv' /\ HandlerProgress /\ StopInv'
    BY <2>1 DEF StatusInv, HandlerProgress, StopInv
  <2>3. ProcessInv'
    BY <2>1 DEF ProcessInv, Present
  <2> QED BY <2>2, <2>3
<1>12. ASSUME Recover PROVE Goes
  <2>1. /\ pc = "none" /\ proc' = "up"
        /\ UNCHANGED <<run, pc, exit, cancelling, turn, stops, ran, named, deleted>>
    BY <1>12 DEF Recover, ProcessInv
  <2>2. CASE saved.status \notin OpenStatus
    <3>1. saved' = saved
      BY <1>12, <2>2 DEF Recover
    <3> QED
      BY <2>1, <3>1 DEF StatusInv, AtWork, HandlerProgress, StopInv, ProcessInv, Present
  <2>3. CASE saved.status \in OpenStatus
    <3>1. saved' = [saved EXCEPT !.status = "interrupted", !.ledger = Repair(@)]
      BY <1>12, <2>3 DEF Recover
    <3>2. saved'.status = "interrupted"
      BY <1>r, <3>1, RunParts
    <3>3. StopInv'
      BY <2>1 DEF StopInv, ProcessInv
    <3>4. StatusInv' /\ HandlerProgress /\ ProcessInv'
      BY <1>a, <2>1, <2>3, <3>2 DEF StatusInv, AtWork, HandlerProgress, ProcessInv,
          Present
    <3> QED BY <3>3, <3>4
  <2> QED BY <2>2, <2>3
<1>13. ASSUME StartUnreconciled PROVE Goes
  <2>1. /\ proc' = "up" /\ proc = "down" /\ pc = "none"
        /\ UNCHANGED <<run, saved, pc, exit, cancelling, turn, stops, ran, named, deleted>>
    BY <1>13 DEF StartUnreconciled, ProcessInv
  <2> QED BY <2>1 DEF StatusInv, StopInv, ProcessInv, HandlerProgress, Present
<1> QED
  BY <1>1, <1>3, <1>4, <1>5, <1>6, <1>7, <1>8, <1>9, <1>10, <1>11, <1>12, <1>13
  DEF ConsoleStep

----------------------------------------------------------------------------
(* Stops, effects and titles in the steps of the coroutine.                 *)

\* Where the tool calls of an execution are counted.
Counting == InRound \cup {"turn", "inquiry"}

\* A cancelled coroutine does nothing but let its tool have its effect; a tool
\* starts at the price of one call; no other step counts or has an effect.
Frame ==
    /\ pc \notin Resting /\ pc' # "none"
    /\ cancelling => DeliverCancel \/ TakeEffect
    /\ cancelling' => cancelling /\ TakeEffect
    /\ pc \in {"unwind", "close"} => DeliverCancel \/ Unwind \/ CloseServers
    /\ ran' = ran \/ TakeEffect
    /\ pc' # "queued" /\ (pc' = "connect" => pc = "queued")
    /\ pc' \in Counting =>
          \/ pc' # "tool" /\ pc = "connect" /\ calls' = 0
          \/ pc' # "tool" /\ pc \in Counting /\ calls' = calls
          \/ pc' = "tool" /\ pc \in Counting \ {"tool"} /\ calls' = calls + 1

\* Every step of the coroutine is of this kind.
LEMMA TaskFrame ==
    ASSUME ProcessInv, TaskStep
    PROVE  Frame
<1>c. cancelling => pc \in Awaiting \ Resting
  BY DEF ProcessInv
<1> USE DEF Frame, Counting, InRound, Resting, Awaiting, locals, tallies, records
<1>1. ASSUME Begin PROVE Frame
  BY <1>c, <1>1 DEF Begin
<1>2. ASSUME InitFails PROVE Frame
  BY <1>c, <1>2 DEF InitFails
<1>3. ASSUME StartLoop PROVE Frame
  BY <1>c, <1>3 DEF StartLoop
<1>4. ASSUME AnswerInquiry PROVE Frame
  BY <1>c, <1>4 DEF AnswerInquiry
<1>5. ASSUME BuildContext PROVE Frame
  BY <1>c, <1>5 DEF BuildContext
<1>6. ASSUME OverBudget PROVE Frame
  BY <1>c, <1>6 DEF OverBudget
<1>7. ASSUME ReportOverBudget PROVE Frame
  BY <1>c, <1>7 DEF ReportOverBudget
<1>8. ASSUME ModelRetries PROVE Frame
  BY <1>c, <1>8 DEF ModelRetries
<1>9. ASSUME ModelAnswers PROVE Frame
  BY <1>c, <1>9 DEF ModelAnswers
<1>10. ASSUME ReviewAgain PROVE Frame
  BY <1>c, <1>10 DEF ReviewAgain
<1>11. ASSUME AcceptAnswer PROVE Frame
  BY <1>c, <1>11 DEF AcceptAnswer
<1>12. ASSUME Deliver PROVE Frame
  BY <1>c, <1>12 DEF Deliver
<1>13. ASSUME Approved PROVE Frame
  BY <1>c, <1>13 DEF Approved, StartTool
<1>14. ASSUME Declined PROVE Frame
  BY <1>c, <1>14 DEF Declined
<1>15. ASSUME TakeEffect PROVE Frame
  BY <1>c, <1>15 DEF TakeEffect
<1>16. ASSUME ToolSucceeds PROVE Frame
  BY <1>c, <1>16 DEF ToolSucceeds
<1>17. ASSUME ToolFails PROVE Frame
  BY <1>c, <1>17 DEF ToolFails
<1>18. ASSUME SaveResult PROVE Frame
  BY <1>c, <1>18 DEF SaveResult
<1>19. ASSUME Announce PROVE Frame
  BY <1>c, <1>19 DEF Announce
<1>20. ASSUME NextRound PROVE Frame
  BY <1>c, <1>20 DEF NextRound
<1>21. ASSUME StallOut PROVE Frame
  BY <1>c, <1>21 DEF StallOut
<1>22. ASSUME ReportStall PROVE Frame
  BY <1>c, <1>22 DEF ReportStall
<1>23. ASSUME Unwind PROVE Frame
  BY <1>c, <1>23 DEF Unwind
<1>24. ASSUME CloseServers PROVE Frame
  BY <1>c, <1>24 DEF CloseServers
<1>25. ASSUME RecordFailure PROVE Frame
  BY <1>c, <1>25 DEF RecordFailure
<1>26. ASSUME NoTurn PROVE Frame
  BY <1>c, <1>26 DEF NoTurn, Raise
<1>27. ASSUME ModelFails PROVE Frame
  BY <1>c, <1>27 DEF ModelFails, Raise
<1>28. ASSUME NEW a \in Actions, RefuseCall(a) PROVE Frame
  BY <1>c, <1>28 DEF RefuseCall, AtCall, AnswerUnrun
<1>29. ASSUME NEW a \in Actions, SkipCall(a) PROVE Frame
  BY <1>c, <1>29 DEF SkipCall, AtCall, AnswerUnrun
<1>30. ASSUME NEW a \in Actions, PlanCall(a) PROVE Frame
  BY <1>c, <1>30 DEF PlanCall, AtCall
<1>31. ASSUME NEW a \in Actions, InvalidPlan(a) PROVE Frame
  BY <1>c, <1>31 DEF InvalidPlan, AtCall
<1>32. ASSUME NEW a \in Actions, RunCall(a) PROVE Frame
  BY <1>c, <1>32 DEF RunCall, AtCall, StartTool
<1>33. ASSUME NEW a \in Actions, AskApproval(a) PROVE Frame
  BY <1>c, <1>33 DEF AskApproval, AtCall
<1>34. ASSUME NEW a \in Actions, RefuseUnoffered(a) PROVE Frame
  BY <1>c, <1>34 DEF RefuseUnoffered, AtCall
<1>35. ASSUME NEW a \in Actions, GiveUpPlanning(a) PROVE Frame
  BY <1>c, <1>35 DEF GiveUpPlanning, AtCall, Raise
<1>36. ASSUME NEW a \in Actions, ReachToolLimit(a) PROVE Frame
  BY <1>c, <1>36 DEF ReachToolLimit, AtCall, Raise
<1>37. ASSUME NEW cs \in Proposals, ModelProposes(cs) PROVE Frame
  BY <1>c, <1>37 DEF ModelProposes
<1>38. ASSUME DeliverCancel PROVE Frame
  BY <1>c, <1>38 DEF DeliverCancel
<1> QED
  BY <1>1, <1>2, <1>3, <1>4, <1>5, <1>6, <1>7, <1>8, <1>9, <1>10, <1>11,
      <1>12, <1>13, <1>14, <1>15, <1>16, <1>17, <1>18, <1>19, <1>20, <1>21,
      <1>22, <1>23, <1>24, <1>25, <1>26, <1>27, <1>28, <1>29, <1>30, <1>31,
      <1>32, <1>33, <1>34, <1>35, <1>36, <1>37, <1>38
  DEF TaskStep, CallStep

\* The coroutine never changes the title of its run, and what it saves is its
\* run or the file with another status and ledger.
Titled ==
    /\ run'.title = run.title
    /\ \/ saved'.title = run'.title
       \/ saved'.title = saved.title /\ (Present' => Present)

\* Every step of the coroutine is of this kind.
LEMMA TaskTitles ==
    ASSUME TypeInv, TaskStep
    PROVE  Titled
<1>r. run \in Runs /\ saved \in Runs
  BY DEF TypeInv, TypeOK, TypeOfRuns
<1> USE DEF Titled, Present
<1>c. ASSUME NEW o
      PROVE  LET closed == WithLedger(run, RecordUnfinished(run.ledger, o))
             IN  /\ closed.title = run.title
                 /\ \A s : WithStatus(closed, s).title = run.title
  <2>1. WithLedger(run, RecordUnfinished(run.ledger, o)).title = run.title
    BY <1>r, RunParts
  <2>2. \A s : WithStatus(WithLedger(run, RecordUnfinished(run.ledger, o)), s).title
                = run.title
    BY <1>r DEF WithStatus, WithLedger, Runs
  <2> QED BY <2>1, <2>2
<1>x. ASSUME Raise PROVE Titled
  BY <1>c, <1>x DEF Raise
<1>1. ASSUME Begin PROVE Titled
  BY <1>r, <1>1, RunParts DEF Begin
<1>2. ASSUME InitFails PROVE Titled
  BY <1>r, <1>2, RunParts DEF InitFails
<1>3. ASSUME StartLoop PROVE Titled
  BY <1>r, <1>3, RunParts DEF StartLoop
<1>4. ASSUME AnswerInquiry PROVE Titled
  <2>1. PICK verdict : /\ run' = [run EXCEPT !.status = verdict, !.ledger = Say(@)]
                       /\ saved' = run'
    BY <1>4 DEF AnswerInquiry
  <2> QED BY <1>r, <2>1, RunParts
<1>5. ASSUME BuildContext PROVE Titled
  BY <1>r, <1>5, RunParts DEF BuildContext
<1>6. ASSUME OverBudget PROVE Titled
  BY <1>r, <1>6, RunParts DEF OverBudget
<1>7. ASSUME ReportOverBudget PROVE Titled
  BY <1>r, <1>7, RunParts DEF ReportOverBudget
<1>8. ASSUME ModelRetries PROVE Titled
  BY <1>r, <1>8, RunParts DEF ModelRetries
<1>9. ASSUME ModelAnswers PROVE Titled
  BY <1>r, <1>9, RunParts DEF ModelAnswers
<1>10. ASSUME ReviewAgain PROVE Titled
  BY <1>r, <1>10, RunParts DEF ReviewAgain
<1>11. ASSUME AcceptAnswer PROVE Titled
  BY <1>r, <1>11, RunParts DEF AcceptAnswer
<1>12. ASSUME Deliver PROVE Titled
  BY <1>r, <1>12, RunParts DEF Deliver
<1>13. ASSUME Approved PROVE Titled
  BY <1>r, <1>13, RunParts DEF Approved, StartTool
<1>14. ASSUME Declined PROVE Titled
  BY <1>r, <1>14, RunParts DEF Declined
<1>15. ASSUME TakeEffect PROVE Titled
  BY <1>r, <1>15, RunParts DEF TakeEffect
<1>16. ASSUME ToolSucceeds PROVE Titled
  BY <1>r, <1>16, RunParts DEF ToolSucceeds
<1>17. ASSUME ToolFails PROVE Titled
  BY <1>r, <1>17, RunParts DEF ToolFails
<1>18. ASSUME SaveResult PROVE Titled
  BY <1>r, <1>18, RunParts DEF SaveResult
<1>19. ASSUME Announce PROVE Titled
  BY <1>r, <1>19, RunParts DEF Announce
<1>20. ASSUME NextRound PROVE Titled
  BY <1>r, <1>20, RunParts DEF NextRound
<1>21. ASSUME StallOut PROVE Titled
  BY <1>r, <1>21, RunParts DEF StallOut
<1>22. ASSUME ReportStall PROVE Titled
  BY <1>r, <1>22, RunParts DEF ReportStall
<1>23. ASSUME Unwind PROVE Titled
  BY <1>r, <1>23, RunParts DEF Unwind
<1>24. ASSUME CloseServers PROVE Titled
  BY <1>r, <1>24, RunParts DEF CloseServers
<1>25. ASSUME RecordFailure PROVE Titled
  BY <1>r, <1>25, RunParts DEF RecordFailure
<1>26. ASSUME NoTurn PROVE Titled
  BY <1>x, <1>26 DEF NoTurn
<1>27. ASSUME ModelFails PROVE Titled
  BY <1>x, <1>27 DEF ModelFails
<1>28. ASSUME NEW a \in Actions, RefuseCall(a) PROVE Titled
  BY <1>r, <1>28, RunParts DEF RefuseCall, AnswerUnrun
<1>29. ASSUME NEW a \in Actions, SkipCall(a) PROVE Titled
  BY <1>r, <1>29, RunParts DEF SkipCall, AnswerUnrun
<1>30. ASSUME NEW a \in Actions, PlanCall(a) PROVE Titled
  BY <1>r, <1>30, RunParts DEF PlanCall
<1>31. ASSUME NEW a \in Actions, InvalidPlan(a) PROVE Titled
  BY <1>r, <1>31, RunParts DEF InvalidPlan
<1>32. ASSUME NEW a \in Actions, RunCall(a) PROVE Titled
  BY <1>r, <1>32, RunParts DEF RunCall, StartTool
<1>33. ASSUME NEW a \in Actions, AskApproval(a) PROVE Titled
  BY <1>r, <1>33, RunParts DEF AskApproval
<1>34. ASSUME NEW a \in Actions, RefuseUnoffered(a) PROVE Titled
  BY <1>r, <1>34, RunParts DEF RefuseUnoffered
<1>35. ASSUME NEW a \in Actions, GiveUpPlanning(a) PROVE Titled
  BY <1>x, <1>35 DEF GiveUpPlanning
<1>36. ASSUME NEW a \in Actions, ReachToolLimit(a) PROVE Titled
  BY <1>x, <1>36 DEF ReachToolLimit
<1>37. ASSUME NEW cs \in Proposals, ModelProposes(cs) PROVE Titled
  BY <1>r, <1>37, RunParts DEF ModelProposes
<1>38. ASSUME DeliverCancel PROVE Titled
  BY <1>c, <1>38 DEF DeliverCancel, CancelInside, CancelOutside
<1> QED
  BY <1>1, <1>2, <1>3, <1>4, <1>5, <1>6, <1>7, <1>8, <1>9, <1>10, <1>11,
      <1>12, <1>13, <1>14, <1>15, <1>16, <1>17, <1>18, <1>19, <1>20, <1>21,
      <1>22, <1>23, <1>24, <1>25, <1>26, <1>27, <1>28, <1>29, <1>30, <1>31,
      <1>32, <1>33, <1>34, <1>35, <1>36, <1>37, <1>38
  DEF TaskStep, CallStep

\* A stop that was asked for still finds its execution cancelled or leaving,
\* and the first step of an execution finds no stop for the one before it.
LEMMA TaskStops ==
    ASSUME TypeInv, ProcessInv, StatusInv, StopInv, Execute
    PROVE  StopInv'
<1>r. run \in Runs /\ saved \in Runs
  BY DEF TypeInv, TypeOK, TypeOfRuns
<1>f. Frame
  BY TaskFrame DEF Execute
<1>w. /\ UNCHANGED <<stops, turn>> /\ TaskStep
      /\ pc = "queued" => \A s \in Stoppers : stops[s] \in {0, turn}
  BY DEF Execute, webVars
<1> SUFFICES ASSUME NEW s \in Stoppers
             PROVE  /\ stops[s] \in {0, turn}
                    /\ stops[s] = turn /\ turn # 0 =>
                          /\ cancelling' \/ pc' \in {"unwind", "close", "done"}
                          /\ saved'.status \notin {"completed", "interrupted"}
                          /\ pc' \in {"unwind", "close"} =>
                                /\ run'.status # "completed"
                                /\ cancelling' \/ exit' = "cancel"
  BY <1>w DEF StopInv
<1>1. stops[s] \in {0, turn}
  BY <1>w DEF StopInv
<1> SUFFICES ASSUME stops[s] = turn, turn # 0
             PROVE  /\ cancelling' \/ pc' \in {"unwind", "close", "done"}
                    /\ saved'.status \notin {"completed", "interrupted"}
                    /\ pc' \in {"unwind", "close"} =>
                          /\ run'.status # "completed"
                          /\ cancelling' \/ exit' = "cancel"
  BY <1>1
<1>2. /\ cancelling \/ pc \in {"unwind", "close", "done"}
      /\ saved.status \notin {"completed", "interrupted"}
      /\ pc \in {"unwind", "close"} => /\ run.status # "completed"
                                       /\ cancelling \/ exit = "cancel"
  BY DEF StopInv
<1>3. CASE TakeEffect
  BY <1>2, <1>3 DEF TakeEffect
<1>4. CASE DeliverCancel
  <2>1. exit' = "cancel"
    BY <1>4 DEF DeliverCancel
  <2>2. CASE pc \in {"queued", "connect", "close"}
    BY <1>2, <1>4, <2>1, <2>2 DEF DeliverCancel
  <2>3. CASE pc \in {"over_budget", "unwind"}
    BY <1>2, <1>4, <2>1, <2>3 DEF DeliverCancel, StatusInv
  <2> DEFINE closed == WithLedger(run, RecordUnfinished(run.ledger, "cancelled"))
  <2>c. closed.status = run.status /\ WithStatus(closed, "cancelled").status = "cancelled"
    <3>1. closed.status = run.status
      BY <1>r, RunParts
    <3>2. WithStatus(closed, "cancelled").status = "cancelled"
      BY <1>r DEF WithStatus, WithLedger, Runs
    <3> QED BY <3>1, <3>2
  <2>4. CASE pc \in {"inquiry", "chat", "judge", "stalling"}
    <3>1. pc' = "unwind" /\ CancelOutside
      BY <1>4, <2>4 DEF DeliverCancel
    <3>2. saved' = saved /\ run'.status # "completed"
      BY <2>4, <2>c, <3>1 DEF CancelOutside, StatusInv, AtWork, OpenStatus
    <3> QED BY <1>2, <2>1, <3>1, <3>2
  <2>5. CASE pc \in {"approve", "tool", "reply"}
    <3>1. pc' = "unwind" /\ CancelInside
      BY <1>4, <2>5 DEF DeliverCancel
    <3>2. run'.status = "cancelled" /\ saved'.status = run.status
      BY <2>c, <3>1 DEF CancelInside
    <3>3. run.status \in {"running", "waiting_approval"}
      BY <2>5 DEF StatusInv, AtWork
    <3> QED BY <2>1, <3>1, <3>2, <3>3
  <2> QED BY <1>4, <2>2, <2>3, <2>4, <2>5 DEF DeliverCancel
<1>5. CASE ~cancelling /\ ~TakeEffect /\ ~DeliverCancel
  <2>1. pc \in {"unwind", "close"} /\ exit = "cancel" /\ run.status # "completed"
    BY <1>2, <1>5, <1>f DEF Frame, Resting
  <2>2. CASE Unwind
    BY <2>1, <2>2 DEF Unwind, StatusInv, Verdicts
  <2>3. CASE CloseServers
    BY <1>2, <2>1, <2>3 DEF CloseServers
  <2> QED BY <1>5, <1>f, <2>1, <2>2, <2>3 DEF Frame
<1> QED BY <1>3, <1>4, <1>5, <1>f DEF Frame

\* The coroutine keeps what the process keeps, and the title.
LEMMA TaskProcess ==
    ASSUME TypeInv, TypeInv', LifeInv, ProcessInv, StatusInv, TitleInv, Execute
    PROVE  ProcessInv' /\ TitleInv'
<1>f. Frame /\ Titled /\ StatusInv' /\ Progress
  BY TaskFrame, TaskTitles, TaskStatus DEF Execute
<1>w. UNCHANGED webVars /\ proc # "down"
  BY DEF Execute
<1>p. Present /\ turn > 0 /\ turn \in Nat
  BY <1>f, AtWorkIsPresent DEF Frame
<1>1. Present'
  <2>1. CASE pc' \in Resting
    BY <1>f, <1>p, <2>1 DEF Progress, Present
  <2>2. CASE pc' \notin Resting
    BY <1>f, <2>2 DEF TypeInv, TypeOK, TypeOfTask, Places, Awaiting, Resting,
        StatusInv, AtWork, Verdicts, Present
  <2> QED BY <2>1, <2>2
<1>2. cancelling' => pc' = "reply"
  BY <1>f DEF Frame, TakeEffect
<1>3. ProcessInv'
  BY <1>f, <1>w, <1>p, <1>1, <1>2 DEF ProcessInv, Frame, webVars, Awaiting, Resting
<1>4. TitleInv'
  BY <1>f, <1>w, <1>p DEF TitleInv, RenameSticks, Titled, Frame, webVars
<1> QED BY <1>3, <1>4

\* No execution has more effects than its calls: a tool is counted before it
\* starts, and its effect comes once.
LEMMA TaskLimit ==
    ASSUME TypeInv, LifeInv, ProcessInv, LedgerInv, EffectInv, LimitInv, Execute
    PROVE  LimitInv'
<1>f. Frame
  BY TaskFrame DEF Execute
<1>w. turn' = turn /\ turn \in Nat /\ turn > 0
  BY <1>f, AtWorkIsPresent DEF Execute, webVars, Frame
<1>t. /\ calls \in Nat /\ calls <= MaxToolCalls /\ MaxToolCalls \in Nat
      /\ ran \in [Actions -> Nat]
  BY RunnerAssumption DEF TypeInv, TypeOK, TypeOfTallies, TypeOfRecords
<1> DEFINE before == (turn - 1) * MaxToolCalls
           total == turn * MaxToolCalls
<1>b. before \in Int /\ total \in Int /\ total = before + MaxToolCalls
  <2>1. turn = (turn - 1) + 1
    BY <1>w
  <2>2. \A n, m \in Int : (n + 1) * m = n * m + m /\ n * m \in Int
    OBVIOUS
  <2>3. turn - 1 \in Int /\ MaxToolCalls \in Int
    BY <1>w, <1>t
  <2>4. (turn - 1 + 1) * MaxToolCalls = before + MaxToolCalls /\ before \in Int
    BY <2>2, <2>3
  <2> QED BY <1>t, <2>1, <2>4
<1>e. /\ IsFiniteSet(Effects) /\ Cardinality(Effects) \in Nat
      /\ Cardinality(Effects) <= total
      /\ pc \in {"queued", "connect"} => Cardinality(Effects) <= before
      /\ pc \in Counting =>
            Cardinality(Effects) + (IF pc = "tool" THEN 1 ELSE 0) <= before + calls
  BY FS_CardinalityType DEF LimitInv, EffectsWithinLimit, Effects, Counting
<1>g. SUFFICES
        /\ IsFiniteSet(Effects')
        /\ Cardinality(Effects') <= total
        /\ pc' \in {"queued", "connect"} => Cardinality(Effects') <= before
        /\ pc' \in Counting =>
              Cardinality(Effects') + (IF pc' = "tool" THEN 1 ELSE 0)
                  <= before + calls'
  BY <1>w DEF LimitInv, EffectsWithinLimit, Effects, Counting
<1> HIDE DEF before, total
<1>1. CASE ran' = ran
  <2>1. Effects' = Effects
    BY <1>1 DEF Effects
  <2>2. Cardinality(Effects') = Cardinality(Effects)
    BY <2>1
  <2>3. pc' \in {"queued", "connect"} => pc = "queued"
    BY <1>f DEF Frame
  <2>4. ASSUME pc' \in Counting
        PROVE  Cardinality(Effects) + (IF pc' = "tool" THEN 1 ELSE 0)
                   <= before + calls'
    <3>1. CASE pc' # "tool" /\ pc = "connect" /\ calls' = 0
      BY <1>b, <1>e, <3>1
    <3>2. CASE pc' # "tool" /\ pc \in Counting /\ calls' = calls
      BY <1>b, <1>e, <1>t, <3>2
    <3>3. CASE pc' = "tool" /\ pc \in Counting \ {"tool"} /\ calls' = calls + 1
      BY <1>b, <1>e, <1>t, <3>3
    <3> QED BY <1>f, <2>4, <3>1, <3>2, <3>3 DEF Frame
  <2> QED BY <1>e, <2>1, <2>2, <2>3, <2>4
<1>2. CASE TakeEffect
  <2>1. /\ pc = "tool" /\ pc' = "reply" /\ calls' = calls
        /\ ran' = [ran EXCEPT ![at] = ran[at] + 1]
    BY <1>2 DEF TakeEffect, locals, tallies
  <2>2. at \in Actions
    BY <2>1 DEF TypeInv, LoopInv
  <2>3. Effects' = Effects \cup {at}
    BY <1>t, <2>1, <2>2 DEF Effects
  <2>4. /\ IsFiniteSet(Effects')
        /\ Cardinality(Effects') \in {Cardinality(Effects), Cardinality(Effects) + 1}
    BY <1>e, <2>3, FS_AddElement
  <2>5. Cardinality(Effects) + 1 <= before + calls
    BY <1>e, <2>1 DEF Counting, InRound
  <2>6. /\ Cardinality(Effects') <= before + calls
        /\ Cardinality(Effects') + 0 <= before + calls'
        /\ Cardinality(Effects') <= total
    BY <1>b, <1>e, <1>t, <2>1, <2>4, <2>5
  <2> QED BY <2>1, <2>4, <2>6
<1> QED BY <1>1, <1>2, <1>f DEF Frame

\* Where every start reconciles, the coroutine answers every call it leaves.
LEMMA TaskReconciled ==
    ASSUME TypeInv, LifeInv, ProcessInv, LedgerInv, StatusInv, ReconciledInv,
           Execute
    PROVE  ReconciledInv'
<1> SUFFICES ASSUME ~ConfigBreaks
             PROVE  /\ pc' \notin Resting => Open(run'.ledger) \subseteq run'.ledger.tail
                    /\ Open(saved'.ledger) # {} => /\ saved'.status \in OpenStatus
                                                   /\ pc' \in InGroup
  BY DEF ReconciledInv
<1>s. Shapes /\ StatusInv' /\ pc \notin Resting
  BY TaskShape, TaskStatus, TaskFrame DEF Execute, Frame
<1>o. pc' \in InGroup => saved'.status \in OpenStatus
  BY <1>s DEF InGroup, StatusInv, AtWork, OpenStatus
<1>t. Open(run.ledger) \subseteq run.ledger.tail /\ Open(run.ledger) = GroupOpen(run)
  BY <1>s DEF ReconciledInv, GroupOpen
<1>e. pc # "record" =>
        \A b \in Actions : saved.ledger.result[b] = run.ledger.result[b]
  BY <1>s DEF LedgerInv
<1> USE DEF Resting, InGroup, Same, Open
<1>1. CASE Talks
  <2>1. Open(run'.ledger) = {} /\ Open(saved'.ledger) = {}
    BY <1>1, <1>t, <1>e DEF Talks
  <2> QED BY <2>1
<1>2. ASSUME NEW cs \in SUBSET Actions, Proposes(cs)
      PROVE  Open(run'.ledger) \subseteq run'.ledger.tail /\ pc' \in InGroup
  <2>1. Open(run.ledger) = {}
    BY <1>2, <1>t DEF Proposes, LedgerInv
  <2> QED BY <1>2, <2>1 DEF Proposes
<1>3. ASSUME NEW a \in Actions, NEW o \in Outcomes, Answers(a, o)
      PROVE  Open(run'.ledger) \subseteq run'.ledger.tail /\ pc' \in InGroup
  <2>1. o # "open"
    BY DEF Outcomes
  <2> QED BY <1>3, <1>t, <2>1 DEF Answers
<1>4. ASSUME NEW a \in Actions, NEW kind \in {"required", "started"}, Starts(a, kind)
      PROVE  Open(run'.ledger) \subseteq run'.ledger.tail /\ pc' \in InGroup
  BY <1>4, <1>t DEF Starts
<1>5. ASSUME NEW o \in {"failed", "cancelled"}, Closes(o)
      PROVE  Open(run'.ledger) = {} /\ Open(saved'.ledger) = {}
  BY <1>5, <1>t DEF Closes
<1>6. CASE TakeEffect \/ SaveResult \/ Announce
  <2>1. run' = run /\ pc' \in InGroup
    BY <1>6 DEF TakeEffect, SaveResult, Announce
  <2> QED BY <1>t, <1>o, <2>1
<1>7. CASE ToolSucceeds
  <2>1. /\ run' = WithLedger(run, Answer(run.ledger, at, "succeeded"))
        /\ run \in Runs /\ run.ledger \in Ledgers /\ pc' = "record"
    BY <1>7, RunTypes DEF ToolSucceeds, TypeInv, TypeOK, TypeOfRuns
  <2>2. run'.ledger = Answer(run.ledger, at, "succeeded")
    BY <2>1, RunParts
  <2>3. /\ run'.ledger.tail = run.ledger.tail
        /\ \A b \in Actions : run'.ledger.result[b] =
              IF b = at THEN "succeeded" ELSE run.ledger.result[b]
    BY <2>1, <2>2, LedgerParts
  <2>4. Open(run'.ledger) \subseteq run'.ledger.tail
    BY <1>t, <2>3
  <2> QED BY <1>o, <2>1, <2>4
<1> QED BY <1>s, <1>o, <1>1, <1>2, <1>3, <1>4, <1>5, <1>6, <1>7 DEF Shapes

\* The rest of what the handlers keep: titles reach both copies, effects and
\* executions are counted apart, and no open call is left where none is at work.
LEMMA HandlerRest ==
    ASSUME TypeInv, TypeInv', LifeInv, ProcessInv, LedgerInv, StatusInv, StopInv,
           TitleInv, LimitInv, ConsoleStep
    PROVE  TitleInv' /\ LimitInv'
<1>r. /\ run \in Runs /\ saved \in Runs /\ NewRun \in Runs /\ turn \in Nat
  BY NewRunType, ConsoleAssumption DEF TypeInv, TypeOK, TypeOfRuns, TypeOfConsole
<1>l. ~Live \/ turn = 0 => pc \in Resting
  BY NotLiveIsAtRest
<1>m. MaxToolCalls \in Nat
  BY RunnerAssumption
<1>n. NewRun.status = "absent"
  BY DEF NewRun
<1> USE DEF Resting, runnerVars, webVars, locals, tallies, records
<1>1. ASSUME UNCHANGED <<pc, calls, ran, turn>> PROVE LimitInv'
  BY <1>1 DEF LimitInv, EffectsWithinLimit, Effects
<1>2. ASSUME pc' = "none", UNCHANGED <<ran, turn>> PROVE LimitInv'
  BY <1>2 DEF LimitInv, EffectsWithinLimit, Effects, InRound
<1>3. ASSUME StartTopic \/ FollowUp PROVE TitleInv' /\ LimitInv'
  <2>1. /\ pc' = "queued" /\ turn' = turn + 1 /\ run' = saved' /\ named' = named
        /\ ran' = ran
    BY <1>3 DEF StartTopic, FollowUp, Launch
  <2>2. saved'.title = named
    <3>1. CASE StartTopic
      <4>1. named = NewRun.title /\ saved' = WithStatus(NewRun, "created")
        BY <3>1 DEF StartTopic, Launch, ProcessInv, WithStatus
      <4> QED BY <1>r, <4>1, RunParts
    <3>2. CASE FollowUp
      <4>1. /\ saved' = [saved EXCEPT !.status = "created", !.ledger = Say(saved.ledger)]
            /\ saved.title = named
        BY <3>2 DEF FollowUp, Launch, TitleInv, RenameSticks
      <4> QED BY <1>r, <4>1, RunParts
    <3> QED BY <1>3, <3>1, <3>2
  <2>3. TitleInv'
    BY <2>1, <2>2 DEF TitleInv, RenameSticks
  <2>4. Effects' = Effects
    BY <2>1 DEF Effects
  <2>5. /\ IsFiniteSet(Effects) /\ Cardinality(Effects) \in Nat
        /\ Cardinality(Effects) <= turn * MaxToolCalls
    BY FS_CardinalityType DEF LimitInv, EffectsWithinLimit, Effects
  <2>6. \A n, m \in Nat : /\ (n + 1) * m = n * m + m /\ n * m \in Nat
                          /\ n + 1 - 1 = n
    OBVIOUS
  <2> DEFINE total == turn * MaxToolCalls
             more == turn' * MaxToolCalls
             before == (turn' - 1) * MaxToolCalls
  <2>7. total \in Nat /\ more = total + MaxToolCalls /\ before = total
    <3>1. /\ total \in Nat /\ (turn + 1) * MaxToolCalls = total + MaxToolCalls
          /\ turn + 1 - 1 = turn
      BY <1>r, <1>m, <2>6
    <3>2. more = (turn + 1) * MaxToolCalls
      BY <2>1
    <3>3. turn' - 1 = turn
      BY <1>r, <2>1
    <3>4. before = total
      BY <3>3
    <3> QED BY <3>1, <3>2, <3>4
  <2>8. Cardinality(Effects) <= total
    BY <2>5
  <2> HIDE DEF total, more, before
  <2>9. Cardinality(Effects') <= more /\ Cardinality(Effects') <= before
    BY <1>m, <2>4, <2>5, <2>7, <2>8
  <2> USE DEF more, before
  <2>10. LimitInv'
    BY <2>1, <2>4, <2>5, <2>9 DEF LimitInv, EffectsWithinLimit, Effects, InRound
  <2> QED BY <2>3, <2>10
<1>4. ASSUME UNCHANGED <<run, saved, pc, named>> PROVE TitleInv'
  BY <1>4 DEF TitleInv, RenameSticks, Present
<1>5. ASSUME NEW t \in Turns, Release(t) PROVE TitleInv' /\ LimitInv'
  BY <1>1, <1>4, <1>5 DEF Release
<1>6. ASSUME NEW s \in Stoppers, RequestStop(s) PROVE TitleInv' /\ LimitInv'
  BY <1>1, <1>4, <1>6 DEF RequestStop
<1>7. ASSUME NEW s \in Stoppers, StopAbandoned(s) PROVE TitleInv' /\ LimitInv'
  <2>1. saved'.title = saved.title /\ Present
    BY <1>7, <1>r, RunParts DEF StopAbandoned, Present, OpenStatus
  <2>2. TitleInv'
    BY <1>7, <2>1 DEF StopAbandoned, TitleInv, RenameSticks
  <2> QED BY <1>1, <1>7, <2>2 DEF StopAbandoned
<1>8. ASSUME NEW s \in Stoppers, FinishStop(s) PROVE TitleInv' /\ LimitInv'
  <2>1. WithStatus(saved, "cancelled").title = saved.title
    BY <1>r, RunParts
  <2>2. TitleInv'
    BY <1>8, <2>1 DEF FinishStop, TitleInv, RenameSticks, Present
  <2> QED BY <1>1, <1>8, <2>2 DEF FinishStop
<1>9. ASSUME NEW a \in Actions, DecideApproval(a) PROVE TitleInv' /\ LimitInv'
  BY <1>1, <1>4, <1>9 DEF DecideApproval
<1>10. ASSUME NEW t \in Titles, Rename(t) PROVE TitleInv' /\ LimitInv'
  <2>1. UNCHANGED <<pc, calls, ran, turn>> /\ named' = t
    BY <1>10 DEF Rename
  <2>2. TitleInv'
    <3>1. CASE Live
      <4>1. run' = [run EXCEPT !.title = t] /\ saved' = run'
        BY <1>10, <3>1 DEF Rename
      <4>2. run'.title = t
        BY <1>r, <4>1, RunParts
      <4> QED BY <2>1, <4>1, <4>2 DEF TitleInv, RenameSticks
    <3>2. CASE ~Live
      <4>1. saved' = [saved EXCEPT !.title = t]
        BY <1>10, <3>2 DEF Rename
      <4>2. saved'.title = t
        BY <1>r, <4>1, RunParts
      <4> QED BY <1>l, <2>1, <3>2, <4>2 DEF TitleInv, RenameSticks
    <3> QED BY <3>1, <3>2
  <2> QED BY <1>1, <2>1, <2>2
<1>11. ASSUME Delete PROVE TitleInv' /\ LimitInv'
  <2>1. TitleInv'
    BY <1>l, <1>n, <1>11 DEF Delete, TitleInv, RenameSticks, Present
  <2> QED BY <1>1, <1>11, <2>1 DEF Delete
<1>12. ASSUME Crash \/ Leave PROVE TitleInv' /\ LimitInv'
  <2>1. pc' = "none" /\ UNCHANGED <<saved, ran, turn, named>>
    BY <1>12 DEF Crash, Leave, Forget
  <2> QED BY <1>2, <2>1 DEF TitleInv, RenameSticks, Present
<1>13. ASSUME Shutdown PROVE TitleInv' /\ LimitInv'
  BY <1>1, <1>4, <1>13 DEF Shutdown
<1>14. ASSUME Recover PROVE TitleInv' /\ LimitInv'
  <2>1. pc = "none" /\ UNCHANGED <<pc, calls, ran, turn, named>>
    BY <1>14 DEF Recover, ProcessInv
  <2>2. saved'.title = saved.title /\ (Present' => Present)
    <3>1. [saved EXCEPT !.status = "interrupted", !.ledger = Repair(saved.ledger)].title
              = saved.title
      BY <1>r, RunParts
    <3> QED BY <1>14, <3>1 DEF Recover, Present, OpenStatus
  <2>3. TitleInv'
    BY <2>1, <2>2 DEF TitleInv, RenameSticks
  <2> QED BY <1>1, <2>1, <2>3
<1>15. ASSUME StartUnreconciled PROVE TitleInv' /\ LimitInv'
  BY <1>1, <1>4, <1>15 DEF StartUnreconciled
<1> QED
  BY <1>3, <1>5, <1>6, <1>7, <1>8, <1>9, <1>10, <1>11, <1>12, <1>13, <1>14, <1>15
  DEF ConsoleStep

\* The handlers leave no open call behind: what acts on a file does so while no
\* group is at work on it, and a recovery answers what a death left.
LEMMA HandlerReconciled ==
    ASSUME TypeInv, LifeInv, ProcessInv, LedgerInv, StatusInv, StatusInv',
           StopInv, ReconciledInv, ConsoleStep
    PROVE  ReconciledInv'
<1> SUFFICES ASSUME ~ConfigBreaks
             PROVE  /\ pc' \notin Resting => Open(run'.ledger) \subseteq run'.ledger.tail
                    /\ Open(saved'.ledger) # {} => /\ saved'.status \in OpenStatus
                                                   /\ proc' = "down" \/ pc' \in InGroup
  BY DEF ReconciledInv
<1>i. /\ pc \notin Resting => Open(run.ledger) \subseteq run.ledger.tail
      /\ Open(saved.ledger) # {} => /\ saved.status \in OpenStatus
                                    /\ proc = "down" \/ pc \in InGroup
  BY DEF ReconciledInv
<1>r. saved \in Runs /\ saved.ledger \in Ledgers
  BY RunTypes DEF TypeInv, TypeOK, TypeOfRuns
<1> USE DEF Resting, InGroup, Same
<1>1. CASE Leaves
  <2>1. /\ Open(run'.ledger) = Open(run.ledger)
        /\ Open(saved'.ledger) = Open(saved.ledger)
    BY <1>1 DEF Leaves, Open
  <2>2. ASSUME Open(saved.ledger) # {}
        PROVE  saved'.status \in OpenStatus /\ (proc' = "down" \/ pc' \in InGroup)
    <3>1. CASE pc \in InGroup
      <4>1. saved'.status \in OpenStatus
        BY <1>1, <3>1 DEF Leaves, StatusInv, AtWork, OpenStatus
      <4> QED BY <1>1, <3>1, <4>1 DEF Leaves
    <3>2. CASE proc = "down"
      <4>1. proc' = "down"
        BY <1>1, <3>2 DEF Leaves
      <4>2. saved' = saved
        BY <3>2, <4>1 DEF ConsoleStep, StartTopic, FollowUp, Release, RequestStop,
            StopAbandoned, FinishStop, DecideApproval, Rename, Delete, Crash,
            Shutdown, Leave, Recover, StartUnreconciled, HandlerMayRun
      <4> QED BY <1>i, <2>2, <4>1, <4>2
    <3> QED BY <1>i, <2>2, <3>1, <3>2
  <2> QED BY <1>1, <1>i, <2>1, <2>2 DEF Leaves
<1>2. CASE Launches
  <2>1. Open(saved.ledger) = {}
    BY <1>2, <1>i DEF Launches
  <2>2. Open(saved'.ledger) = {} /\ Open(run'.ledger) = {}
    BY <1>2, <2>1 DEF Launches, Open
  <2> QED BY <2>2
<1>3. CASE Dies
  BY <1>3, <1>i DEF Dies
<1>4. CASE Delete
  <2>1. pc \in Resting /\ pc' = pc /\ saved' = NewRun
    BY <1>4, NotLiveIsAtRest DEF Delete
  <2>2. Open(saved'.ledger) = {}
    BY <2>1 DEF NewRun, EmptyLedger, Open
  <2> QED BY <2>1, <2>2
<1>5. CASE Recover
  <2>1. pc = "none" /\ pc' = pc
    BY <1>5 DEF Recover, ProcessInv
  <2>2. Open(saved'.ledger) = {}
    <3>1. CASE saved.status \notin OpenStatus
      BY <1>5, <1>i, <3>1 DEF Recover
    <3>2. CASE saved.status \in OpenStatus
      <4>1. saved' = [saved EXCEPT !.status = "interrupted", !.ledger = Repair(saved.ledger)]
        BY <1>5, <3>2 DEF Recover
      <4>2. saved'.ledger = Repair(saved.ledger)
        BY <1>r, <4>1, RunParts
      <4> QED BY <1>r, <4>2, LedgerParts DEF Open
    <3> QED BY <3>1, <3>2
  <2> QED BY <2>1, <2>2
<1> QED BY <1>1, <1>2, <1>3, <1>4, <1>5, HandlerShape

----------------------------------------------------------------------------
(* The invariant.                                                           *)

\* The console starts in the invariant.
LEMMA ConsoleInit == Init => ConsoleInv
<1> SUFFICES ASSUME Init PROVE ConsoleInv
  OBVIOUS
<1>1. SafetyInv
  BY SafetyInit
<1>2. /\ run = NewRun /\ saved = NewRun /\ pc = "none" /\ turn = 0
      /\ \A s \in Stoppers : stops[s] = 0
      /\ \A a \in Actions : ran[a] = 0
      /\ named = NewRun.title /\ events = {} /\ cancelling = FALSE
  BY DEF Init
<1>3. /\ NewRun.status = "absent" /\ NewRun.ledger.tail = {}
      /\ \A a \in Actions : NewRun.ledger.result[a] = "absent"
  BY DEF NewRun, EmptyLedger
<1>4. ProcessInv
  BY <1>2, <1>3 DEF Init, ProcessInv, Present
<1>5. LedgerInv
  BY <1>2 DEF LedgerInv, Resting
<1>6. EffectInv
  BY <1>2, <1>3 DEF EffectInv, SuccessIsReal, Resting, Present
<1>7. EventsInv
  BY <1>2 DEF EventsInv
<1>8. ReconciledInv
  BY <1>2, <1>3 DEF ReconciledInv, Resting, Open
<1>9. StatusInv
  BY <1>2 DEF StatusInv, AtWork
<1>10. StopInv
  BY <1>2 DEF StopInv
<1>11. TitleInv
  BY <1>2 DEF TitleInv, RenameSticks, Resting
<1>12. LimitInv
  <2>1. Effects = {}
    BY <1>2 DEF Effects
  <2>2. IsFiniteSet(Effects) /\ Cardinality(Effects) = 0
    BY <2>1, FS_EmptySet
  <2>3. 0 <= turn * MaxToolCalls
    BY <1>2, RunnerAssumption
  <2> QED
    BY <1>2, <2>2, <2>3 DEF LimitInv, EffectsWithinLimit, Effects, InRound
<1> QED
  BY <1>1, <1>4, <1>5, <1>6, <1>7, <1>8, <1>9, <1>10, <1>11, <1>12 DEF ConsoleInv

\* Every step of the console keeps it.
LEMMA ConsoleStepKeeps == ConsoleInv /\ [Next]_vars => ConsoleInv'
<1> SUFFICES ASSUME ConsoleInv, [Next]_vars PROVE ConsoleInv'
  OBVIOUS
<1>1. SafetyInv' /\ TypeInv /\ TypeInv' /\ LifeInv
  BY SafetyStep DEF ConsoleInv, SafetyInv, TypeInv
<1> USE <1>1 DEF ConsoleInv
<1>2. CASE Execute
  <2>1. TaskStep
    BY <1>2 DEF Execute
  <2>2. LedgerInv' /\ EffectInv' /\ EventsInv'
    BY <2>1, TaskLedger
  <2>3. StatusInv'
    BY <2>1, TaskStatus
  <2>4. StopInv'
    BY <1>2, TaskStops
  <2>5. ProcessInv' /\ TitleInv'
    BY <1>2, TaskProcess
  <2>6. LimitInv' /\ ReconciledInv'
    BY <1>2, TaskLimit, TaskReconciled
  <2> QED BY <2>2, <2>3, <2>4, <2>5, <2>6
<1>3. CASE ConsoleStep
  <2>1. LedgerInv' /\ EffectInv' /\ EventsInv'
    BY <1>3, HandlerLedger
  <2>2. StatusInv' /\ StopInv' /\ ProcessInv'
    BY <1>3, HandlerStatus
  <2>3. TitleInv' /\ LimitInv'
    BY <1>3, HandlerRest
  <2>4. ReconciledInv'
    BY <1>3, <2>2, HandlerReconciled
  <2> QED BY <2>1, <2>2, <2>3, <2>4
<1>4. CASE UNCHANGED vars
  <2>1. UNCHANGED <<run, saved, pc, exit, cancelling, pending, calls, at, events,
                    checkpoints, ran, proc, turn, stops, named, deleted>>
    BY <1>4 DEF vars, runnerVars, webVars
  <2>2. ProcessInv' /\ StopInv' /\ StatusInv' /\ TitleInv'
    BY <2>1 DEF ProcessInv, StopInv, StatusInv, TitleInv, RenameSticks, Present
  <2>3. LedgerInv' /\ EventsInv'
    BY <2>1 DEF LedgerInv, EventsInv, GroupOpen
  <2>4. EffectInv'
    BY <2>1 DEF EffectInv, SuccessIsReal, GroupOpen, Present
  <2>5. ReconciledInv'
    BY <2>1 DEF ReconciledInv
  <2>6. LimitInv'
    BY <2>1 DEF LimitInv, EffectsWithinLimit, Effects
  <2> QED BY <2>2, <2>3, <2>4, <2>5, <2>6
<1> QED BY <1>2, <1>3, <1>4 DEF Next

----------------------------------------------------------------------------
(* The theorems.                                                            *)

\* The invariant of what the console records: whatever the user, the model,
\* the tools and the process do, the file, the run in memory, the effects, the
\* events, the statuses, the stops and the titles fit together.
THEOREM ConsoleInvariant == Spec => []ConsoleInv
BY ConsoleInit, ConsoleStepKeeps, PTL DEF Spec

\* Without a live task the coroutine is in no group.
LEMMA RestIsOutside ==
    ASSUME ConsoleInv, ~Live
    PROVE  pc \notin InGroup
BY NotLiveIsAtRest DEF ConsoleInv, SafetyInv, TypeInv, InGroup, Resting

\* Every history a request is built from has all its answers, if every start
\* of the console reads its configuration (_lifespan; run unreadable_config
\* shows what happens otherwise).
THEOREM HistoriesAreSendable == ~ConfigBreaks => (Spec => []HistoryIsSendable)
<1> SUFFICES ASSUME ~ConfigBreaks PROVE Spec => []HistoryIsSendable
  OBVIOUS
<1>1. ConsoleInv => HistoryIsSendable
  <2> SUFFICES ASSUME ConsoleInv, pc = "turn"
               PROVE  Open(run.ledger) = {}
    BY DEF HistoryIsSendable, Sendable
  <2>1. Open(run.ledger) \subseteq run.ledger.tail
    BY DEF ConsoleInv, ReconciledInv, Resting
  <2>2. GroupOpen(run) = {}
    BY DEF ConsoleInv, LedgerInv, Resting, InGroup
  <2> QED BY <2>1, <2>2 DEF GroupOpen
<1> QED BY <1>1, ConsoleInvariant, PTL

\* Every effect is on record once the topic is at rest, if every start of the
\* console reads its configuration.
THEOREM EffectsAreOnRecord == ~ConfigBreaks => (Spec => []EffectsAreAccounted)
<1> SUFFICES ASSUME ~ConfigBreaks PROVE Spec => []EffectsAreAccounted
  OBVIOUS
<1>1. ConsoleInv => EffectsAreAccounted
  <2> SUFFICES ASSUME ConsoleInv
               PROVE  EffectsAreAccounted
    OBVIOUS
  <2>1. \A a \in Actions : ran[a] <= 1
    BY DEF ConsoleInv, EffectInv
  <2>2. ASSUME proc = "up", ~Live, Present, NEW a \in Actions, ran[a] > 0
        PROVE  saved.ledger.result[a] \in {"succeeded", "failed", "cancelled",
                                           "interrupted"}
    <3>1. Open(saved.ledger) = {}
      BY <2>2, RestIsOutside DEF ConsoleInv, ReconciledInv
    <3> QED BY <2>2, <3>1 DEF ConsoleInv, EffectInv, Open
  <2> QED BY <2>1, <2>2 DEF EffectsAreAccounted
<1> QED BY <1>1, ConsoleInvariant, PTL

\* Each call of the model takes effect at most once.
NoCallRunsTwice == \A a \in Actions : ran[a] <= 1

\* Even where a start could not read its configuration, no call runs twice:
\* neither the recovery nor a follow-up repeats one that a death left open.
THEOREM CallsRunOnce == Spec => []NoCallRunsTwice
<1>1. ConsoleInv => NoCallRunsTwice
  BY DEF ConsoleInv, EffectInv, NoCallRunsTwice
<1> QED BY <1>1, ConsoleInvariant, PTL

\* A success in the file is one: the tool ran and its checkpoint was saved.
THEOREM SuccessesAreReal == Spec => []SuccessIsReal
<1>1. ConsoleInv => SuccessIsReal
  BY DEF ConsoleInv, EffectInv
<1> QED BY <1>1, ConsoleInvariant, PTL

\* The page never sees an event the file does not hold yet.
THEOREM EventsAreSavedFirst == Spec => []EventsFollowLedger
<1>1. ConsoleInv => EventsFollowLedger
  BY DEF ConsoleInv, EventsInv, EventsFollowLedger
<1> QED BY <1>1, ConsoleInvariant, PTL

\* A topic has no more effects than its executions may make calls.
THEOREM EffectsAreLimited == Spec => []EffectsWithinLimit
<1>1. ConsoleInv => EffectsWithinLimit
  BY DEF ConsoleInv, LimitInv
<1> QED BY <1>1, ConsoleInvariant, PTL

\* A title stays, whatever a live execution saves afterwards.
THEOREM TitlesStay == Spec => []RenameSticks
<1>1. ConsoleInv => RenameSticks
  BY DEF ConsoleInv, TitleInv
<1> QED BY <1>1, ConsoleInvariant, PTL

\* No handler starts a tool.
LEMMA HandlersStartNoTool ==
    ASSUME ConsoleStep
    PROVE  ~StartsTool
BY DEF ConsoleStep, StartTopic, FollowUp, Launch, Release, RequestStop,
       StopAbandoned, FinishStop, DecideApproval, Rename, Delete, Crash,
       Shutdown, Leave, Forget, Recover, StartUnreconciled, StartsTool, runnerVars

\* Once a stop has been taken up no further tool starts in that execution.
THEOREM StopsAreHeeded == Spec => StopPreventsTools
<1> DEFINE Heeded == (\E s \in Stoppers : stops[s] = turn) => ~StartsTool
<1>1. ConsoleInv /\ [Next]_vars => [Heeded]_vars
  <2> SUFFICES ASSUME ConsoleInv, [Next]_vars, NEW s \in Stoppers,
                      stops[s] = turn, StartsTool
               PROVE  FALSE
    BY DEF StartsTool
  <2>1. CASE Execute
    <3>1. Frame /\ turn > 0 /\ turn \in Nat
      <4>1. Frame
        BY <2>1, TaskFrame DEF Execute, ConsoleInv
      <4> QED
        BY <4>1, AtWorkIsPresent DEF Frame, ConsoleInv, SafetyInv, TypeInv
    <3>2. cancelling \/ pc \in {"unwind", "close"}
      BY <3>1 DEF ConsoleInv, StopInv, Frame, Resting
    <3>3. DeliverCancel \/ TakeEffect \/ Unwind \/ CloseServers
      BY <3>1, <3>2 DEF Frame
    <3> QED
      BY <3>3 DEF DeliverCancel, TakeEffect, Unwind, CloseServers, StartsTool
  <2>2. CASE ConsoleStep
    BY <2>2, HandlersStartNoTool
  <2>3. CASE UNCHANGED vars
    BY <2>3 DEF vars, runnerVars, StartsTool
  <2> QED BY <2>1, <2>2, <2>3 DEF Next
<1> QED BY <1>1, ConsoleInvariant, PTL DEF Spec, StopPreventsTools

\* What a step does to the status of the file.
LEMMA StepProgress ==
    ASSUME ConsoleInv, Next
    PROVE  \/ Progress /\ turn' = turn
           \/ HandlerProgress
<1>1. CASE Execute
  BY <1>1, TaskStatus DEF Execute, webVars, ConsoleInv, SafetyInv, TypeInv
<1>2. CASE ConsoleStep
  BY <1>2, HandlerStatus DEF ConsoleInv, SafetyInv, TypeInv
<1> QED BY <1>1, <1>2 DEF Next

\* A completed task is withdrawn by no stop, no late save and no restart.
THEOREM CompletionIsKept == Spec => CompletedIsKept
<1> DEFINE Kept == saved.status = "completed" =>
                      \/ saved'.status \in {"completed", "absent"}
                      \/ saved'.status = "created" /\ turn' = turn + 1
<1>1. ConsoleInv /\ [Next]_vars => [Kept]_vars
  <2> SUFFICES ASSUME ConsoleInv, Next, saved.status = "completed"
               PROVE  \/ saved'.status \in {"completed", "absent"}
                      \/ saved'.status = "created" /\ turn' = turn + 1
    OBVIOUS
  <2>1. AllowedTransitions["completed"] = {}
    BY TransitionTable DEF Verdicts
  <2> QED
    BY <2>1, StepProgress DEF Progress, HandlerProgress, OpenStatus
<1> QED BY <1>1, ConsoleInvariant, PTL DEF Spec, CompletedIsKept

\* Every step of the console is a step of RunLifecycle, or none.
LEMMA LifecycleStep ==
    ConsoleInv /\ ConsoleInv' /\ [Next]_vars => [Lifecycle!Next]_(Lifecycle!vars)
<1> SUFFICES ASSUME ConsoleInv, ConsoleInv', [Next]_vars
             PROVE  [Lifecycle!Next]_(Lifecycle!vars)
  OBVIOUS
<1>l. /\ TaskDone(turn) <=> pc \in Resting
      /\ TaskDone(turn)' <=> pc' \in Resting
  <2>1. turn \in Nat /\ turn' \in Nat
    BY ConsoleAssumption DEF ConsoleInv, SafetyInv, TypeOK, TypeOfConsole
  <2> QED BY <2>1 DEF TaskDone, Resting
<1>p. pc \notin Resting => saved.status \in DOMAIN AllowedTransitions
  <2>1. saved.status \in RunStatus \cup {"absent"}
    BY RunTypes DEF ConsoleInv, SafetyInv, TypeOK, TypeOfRuns
  <2>2. pc \notin Resting => Present
    BY AtWorkIsPresent DEF ConsoleInv, SafetyInv, TypeInv
  <2> QED BY <2>1, <2>2, TransitionTable DEF Present
<1>1. CASE UNCHANGED vars
  BY <1>1 DEF vars, runnerVars, webVars, Lifecycle!vars, TaskDone
<1>2. CASE Progress
  <2> USE <1>2 DEF Progress
  <2>1. CASE saved'.status = saved.status /\ pc' \notin Resting
    BY <1>l, <2>1 DEF Lifecycle!vars
  <2>2. CASE saved'.status = saved.status /\ pc' \in Resting
    BY <1>l, <2>2 DEF Lifecycle!Next, Lifecycle!Finish
  <2>3. CASE pc' \notin Resting /\ saved'.status \in AllowedTransitions[saved.status]
    BY <1>l, <1>p, <2>3 DEF Lifecycle!Next, Lifecycle!Move
  <2>4. CASE /\ pc' \notin Resting
             /\ saved.status = "cancelled" /\ saved'.status = "running"
    BY <1>l, <2>4 DEF Lifecycle!Next, Lifecycle!Overtake
  <2>5. CASE /\ pc' \in Resting
             /\ saved.status \in OpenStatus /\ saved'.status = "failed"
    BY <1>l, <2>5 DEF Lifecycle!Next, Lifecycle!Finish
  <2> QED BY <2>1, <2>2, <2>3, <2>4, <2>5
<1>3. CASE HandlerProgress
  <2>1. CASE pc \in Resting /\ pc' = "queued" /\ saved'.status = "created"
    BY <1>l, <2>1 DEF Lifecycle!Next, Lifecycle!Submit, Resting
  <2>2. CASE pc' = "none" /\ saved' = saved
    <3>1. CASE pc \in Resting
      BY <1>l, <2>2, <3>1 DEF Lifecycle!vars, Resting
    <3>2. CASE pc \notin Resting
      BY <1>l, <2>2, <3>2 DEF Lifecycle!Next, Lifecycle!Abandon, Resting
    <3> QED BY <3>1, <3>2
  <2>3. CASE pc' = pc /\ saved'.status = saved.status
    BY <1>l, <2>3 DEF Lifecycle!vars
  <2>4. CASE /\ pc' = pc /\ pc \notin Resting
             /\ saved'.status \in AllowedTransitions[saved.status]
    BY <1>l, <1>p, <2>4 DEF Lifecycle!Next, Lifecycle!Move
  <2>5. CASE /\ pc' = pc /\ pc \notin Resting
             /\ saved.status = "cancelled" /\ saved'.status = "created"
    BY <1>l, <2>5 DEF Lifecycle!Next, Lifecycle!Overtake
  <2>6. CASE /\ pc' = pc /\ saved'.status = "cancelled"
             /\ saved.status \in OpenStatus \cup {"needs_review", "failed"}
    BY <1>l, <2>6 DEF Lifecycle!Next, Lifecycle!Withdraw
  <2>7. CASE pc' = pc /\ pc \in Resting /\ saved'.status = "absent"
    BY <1>l, <2>7 DEF Lifecycle!Next, Lifecycle!Delete
  <2>8. CASE /\ pc' = pc /\ pc \in Resting
             /\ saved.status \in OpenStatus /\ saved'.status = "interrupted"
    BY <1>l, <2>8 DEF Lifecycle!Next, Lifecycle!Reconcile
  <2> QED BY <1>3, <2>1, <2>2, <2>3, <2>4, <2>5, <2>6, <2>7, <2>8 DEF HandlerProgress
<1> QED BY <1>1, <1>2, <1>3, StepProgress

\* The console implements what the page promises of a topic (RunLifecycle): the
\* status follows the table of runtime/state.py while an execution is at work,
\* and is started, withdrawn, reconciled and deleted only as written there.
THEOREM ConsoleImplementsLifecycle == Spec => ImplementsLifecycle
<1>1. Init => Lifecycle!Init
  BY DEF Init, Lifecycle!Init, NewRun, TaskDone
<1>2. ConsoleInv /\ ConsoleInv' /\ [Next]_vars => [Lifecycle!Next]_(Lifecycle!vars)
  BY LifecycleStep
<1> QED
  BY <1>1, <1>2, ConsoleInvariant, PTL DEF Spec, ImplementsLifecycle, Lifecycle!Spec
==============================================================================
