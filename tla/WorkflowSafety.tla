--------------------------- MODULE WorkflowSafety ---------------------------
(***************************************************************************)
(* Proofs about Workflow, for all files, plans, requests and limits: a new *)
(* call only goes to the last step begun, a task that is completed has     *)
(* what it wrote, checked after it was written, and did not only fail.     *)
(***************************************************************************)
EXTENDS Workflow, LogFacts

----------------------------------------------------------------------------
(* The inductive invariant.                                                 *)

StepStatuses == {"active", "completed", "needs_review", "failed", "recovered"}
StepRecords == [item : Ids \cup {"none", "reply"}, kind : Kinds,
                status : StepStatuses, actions : SUBSET Nat, start : Nat]

LogInv ==
    /\ IsLog(log)
    /\ \A i \in DOMAIN log : log[i].head \in 1 .. i /\ log[i].hash \in 0 .. clock

DiskInv ==
    /\ disk \in [Files -> 0 .. clock]
    /\ clock \in 1 .. MaxClock

PlanInv ==
    /\ plan \in Seq(PlanItems \cup {Reply})
    /\ finished \subseteq Ids \cup {"reply"}
    /\ request \in Requests

\* Steps begin one after the other, and only the last one may be open.
StepsInv ==
    /\ steps \in Seq(StepRecords)
    /\ \A k \in 1 .. Len(steps) :
          /\ steps[k].actions \subseteq 0 .. Len(log) + 1
          /\ steps[k].start \in 0 .. Len(log) + 1
          /\ steps[k].status = "active" => k = Len(steps)
    /\ \A j, k \in 1 .. Len(steps) : j <= k => steps[j].start <= steps[k].start

WorkFields == {"head", "tool", "file", "newPlan", "reviewed", "drift", "checked",
               "passed", "draft"}

WorkInv ==
    /\ DOMAIN work = WorkFields
    /\ work.passed \subseteq work.checked
    /\ phase \in {"idle", "status", "model", "calls", "tool", "draft", "checked"}
    /\ status \in {"created", "running", "completed", "needs_review", "failed",
                   "cancelled"}
    /\ phase # "idle" => status = "running" /\ steps # <<>>
    /\ phase = "status" => request.mode = "status"
    /\ phase \in {"calls", "tool"} =>
          /\ work.head \in 1 .. Len(log) + 1
          /\ \A k \in 1 .. Len(steps) : steps[k].start <= work.head
    /\ phase = "tool" => /\ work.tool \in Tools
                         /\ work.tool \in OnFiles => work.file \in Files

\* A step stays open only if the turn goes on, was stopped, or was a question.
OpenInv ==
    \A k \in 1 .. Len(steps) :
        steps[k].status = "active" =>
            status \in {"running", "cancelled"} \/ request.mode = "status"

TypeInv == LogInv /\ DiskInv /\ PlanInv /\ StepsInv /\ WorkInv /\ OpenInv

\* The written files that are not as they were written, in these contents.
Differs(draft) ==
    {f \in WrittenIn(ThisTurn) :
        ~(draft[f] = log[LastOf(WritesOf(f, ThisTurn))].hash /\ draft[f] # 0)}

\* What the draft was compared with is what the turn wrote.
DraftInv ==
    phase \in {"draft", "checked"} => work.drift = Differs(work.draft)

\* A step's call is in the log after the step's start, is the running one, or
\* was cut from the log.
IsCall(s, i, l, turn, p) ==
    \/ i = 0 /\ s.start <= turn
    \/ /\ i >= s.start
       /\ \/ i \in 1 .. Len(l) /\ l[i].tool \in Tools
          \/ p = "tool" /\ i = Len(l) + 1

InSome(ss, i) == \E k \in 1 .. Len(ss) : i \in ss[k].actions

\* The calls of steps are calls; the turn's calls are in steps.
CallsInv ==
    /\ \A k \in 1 .. Len(steps) : \A i \in steps[k].actions :
          IsCall(steps[k], i, log, Turn, phase)
    /\ phase = "tool" => InSome(steps, Len(log) + 1)
    /\ request.mode # "discuss" =>
          \A i \in Turn + 1 .. Len(log) : log[i].tool \in Tools => InSome(steps, i)

\* Steps of the turn are recovered, and phases checked, where a call succeeded.
RecoveredInv ==
    \A k \in 1 .. Len(steps) :
        steps[k].status = "recovered" /\ steps[k].start > Turn => WritesIn(ThisTurn) # {}

PassedInv ==
    phase = "checked" /\ work.passed # {} => \E i \in ThisTurn : Succeeded(i, Tools)

----------------------------------------------------------------------------
(* The log, its places and the steps.                                       *)

\* The last of some places is one of them, and no earlier than any.
LEMMA LastIsLast ==
    ASSUME NEW n \in Nat, NEW S \in SUBSET (1 .. n)
    PROVE  /\ LastOf(S) \in 0 .. n
           /\ S # {} => LastOf(S) \in S /\ LastOf(S) = Max(S)
           /\ S = {} => LastOf(S) = 0
           /\ \A m \in S : m <= LastOf(S)
<1>1. CASE S = {}
  BY <1>1 DEF LastOf
<1>2. CASE S # {}
  <2>1. Max(S) \in S /\ \A m \in S : m <= Max(S)
    BY <1>2, MaxExists
  <2>2. LastOf(S) = Max(S)
    BY <1>2 DEF LastOf
  <2>3. Max(S) \in 1 .. n
    BY <2>1
  <2> QED BY <1>2, <2>1, <2>2, <2>3
<1> QED BY <1>1, <1>2

\* Where the turn begins.
LEMMA TurnIsThere ==
    ASSUME IsLog(log)
    PROVE  /\ Len(log) \in Nat /\ DOMAIN log = 1 .. Len(log)
           /\ Turn \in 0 .. Len(log)
           /\ \A i \in ThisTurn : i \in DOMAIN log /\ log[i].tool # "user"
<1>1. Len(log) \in Nat /\ DOMAIN log = 1 .. Len(log)
  BY LenProperties DEF IsLog
<1> DEFINE T == {i \in DOMAIN log : log[i].tool = "user"}
<1>2. T \in SUBSET (1 .. Len(log))
  BY <1>1
<1>3. LastOf(T) \in 0 .. Len(log) /\ \A m \in T : m <= LastOf(T)
  BY <1>1, <1>2, LastIsLast
<1>4. Turn = LastOf(T)
  BY DEF Turn
<1> HIDE DEF T
<1>5. Turn \in 0 .. Len(log) /\ \A m \in T : m <= Turn
  BY <1>3, <1>4
<1>6. ASSUME NEW i \in ThisTurn
      PROVE  i \in DOMAIN log /\ log[i].tool # "user"
  <2>1. i \in Turn + 1 .. Len(log)
    BY <1>6 DEF ThisTurn
  <2>2. i \in DOMAIN log /\ i > Turn /\ i \in Int
    BY <1>1, <1>5, <2>1
  <2>3. i \notin T
    BY <1>5, <2>2
  <2> QED BY <2>2, <2>3 DEF T
<1> QED BY <1>1, <1>5, <1>6

\* The steps as a sequence, and which of them is open.
LEMMA ActiveIsLast ==
    ASSUME StepsInv
    PROVE  /\ Len(steps) \in Nat /\ DOMAIN steps = 1 .. Len(steps)
           /\ \A k \in 1 .. Len(steps) : steps[k] \in StepRecords
           /\ Active # 0 => Active = Len(steps) /\ Active > 0
           /\ Active # 0 => steps[Active].status = "active"
           /\ \A k \in 1 .. Len(steps) : k # Active => steps[k].status # "active"
<1>1. /\ Len(steps) \in Nat /\ DOMAIN steps = 1 .. Len(steps)
      /\ \A k \in 1 .. Len(steps) : steps[k] \in StepRecords
  BY LenProperties, ElementOfSeq DEF StepsInv
<1> DEFINE T == {k \in DOMAIN steps : steps[k].status = "active"}
<1>2. T \in SUBSET (1 .. Len(steps))
  BY <1>1
<1>3. Active = LastOf(T)
  BY DEF Active
<1>4. /\ T # {} => LastOf(T) \in T
      /\ T = {} => LastOf(T) = 0
  BY <1>1, <1>2, LastIsLast
<1>5. \A k \in T : k = Len(steps) /\ k > 0
  <2>1. \A k \in 1 .. Len(steps) : steps[k].status = "active" => k = Len(steps)
    BY DEF StepsInv
  <2>2. ASSUME NEW k \in T
        PROVE  k = Len(steps) /\ k > 0
    <3>1. k \in 1 .. Len(steps) /\ steps[k].status = "active"
      BY <1>1
    <3>2. k = Len(steps)
      BY <2>1, <3>1, Zenon
    <3>3. k > 0
      BY <1>1, <3>1
    <3> QED BY <3>2, <3>3
  <2> QED BY <2>2
<1>6. \A k \in 1 .. Len(steps) : k \notin T => steps[k].status # "active"
  BY <1>1
<1>7. \A k \in T : steps[k].status = "active"
  OBVIOUS
<1> HIDE DEF T
<1>8. CASE T = {}
  BY <1>1, <1>3, <1>4, <1>6, <1>8
<1>9. CASE T # {}
  <2>1. Active \in T
    BY <1>3, <1>4, <1>9
  <2>2. \A k \in T : k = Active
    BY <1>5, <2>1
  <2> QED BY <1>1, <1>5, <1>6, <1>7, <2>1, <2>2
<1> QED BY <1>8, <1>9

WithStatus(s, x) == [s EXCEPT !.status = x]
WithCall(s, id) == [s EXCEPT !.actions = @ \cup {id}]

\* A step with another status.
LEMMA StatusChanged ==
    ASSUME NEW s \in StepRecords, NEW x \in StepStatuses
    PROVE  /\ WithStatus(s, x) \in StepRecords /\ WithStatus(s, x).status = x
           /\ WithStatus(s, x).item = s.item /\ WithStatus(s, x).kind = s.kind
           /\ WithStatus(s, x).actions = s.actions
           /\ WithStatus(s, x).start = s.start
BY DEF StepRecords, WithStatus

\* A step with another call.
LEMMA CallAdded ==
    ASSUME NEW s \in StepRecords, NEW id \in Nat
    PROVE  /\ WithCall(s, id) \in StepRecords
           /\ WithCall(s, id).status = s.status
           /\ WithCall(s, id).actions = s.actions \cup {id}
           /\ WithCall(s, id).start = s.start
BY DEF StepRecords, WithCall

\* What becomes of a step that ends.
LEMMA SettledStep ==
    ASSUME NEW s \in StepRecords
    PROVE  /\ Settled(s) \in StepRecords
           /\ Settled(s).status \in {"completed", "needs_review"}
           /\ Settled(s).item = s.item
           /\ Settled(s).actions = s.actions /\ Settled(s).start = s.start
<1>1. PICK x \in {"completed", "needs_review"} : Settled(s) = WithStatus(s, x)
  BY DEF Settled, WithStatus
<1>2. x \in StepStatuses
  BY DEF StepStatuses
<1> QED BY <1>1, <1>2, StatusChanged

----------------------------------------------------------------------------
(* What a step of the specification does to the steps of the plan.          *)

\* The steps that follow have the same starts and calls, but for the calls in
\* new, and one more step at most; only the last may be open.
Carries(ss, new) ==
    /\ ss \in Seq(StepRecords)
    /\ Len(ss) \in {Len(steps), Len(steps) + 1}
    /\ \A k \in 1 .. Len(steps) :
          /\ ss[k].start = steps[k].start
          /\ steps[k].actions \subseteq ss[k].actions
          /\ ss[k].actions \subseteq steps[k].actions \cup new
    /\ \A k \in 1 .. Len(ss) :
          /\ k \notin 1 .. Len(steps) =>
                ss[k].start = work.head /\ ss[k].actions \subseteq new
          /\ ss[k].status = "active" => k = Len(ss)

\* No step becomes one that was recovered.
NoneRecovered(ss) ==
    \A k \in 1 .. Len(ss) :
        ss[k].status = "recovered" =>
            k \in 1 .. Len(steps) /\ steps[k].status = "recovered"

AllClosed(ss) == \A k \in 1 .. Len(ss) : ss[k].status # "active"
EarlierClosed(ss) == \A k \in 1 .. Len(steps) : ss[k].status # "active"

\* Steps that stay as they are.
LEMMA SameSteps ==
    ASSUME StepsInv
    PROVE  Carries(steps, {}) /\ NoneRecovered(steps)
<1>1. Len(steps) \in Nat
  BY ActiveIsLast
<1>2. steps \in Seq(StepRecords) /\ \A k \in 1 .. Len(steps) : steps[k].status = "active" => k = Len(steps)
  BY DEF StepsInv
<1> QED BY <1>1, <1>2 DEF Carries, NoneRecovered

WithStep(k, t) == [steps EXCEPT ![k] = t]

\* One step gets another status, or another name.
LEMMA OneChanged ==
    ASSUME StepsInv, NEW k \in 1 .. Len(steps), NEW t \in StepRecords,
           t.actions = steps[k].actions, t.start = steps[k].start,
           t.status = "active" => steps[k].status = "active",
           t.status = "recovered" => steps[k].status = "recovered",
           NEW ss, ss = WithStep(k, t)
    PROVE  /\ Carries(ss, {}) /\ NoneRecovered(ss)
           /\ Len(ss) = Len(steps) /\ ss[k] = t
           /\ \A j \in 1 .. Len(steps) : j # k => ss[j] = steps[j]
<1>1. /\ Len(steps) \in Nat /\ DOMAIN steps = 1 .. Len(steps)
      /\ \A j \in 1 .. Len(steps) : steps[j] \in StepRecords
      /\ \A j \in 1 .. Len(steps) : steps[j].status = "active" => j = Len(steps)
  BY ActiveIsLast DEF StepsInv
<1>2. ss \in Seq(StepRecords) /\ Len(ss) = Len(steps)
  BY ExceptSeq DEF StepsInv, WithStep
<1>3. ss[k] = t /\ \A j \in 1 .. Len(steps) : j # k => ss[j] = steps[j]
  BY <1>1 DEF WithStep
<1>4. \A j \in 1 .. Len(steps) :
          /\ ss[j].start = steps[j].start
          /\ ss[j].actions = steps[j].actions
          /\ ss[j].status = "active" => steps[j].status = "active"
          /\ ss[j].status = "recovered" => steps[j].status = "recovered"
  BY <1>3
<1>5. \A j \in 1 .. Len(steps) : ss[j].status = "active" => j = Len(steps)
  BY <1>1, <1>4
<1>6. ASSUME NEW j \in 1 .. Len(ss)
      PROVE  /\ j \in 1 .. Len(steps)
             /\ ss[j].status = "active" => j = Len(ss)
  <2>1. j \in 1 .. Len(steps)
    BY <1>2, Zenon
  <2>2. ss[j].status = "active" => j = Len(ss)
    BY <1>2, <1>5, <2>1, Zenon
  <2> QED BY <2>1, <2>2
<1>8. Carries(ss, {})
  BY <1>2, <1>4, <1>6 DEF Carries
<1>7. NoneRecovered(ss)
  BY <1>2, <1>4 DEF NoneRecovered
<1> QED BY <1>2, <1>3, <1>7, <1>8

\* The active step gets another status.
LEMMA ActiveChanged ==
    ASSUME StepsInv, NEW t \in StepRecords, Active # 0,
           t.actions = steps[Active].actions, t.start = steps[Active].start,
           t.status \notin {"active", "recovered"},
           NEW ss, ss = WithStep(Active, t)
    PROVE  /\ Carries(ss, {}) /\ NoneRecovered(ss) /\ AllClosed(ss)
           /\ Len(ss) = Len(steps)
<1>1. PICK k \in 1 .. Len(steps) : k = Active
  BY ActiveIsLast
<1>2. /\ Carries(ss, {}) /\ NoneRecovered(ss)
      /\ Len(ss) = Len(steps) /\ ss[k] = t
      /\ \A j \in 1 .. Len(steps) : j # k => ss[j] = steps[j]
  <2>1. /\ t.actions = steps[k].actions /\ t.start = steps[k].start
        /\ t.status # "active" /\ t.status # "recovered"
    BY <1>1
  <2>2. ss = WithStep(k, t)
    BY <1>1
  <2> QED BY <2>1, <2>2, OneChanged
<1>3. \A j \in 1 .. Len(steps) : j # k => steps[j].status # "active"
  BY <1>1, ActiveIsLast
<1>4. \A j \in 1 .. Len(steps) : ss[j].status # "active"
  BY <1>2, <1>3
<1> QED BY <1>2, <1>4 DEF AllClosed

\* No step is open.
LEMMA NoneActive ==
    ASSUME StepsInv, Active = 0
    PROVE  AllClosed(steps)
<1>1. \A k \in 1 .. Len(steps) : k # 0
  BY ActiveIsLast
<1> QED BY <1>1, ActiveIsLast DEF AllClosed

\* A phase that ends when another begins.
LEMMA CompletedSteps ==
    ASSUME StepsInv
    PROVE  /\ Carries(CompleteActive, {}) /\ NoneRecovered(CompleteActive)
           /\ AllClosed(CompleteActive)
           /\ Len(CompleteActive) = Len(steps)
<1>1. CASE Active = 0
  <2>1. CompleteActive = steps
    BY <1>1 DEF CompleteActive
  <2> QED BY <1>1, <2>1, SameSteps, NoneActive
<1>2. CASE Active # 0
  <2>1. steps[Active] \in StepRecords
    BY <1>2, ActiveIsLast
  <2>2. PICK t : t = Settled(steps[Active])
    OBVIOUS
  <2>3. /\ t \in StepRecords /\ t.status \notin {"active", "recovered"}
        /\ t.actions = steps[Active].actions /\ t.start = steps[Active].start
    BY <2>1, <2>2, SettledStep
  <2>4. CompleteActive = WithStep(Active, t)
    BY <1>2, <2>2 DEF CompleteActive, WithStep
  <2> QED BY <1>2, <2>3, <2>4, ActiveChanged
<1> QED BY <1>1, <1>2

Another(t) == Append(CompleteActive, t)

\* A new step after the others.
LEMMA StepAppended ==
    ASSUME StepsInv, NEW new, NEW t \in StepRecords,
           t.start = work.head, t.actions \subseteq new, t.status = "active",
           NEW ss, ss = Another(t)
    PROVE  /\ Carries(ss, new) /\ NoneRecovered(ss)
           /\ Len(ss) = Len(steps) + 1 /\ ss[Len(ss)] = t
           /\ EarlierClosed(ss)
<1>1. PICK cs : cs = CompleteActive
  OBVIOUS
<1>2. /\ Carries(cs, {}) /\ NoneRecovered(cs) /\ AllClosed(cs)
      /\ Len(cs) = Len(steps) /\ Len(steps) \in Nat
  BY <1>1, CompletedSteps, ActiveIsLast
<1>3. cs \in Seq(StepRecords)
  BY <1>2 DEF Carries
<1>4. /\ ss \in Seq(StepRecords) /\ Len(ss) = Len(steps) + 1
      /\ \A k \in 1 .. Len(steps) : ss[k] = cs[k]
      /\ ss[Len(steps) + 1] = t
  BY <1>1, <1>2, <1>3, AppendProperties DEF Another
<1>5. \A k \in 1 .. Len(steps) :
          /\ ss[k].start = steps[k].start
          /\ steps[k].actions \subseteq ss[k].actions
          /\ ss[k].actions \subseteq steps[k].actions \cup new
          /\ ss[k].status # "active"
  BY <1>2, <1>4 DEF Carries, AllClosed
<1>6. \A k \in 1 .. Len(ss) : k \in 1 .. Len(steps) \/ k = Len(steps) + 1
  BY <1>2, <1>4
<1>7. \A k \in 1 .. Len(steps) : ~(k > Len(steps))
  BY <1>2
<1>8. \A k \in 1 .. Len(ss) :
          /\ k \notin 1 .. Len(steps) =>
                ss[k].start = work.head /\ ss[k].actions \subseteq new
          /\ ss[k].status = "active" => k = Len(ss)
  BY <1>4, <1>5, <1>6, <1>7
<1>9. Carries(ss, new)
  BY <1>4, <1>5, <1>8 DEF Carries
<1>10. NoneRecovered(ss)
  BY <1>2, <1>4, <1>6 DEF NoneRecovered
<1> QED BY <1>4, <1>5, <1>9, <1>10 DEF EarlierClosed

\* A call that is attached to a step.
LEMMA AttachedStep ==
    ASSUME StepsInv, work.head \in Nat, NEW id \in Nat,
           NEW ss, ss = Attached(id)
    PROVE  /\ Carries(ss, {id}) /\ NoneRecovered(ss)
           /\ Len(ss) \in 1 .. Len(steps) + 1 /\ id \in ss[Len(ss)].actions
           /\ \A k \in 1 .. Len(ss) : ss[k].status = "active" <=> k = Len(ss)
<1>0. /\ Len(steps) \in Nat /\ DOMAIN steps = 1 .. Len(steps)
      /\ \A k \in 1 .. Len(steps) : steps[k] \in StepRecords
      /\ \A k \in 1 .. Len(steps) : k # Active => steps[k].status # "active"
      /\ steps \in Seq(StepRecords)
  BY ActiveIsLast DEF StepsInv
<1>1. CASE Active # 0 /\ steps[Active].start # 0
  <2>1. PICK n \in 1 .. Len(steps) : n = Active
    BY <1>1, ActiveIsLast
  <2>2. n = Len(steps) /\ steps[n].status = "active"
    BY <1>1, <2>1, ActiveIsLast
  <2>3. PICK t : t = WithCall(steps[n], id)
    OBVIOUS
  <2>4. /\ t \in StepRecords /\ t.status = "active"
        /\ t.actions = steps[n].actions \cup {id} /\ t.start = steps[n].start
    BY <1>0, <2>2, <2>3, CallAdded
  <2>5. ss = WithStep(n, t)
    BY <1>1, <2>1, <2>3 DEF Attached, WithStep, WithCall
  <2>6. ss \in Seq(StepRecords) /\ Len(ss) = Len(steps)
    BY <1>0, <2>4, <2>5, ExceptSeq DEF WithStep
  <2>7. ss[n] = t /\ \A k \in 1 .. Len(steps) : k # n => ss[k] = steps[k]
    BY <1>0, <2>5 DEF WithStep
  <2>8. \A k \in 1 .. Len(steps) :
            /\ ss[k].start = steps[k].start
            /\ steps[k].actions \subseteq ss[k].actions
            /\ ss[k].actions \subseteq steps[k].actions \cup {id}
            /\ ss[k].status = steps[k].status
    BY <2>2, <2>4, <2>7
  <2>9. \A k \in 1 .. Len(steps) : ss[k].status = "active" <=> k = n
    BY <1>0, <2>1, <2>2, <2>8
  <2>10. \A k \in 1 .. Len(ss) : k \in 1 .. Len(steps)
    BY <2>6, Zenon
  <2>11. Carries(ss, {id})
    <3>1. \A k \in 1 .. Len(ss) : ss[k].status = "active" => k = Len(ss)
      BY <2>2, <2>6, <2>9, <2>10, Zenon
    <3> QED BY <2>6, <2>8, <2>10, <3>1, Zenon DEF Carries
  <2>12. NoneRecovered(ss)
    BY <2>8, <2>10 DEF NoneRecovered
  <2>13. Len(ss) \in 1 .. Len(steps) + 1
    <3>1. PICK m \in Nat : m = Len(steps)
      BY <1>0
    <3>2. m \in 1 .. m + 1
      BY <2>1, <2>2, <3>1
    <3> QED BY <2>6, <3>1, <3>2
  <2>14. id \in ss[Len(ss)].actions
    BY <2>2, <2>4, <2>6, <2>7
  <2>15. \A k \in 1 .. Len(ss) : ss[k].status = "active" <=> k = Len(ss)
    BY <2>2, <2>6, <2>9, <2>10, Zenon
  <2> QED BY <2>11, <2>12, <2>13, <2>14, <2>15
<1>2. CASE ~(Active # 0 /\ steps[Active].start # 0)
  <2>1. PICK t : t = [item |-> "none", kind |-> "general", status |-> "active",
                      actions |-> {id}, start |-> work.head]
    OBVIOUS
  <2>2. /\ t \in StepRecords /\ t.status = "active"
        /\ t.actions = {id} /\ t.start = work.head
    BY <2>1 DEF StepRecords, StepStatuses, Kinds
  <2>3. ss = Another(t)
    BY <1>2, <2>1 DEF Attached, Another
  <2>4. /\ Carries(ss, {id}) /\ NoneRecovered(ss)
        /\ Len(ss) = Len(steps) + 1 /\ ss[Len(ss)] = t
        /\ \A k \in 1 .. Len(steps) : ss[k].status # "active"
    <3>1. t.start = work.head /\ t.actions \subseteq {id}
      BY <2>2
    <3>2. /\ Carries(ss, {id}) /\ NoneRecovered(ss)
          /\ Len(ss) = Len(steps) + 1 /\ ss[Len(ss)] = t
          /\ EarlierClosed(ss)
      BY <2>2, <2>3, <3>1, StepAppended
    <3> QED BY <3>2 DEF EarlierClosed
  <2>5. \A k \in 1 .. Len(ss) : k \in 1 .. Len(steps) \/ k = Len(ss)
    BY <1>0, <2>4
  <2>6. \A k \in 1 .. Len(ss) : ss[k].status = "active" <=> k = Len(ss)
    <3>1. \A k \in 1 .. Len(ss) : ss[k].status = "active" => k = Len(ss)
      BY <2>4 DEF Carries
    <3> QED BY <2>2, <2>4, <3>1
  <2>7. Len(ss) \in 1 .. Len(steps) + 1 /\ id \in ss[Len(ss)].actions
    BY <1>0, <2>2, <2>4
  <2> QED BY <2>4, <2>6, <2>7
<1> QED BY <1>1, <1>2

\* The step of a call over the limit.
LEMMA FailedStep ==
    ASSUME StepsInv, work.head \in Nat, NEW id \in Nat,
           NEW ss, ss = Attached(id),
           NEW open, open = LastOf({k \in DOMAIN ss : ss[k].status = "active"}),
           NEW tt, tt = [ss EXCEPT ![open].status = "failed"]
    PROVE  /\ Carries(tt, {id}) /\ NoneRecovered(tt) /\ AllClosed(tt)
           /\ InSome(tt, id)
<1>1. /\ Carries(ss, {id}) /\ NoneRecovered(ss)
      /\ Len(ss) \in 1 .. Len(steps) + 1 /\ id \in ss[Len(ss)].actions
      /\ \A k \in 1 .. Len(ss) : ss[k].status = "active" <=> k = Len(ss)
  BY AttachedStep
<1>2. PICK n \in Nat : n = Len(ss)
  BY <1>1, ActiveIsLast
<1>3. /\ ss \in Seq(StepRecords) /\ DOMAIN ss = 1 .. n /\ n \in 1 .. n
      /\ \A k \in 1 .. n : ss[k] \in StepRecords
      /\ \A k \in 1 .. n : ss[k].status = "active" <=> k = n
  <2>1. ss \in Seq(StepRecords)
    BY <1>1 DEF Carries
  <2>2. DOMAIN ss = 1 .. n /\ \A k \in 1 .. n : ss[k] \in StepRecords
    BY <1>2, <2>1, LenProperties, ElementOfSeq
  <2>3. n \in 1 .. n
    BY <1>1, <1>2
  <2>4. \A k \in 1 .. n : ss[k].status = "active" <=> k = n
    BY <1>1, <1>2
  <2> QED BY <2>1, <2>2, <2>3, <2>4
<1>4. open = n
  <2>1. PICK T : T = {k \in DOMAIN ss : ss[k].status = "active"}
    OBVIOUS
  <2>2. T = {n}
    BY <1>3, <2>1
  <2>3. T \in SUBSET (1 .. n) /\ T # {}
    BY <1>3, <2>2
  <2>4. LastOf(T) \in T
    BY <2>3, LastIsLast
  <2> QED BY <2>1, <2>2, <2>4
<1>5. PICK t : t = WithStatus(ss[n], "failed")
  OBVIOUS
<1>6. /\ t \in StepRecords /\ t.status = "failed"
      /\ t.actions = ss[n].actions /\ t.start = ss[n].start
  <2>1. "failed" \in StepStatuses
    BY DEF StepStatuses
  <2> QED BY <1>3, <1>5, <2>1, StatusChanged
<1>7. tt = [ss EXCEPT ![n] = t]
  BY <1>4, <1>5 DEF WithStatus
<1>8. tt \in Seq(StepRecords) /\ Len(tt) = n
  BY <1>2, <1>3, <1>6, <1>7, ExceptSeq
<1>9. tt[n] = t /\ \A k \in 1 .. n : k # n => tt[k] = ss[k]
  BY <1>3, <1>7
<1>10. \A k \in 1 .. n : /\ tt[k].start = ss[k].start /\ tt[k].actions = ss[k].actions
                         /\ tt[k].status # "active"
                         /\ tt[k].status = "recovered" => ss[k].status = "recovered"
  BY <1>3, <1>6, <1>9
<1>11. \A k \in 1 .. Len(steps) : k \in 1 .. n
  BY <1>1, <1>2, ActiveIsLast DEF Carries
<1>12. Carries(tt, {id})
  <2>1. /\ tt \in Seq(StepRecords)
        /\ Len(tt) \in {Len(steps), Len(steps) + 1}
    BY <1>1, <1>2, <1>8 DEF Carries
  <2>2. \A k \in 1 .. Len(steps) :
          /\ tt[k].start = steps[k].start
          /\ steps[k].actions \subseteq tt[k].actions
          /\ tt[k].actions \subseteq steps[k].actions \cup {id}
    BY <1>1, <1>10, <1>11 DEF Carries
  <2>3. \A k \in 1 .. n :
          /\ k \notin 1 .. Len(steps) =>
                tt[k].start = work.head /\ tt[k].actions \subseteq {id}
          /\ tt[k].status = "active" => k = Len(tt)
    BY <1>1, <1>2, <1>10 DEF Carries
  <2> QED BY <1>8, <2>1, <2>2, <2>3 DEF Carries
<1>13. NoneRecovered(tt) /\ AllClosed(tt)
  BY <1>1, <1>2, <1>8, <1>10 DEF NoneRecovered, AllClosed
<1>14. n \in 1 .. Len(tt) /\ id \in tt[n].actions
  BY <1>1, <1>2, <1>3, <1>6, <1>8, <1>9
<1>15. InSome(tt, id)
  BY <1>14 DEF InSome
<1> QED BY <1>12, <1>13, <1>15

----------------------------------------------------------------------------
(* What a step of the specification does to the log.                        *)

\* The steps within a turn, and the edits of files.
Within ==
    \/ AnswerStatus \/ StartRound \/ PlanStep \/ CallStep \/ EndRound
    \/ DraftAnswer \/ CheckPlan \/ Verdict
    \/ OverBudget \/ FailModel \/ Stop
    \/ \E f \in Named : EditFile(f, 0) \/ EditFile(f, clock + 1)

\* A call of the turn is answered, by a tool in T.
Answered(e, T) ==
    /\ log' = Append(log, e)
    /\ e.tool \in T /\ e.head = work.head /\ e.hash \in 0 .. clock'

\* The fields of an answer.
LEMMA EntryFields ==
    ASSUME NEW tool, NEW file, NEW outcome
    PROVE  LET e == Entry(tool, file, outcome)
           IN  /\ e.tool = tool /\ e.file = file /\ e.status = outcome
               /\ e.hash = 0 /\ e.head = work.head
BY DEF Entry

\* ... and of the answer of a call that ran.
LEMMA CurrentFields ==
    /\ \A outcome : LET e == [Current EXCEPT !.status = outcome]
                    IN  /\ e.tool = work.tool /\ e.file = work.file
                        /\ e.status = outcome
                        /\ e.hash = 0 /\ e.head = work.head
    /\ \A h : LET e == [Current EXCEPT !.hash = h]
              IN  /\ e.tool = work.tool /\ e.file = work.file
                  /\ e.status = "succeeded"
                  /\ e.hash = h /\ e.head = work.head
    /\ \A h, b : LET e == [Current EXCEPT !.hash = h, !.existed = b]
                 IN  /\ e.tool = work.tool /\ e.file = work.file
                     /\ e.status = "succeeded"
                     /\ e.hash = h /\ e.head = work.head
    /\ LET e == Current
       IN  /\ e.tool = work.tool /\ e.file = work.file
           /\ e.status = "succeeded"
           /\ e.hash = 0 /\ e.head = work.head
BY DEF Entry, Current

\* A declaration, a revision or a step is answered.
LEMMA PlanStepAnswers ==
    ASSUME DiskInv, PlanStep
    PROVE  /\ phase = "calls" /\ UNCHANGED <<disk, clock, request>>
           /\ \E e : Answered(e, PlanTools)
<1>0. clock \in Nat /\ 0 \in 0 .. clock
  BY WorkflowAssumption DEF DiskInv
<1>1. ASSUME NEW tool \in PlanTools, NEW outcome, Answer(tool, outcome), UNCHANGED clock
      PROVE  \E e : Answered(e, PlanTools)
  <2>1. PICK e : e = Entry(tool, "none", outcome)
    OBVIOUS
  <2>2. e.tool = tool /\ e.hash = 0 /\ e.head = work.head
    BY <2>1, EntryFields
  <2>3. log' = Append(log, e)
    BY <1>1, <2>1 DEF Answer
  <2>4. 0 \in 0 .. clock'
    BY <1>0, <1>1
  <2> QED BY <2>2, <2>3, <2>4 DEF Answered
<1>2. ASSUME NEW p \in Plans, DeclarePlan(p)
      PROVE  /\ phase = "calls" /\ UNCHANGED <<disk, clock, request>>
             /\ \E e : Answered(e, PlanTools)
  <2>1. phase = "calls" /\ UNCHANGED <<disk, clock, request>>
    BY <1>2 DEF DeclarePlan, PlanCall, MayCall
  <2>2. \E outcome : Answer("declare_workflow_plan", outcome)
    BY <1>2 DEF DeclarePlan
  <2>3. "declare_workflow_plan" \in PlanTools
    BY DEF PlanTools
  <2> QED BY <1>1, <2>1, <2>2, <2>3
<1>3. ASSUME NEW p \in Plans, RevisePlan(p)
      PROVE  /\ phase = "calls" /\ UNCHANGED <<disk, clock, request>>
             /\ \E e : Answered(e, PlanTools)
  <2>1. phase = "calls" /\ UNCHANGED <<disk, clock, request>>
    BY <1>3 DEF RevisePlan, PlanCall, MayCall
  <2>2. \E outcome : Answer("revise_workflow_plan", outcome)
    BY <1>3 DEF RevisePlan
  <2>3. "revise_workflow_plan" \in PlanTools
    BY DEF PlanTools
  <2> QED BY <1>1, <2>1, <2>2, <2>3
<1>4. ASSUME NEW id \in Ids \cup {"none"}, NEW k \in {"general", "files"}, DeclareStep(id, k)
      PROVE  /\ phase = "calls" /\ UNCHANGED <<disk, clock, request>>
             /\ \E e : Answered(e, PlanTools)
  <2>1. phase = "calls" /\ UNCHANGED <<disk, clock, request>>
    BY <1>4 DEF DeclareStep, PlanCall, MayCall
  <2>2. \E outcome : Answer("declare_workflow_step", outcome)
    BY <1>4 DEF DeclareStep
  <2>3. "declare_workflow_step" \in PlanTools
    BY DEF PlanTools
  <2> QED BY <1>1, <2>1, <2>2, <2>3
<1> QED BY <1>2, <1>3, <1>4 DEF PlanStep

\* A call that ran is answered.
LEMMA RunAnswers ==
    ASSUME DiskInv, WorkInv,
           \/ WriteFile \/ CheckFile \/ RunOther
           \/ FailCall("failed") \/ FailCall("denied")
    PROVE  /\ phase = "tool" /\ UNCHANGED <<plan, steps, finished, request, status>>
           /\ phase' = "calls" /\ clock' >= clock
           /\ work' = [work EXCEPT !.tool = "none", !.file = "none"]
           /\ \E e : Answered(e, {work.tool})
<1>0. /\ clock \in Nat /\ MaxClock \in Nat /\ 0 \in 0 .. clock
      /\ work.tool \in OnFiles /\ phase = "tool" => disk[work.file] \in 0 .. clock
  BY WorkflowAssumption DEF DiskInv, WorkInv
<1>1. ASSUME NEW e, Finish(e), e.tool = work.tool, e.head = work.head,
             phase = "tool", e.hash \in 0 .. clock', clock' >= clock
      PROVE  /\ phase = "tool" /\ UNCHANGED <<plan, steps, finished, request, status>>
             /\ phase' = "calls" /\ clock' >= clock
             /\ work' = [work EXCEPT !.tool = "none", !.file = "none"]
             /\ \E x : Answered(x, {work.tool})
  <2>1. Answered(e, {work.tool})
    BY <1>1 DEF Finish, Answered
  <2> QED BY <1>1, <2>1 DEF Finish
<1>2. CASE WriteFile
  <2>1. PICK b : b = (disk[work.file] # 0)
    OBVIOUS
  <2>2. PICK e : e = [Current EXCEPT !.hash = clock + 1, !.existed = b]
    OBVIOUS
  <2>3. e.tool = work.tool /\ e.head = work.head /\ e.hash = clock + 1
    BY <2>2, CurrentFields
  <2>4. Finish(e) /\ phase = "tool"
    BY <1>2, <2>1, <2>2 DEF WriteFile
  <2>5. e.hash \in 0 .. clock' /\ clock' >= clock
    BY <1>0, <1>2, <2>3 DEF WriteFile
  <2> QED BY <1>1, <2>3, <2>4, <2>5
<1>3. CASE CheckFile
  <2>1. PICK e : e = [Current EXCEPT !.hash = disk[work.file]]
    OBVIOUS
  <2>2. e.tool = work.tool /\ e.head = work.head /\ e.hash = disk[work.file]
    BY <2>1, CurrentFields
  <2>3. Finish(e) /\ phase = "tool" /\ work.tool = "check" /\ clock' = clock
    BY <1>3, <2>1 DEF CheckFile
  <2>4. e.hash \in 0 .. clock' /\ clock' >= clock
    BY <1>0, <2>2, <2>3 DEF OnFiles
  <2> QED BY <1>1, <2>2, <2>3, <2>4
<1>4. CASE RunOther
  <2>1. PICK e : e = Current
    OBVIOUS
  <2>2. e.tool = work.tool /\ e.head = work.head /\ e.hash = 0
    BY <2>1, CurrentFields
  <2>3. Finish(e) /\ phase = "tool" /\ clock' = clock
    BY <1>4, <2>1 DEF RunOther
  <2>4. e.hash \in 0 .. clock' /\ clock' >= clock
    BY <1>0, <2>2, <2>3
  <2> QED BY <1>1, <2>2, <2>3, <2>4
<1>5. ASSUME NEW outcome, FailCall(outcome)
      PROVE  /\ phase = "tool" /\ UNCHANGED <<plan, steps, finished, request, status>>
             /\ phase' = "calls" /\ clock' >= clock
             /\ work' = [work EXCEPT !.tool = "none", !.file = "none"]
             /\ \E x : Answered(x, {work.tool})
  <2>1. PICK e : e = [Current EXCEPT !.status = outcome]
    OBVIOUS
  <2>2. e.tool = work.tool /\ e.head = work.head /\ e.hash = 0
    BY <2>1, CurrentFields
  <2>3. Finish(e) /\ phase = "tool" /\ clock' = clock
    BY <1>5, <2>1 DEF FailCall
  <2>4. e.hash \in 0 .. clock' /\ clock' >= clock
    BY <1>0, <2>2, <2>3
  <2> QED BY <1>1, <2>2, <2>3, <2>4
<1> QED BY <1>2, <1>3, <1>4, <1>5

----------------------------------------------------------------------------
(* What becomes of the steps.                                               *)

\* A call is attached to a step.
Takes == \E tool \in Tools : \E f \in Targets(tool) :
            Propose(tool, f) \/ FailLimit(tool, f)

\* Steps go on, calls and a step more apart, and are closed by most ends.
Moves ==
    /\ Carries(steps', {Len(log) + 1})
    /\ Carries(steps', {}) \/ Takes
    /\ NoneRecovered(steps') \/ WritesIn(ThisTurn) # {}
    /\ Len(steps') # Len(steps) => phase = "calls"
    /\ \/ status' \in {"running", "cancelled"}
       \/ request.mode = "status"
       \/ AllClosed(steps')

\* No new call is a special case.
LEMMA CarriesMore ==
    ASSUME NEW ss, NEW new, Carries(ss, {})
    PROVE  Carries(ss, new)
<1>1. \A k \in 1 .. Len(steps) : ss[k].actions \subseteq steps[k].actions \cup new
  BY DEF Carries
<1>2. \A k \in 1 .. Len(ss) : k \notin 1 .. Len(steps) => ss[k].actions \subseteq new
  BY DEF Carries
<1> QED BY <1>1, <1>2 DEF Carries

\* The steps stay.
LEMMA QuietMoves ==
    ASSUME StepsInv, UNCHANGED steps,
           status' \in {"running", "cancelled"} \/ request.mode = "status"
    PROVE  Moves
<1>1. PICK ss : ss = steps'
  OBVIOUS
<1>2. Carries(ss, {}) /\ NoneRecovered(ss) /\ Len(ss) = Len(steps)
  BY <1>1, SameSteps
<1>3. Carries(ss, {Len(log) + 1})
  BY <1>2, CarriesMore
<1> QED BY <1>1, <1>2, <1>3 DEF Moves

\* An end that sets the active step aside.
LEMMA EndMoves ==
    ASSUME StepsInv, NEW outcome \in {"needs_review", "failed"}, End(outcome)
    PROVE  Moves
<1>1. PICK ss : ss = steps'
  OBVIOUS
<1>2. Carries(ss, {}) /\ NoneRecovered(ss) /\ AllClosed(ss) /\ Len(ss) = Len(steps)
  <2>1. CASE Active = 0
    <3>1. ss = steps
      BY <1>1, <2>1 DEF End
    <3> QED BY <2>1, <3>1, SameSteps, NoneActive
  <2>2. CASE Active # 0
    <3>1. steps[Active] \in StepRecords
      BY <2>2, ActiveIsLast
    <3>2. outcome \in StepStatuses /\ outcome \notin {"active", "recovered"}
      BY DEF StepStatuses
    <3>3. PICK t : t = WithStatus(steps[Active], outcome)
      OBVIOUS
    <3>4. /\ t \in StepRecords /\ t.status \notin {"active", "recovered"}
          /\ t.actions = steps[Active].actions /\ t.start = steps[Active].start
      BY <3>1, <3>2, <3>3, StatusChanged
    <3>5. ss = WithStep(Active, t)
      BY <1>1, <2>2, <3>3 DEF End, WithStep, WithStatus
    <3> QED BY <2>2, <3>4, <3>5, ActiveChanged
  <2> QED BY <2>1, <2>2
<1>3. Carries(ss, {Len(log) + 1})
  BY <1>2, CarriesMore
<1> QED BY <1>1, <1>2, <1>3 DEF Moves

\* A declaration of the plan.
LEMMA DeclarePlanMoves ==
    ASSUME StepsInv, WorkInv, NEW p \in Plans, DeclarePlan(p)
    PROVE  Moves
<1>1. phase = "calls" /\ status = "running"
  BY DEF DeclarePlan, PlanCall, MayCall, WorkInv
<1>2. CASE UNCHANGED <<steps, status>>
  BY <1>1, <1>2, QuietMoves
<1>3. CASE End("failed")
  BY <1>3, EndMoves
<1>4. CASE /\ steps # <<>> /\ steps' = [steps EXCEPT ![1].status = "completed"]
           /\ UNCHANGED status
  <2>1. 1 \in 1 .. Len(steps) /\ steps[1] \in StepRecords
    <3>1. steps \in Seq(StepRecords)
      BY DEF StepsInv
    <3>2. Len(steps) \in Nat \ {0}
      BY <1>4, <3>1, EmptySeq
    <3>3. 1 \in 1 .. Len(steps)
      BY <3>2
    <3> QED BY <3>3, ActiveIsLast
  <2>2. "completed" \in StepStatuses
    BY DEF StepStatuses
  <2>3. PICK t : t = WithStatus(steps[1], "completed")
    OBVIOUS
  <2>4. /\ t \in StepRecords /\ t.status = "completed"
        /\ t.actions = steps[1].actions /\ t.start = steps[1].start
    BY <2>1, <2>2, <2>3, StatusChanged
  <2>5. PICK ss : ss = steps'
    OBVIOUS
  <2>6. ss = WithStep(1, t)
    BY <1>4, <2>3, <2>5 DEF WithStep, WithStatus
  <2>7. /\ t.status = "active" => steps[1].status = "active"
        /\ t.status = "recovered" => steps[1].status = "recovered"
    BY <2>4
  <2>8. Carries(ss, {}) /\ NoneRecovered(ss) /\ Len(ss) = Len(steps)
    BY <2>1, <2>4, <2>6, <2>7, OneChanged
  <2>9. Carries(ss, {Len(log) + 1})
    BY <2>8, CarriesMore
  <2> QED BY <1>1, <1>4, <2>5, <2>8, <2>9 DEF Moves
<1> QED BY <1>2, <1>3, <1>4 DEF DeclarePlan

\* The fields of a phase.
LEMMA PhaseFields ==
    ASSUME NEW i \in PlanItems \cup {Reply}
    PROVE  i.kind \in Kinds /\ i.id \in Ids \cup {"reply"}
<1>1. CASE i \in PlanItems
  <2>1. IsItem(i)
    BY <1>1, WorkflowAssumption
  <2>2. i.id \in Ids
    BY <1>1 DEF Ids
  <2> QED BY <2>1, <2>2 DEF IsItem
<1>2. CASE i = Reply
  BY <1>2 DEF Reply, Kinds
<1> QED BY <1>1, <1>2

\* ... which the plan consists of.
LEMMA PlanElements ==
    ASSUME PlanInv
    PROVE  /\ Len(plan) \in Nat /\ DOMAIN plan = 1 .. Len(plan)
           /\ \A n \in DOMAIN plan : plan[n] \in PlanItems \cup {Reply}
           /\ \A n \in DOMAIN plan : plan[n].kind \in Kinds
           /\ \A n \in DOMAIN plan : plan[n].id \in Ids \cup {"reply"}
<1>1. Len(plan) \in Nat /\ DOMAIN plan = 1 .. Len(plan)
  BY LenProperties DEF PlanInv
<1>2. \A n \in DOMAIN plan : plan[n] \in PlanItems \cup {Reply}
  BY <1>1, ElementOfSeq DEF PlanInv
<1> QED BY <1>1, <1>2, PhaseFields

\* A step that is begun, or refused.
LEMMA DeclareStepMoves ==
    ASSUME StepsInv, WorkInv, PlanInv, NEW id \in Ids \cup {"none"},
           NEW k \in {"general", "files"}, DeclareStep(id, k)
    PROVE  Moves
<1>1. phase = "calls" /\ status = "running" /\ status' = status
  BY DEF DeclareStep, PlanCall, MayCall, WorkInv
<1>2. CASE UNCHANGED steps
  BY <1>1, <1>2, QuietMoves
<1>3. ASSUME NEW kk \in Kinds,
             steps' = Append(CompleteActive,
                             [item |-> id, kind |-> kk, status |-> "active",
                              actions |-> {}, start |-> work.head])
      PROVE  Moves
  <2>1. PICK t : t = [item |-> id, kind |-> kk, status |-> "active",
                      actions |-> {}, start |-> work.head]
    OBVIOUS
  <2>2. work.head \in Nat
    <3>1. work.head \in 1 .. Len(log) + 1
      BY <1>1 DEF WorkInv
    <3> QED BY <3>1
  <2>3. /\ t \in StepRecords /\ t.status = "active"
        /\ t.actions \subseteq {} /\ t.start = work.head
    BY <2>1, <2>2 DEF StepRecords, StepStatuses
  <2>4. PICK ss : ss = steps'
    OBVIOUS
  <2>5. ss = Another(t)
    BY <1>3, <2>1, <2>4 DEF Another
  <2>6. Carries(ss, {}) /\ NoneRecovered(ss)
    BY <2>3, <2>5, StepAppended
  <2>7. Carries(ss, {Len(log) + 1})
    BY <2>6, CarriesMore
  <2> QED BY <1>1, <2>4, <2>6, <2>7 DEF Moves
<1>4. CASE ~UNCHANGED steps
  <2>1. PICK planned : planned = {plan[n] : n \in {n \in DOMAIN plan : plan[n].id = id}}
    OBVIOUS
  <2>2. PICK kk \in {k} \cup {i.kind : i \in planned} :
            steps' = Append(CompleteActive,
                            [item |-> id, kind |-> kk, status |-> "active",
                             actions |-> {}, start |-> work.head])
    BY <1>4, <2>1 DEF DeclareStep
  <2>3. kk \in Kinds
    <3>1. \A i \in planned : i.kind \in Kinds
      BY <2>1, PlanElements
    <3>2. k \in Kinds
      BY DEF Kinds
    <3> QED BY <2>2, <3>1, <3>2
  <2> QED BY <1>3, <2>2, <2>3
<1> QED BY <1>2, <1>4

\* Any declaration.
LEMMA PlanMoves ==
    ASSUME StepsInv, WorkInv, PlanInv, PlanStep
    PROVE  Moves
<1>1. ASSUME NEW p \in Plans, RevisePlan(p)
      PROVE  Moves
  <2>1. UNCHANGED <<steps, status>> /\ phase = "calls"
    BY <1>1 DEF RevisePlan, PlanCall, MayCall
  <2>2. status = "running"
    BY <2>1 DEF WorkInv
  <2> QED BY <2>1, <2>2, QuietMoves
<1> QED BY <1>1, DeclarePlanMoves, DeclareStepMoves DEF PlanStep

\* A call of a tool.
LEMMA CallMoves ==
    ASSUME LogInv, DiskInv, StepsInv, WorkInv, CallStep
    PROVE  Moves
<1>0. Len(log) \in Nat
  BY TurnIsThere DEF LogInv
<1>1. phase \in {"calls", "tool"} => work.head \in Nat /\ status = "running"
  <2>1. phase \in {"calls", "tool"} => work.head \in 1 .. Len(log) + 1
    BY DEF WorkInv
  <2> QED BY <2>1 DEF WorkInv
<1>2. ASSUME NEW tool, RefuseInDiscussion(tool)
      PROVE  Moves
  BY <1>1, <1>2, QuietMoves DEF RefuseInDiscussion, MayCall
<1>3. ASSUME NEW tool \in Tools, NEW f \in Targets(tool), Propose(tool, f)
      PROVE  Moves
  <2>1. /\ phase = "calls" /\ status' = status /\ steps' = Attached(Len(log) + 1)
        /\ Takes
    BY <1>3 DEF Propose, MayCall, Takes
  <2>2. PICK id \in Nat : id = Len(log) + 1
    BY <1>0
  <2>3. PICK ss : ss = Attached(id)
    OBVIOUS
  <2>4. Carries(ss, {id}) /\ NoneRecovered(ss)
    BY <1>1, <2>1, <2>3, AttachedStep
  <2> QED BY <1>1, <2>1, <2>2, <2>3, <2>4 DEF Moves
<1>4. ASSUME NEW tool \in Tools, NEW f \in Targets(tool), FailLimit(tool, f)
      PROVE  Moves
  <2>1. PICK id \in Nat : id = Len(log) + 1
    BY <1>0
  <2>2. PICK ss : ss = Attached(id)
    OBVIOUS
  <2>3. PICK open : open = LastOf({k \in DOMAIN ss : ss[k].status = "active"})
    OBVIOUS
  <2>4. PICK tt : tt = [ss EXCEPT ![open].status = "failed"]
    OBVIOUS
  <2>5. phase = "calls" /\ steps' = tt /\ Takes
    BY <1>4, <2>1, <2>2, <2>3, <2>4 DEF FailLimit, MayCall, Takes
  <2>6. Carries(tt, {id}) /\ NoneRecovered(tt) /\ AllClosed(tt)
    BY <1>1, <2>2, <2>3, <2>4, <2>5, FailedStep
  <2> QED BY <2>1, <2>5, <2>6 DEF Moves
<1>5. CASE \/ WriteFile \/ CheckFile \/ RunOther
           \/ FailCall("failed") \/ FailCall("denied")
  <2>1. UNCHANGED <<steps, status>> /\ phase = "tool"
    BY <1>5, RunAnswers
  <2> QED BY <1>1, <2>1, QuietMoves
<1> QED BY <1>2, <1>3, <1>4, <1>5 DEF CallStep

\* Steps of the same calls and starts, of which no other is open.
Alike(ss) ==
    /\ ss \in [1 .. Len(steps) -> StepRecords]
    /\ \A k \in 1 .. Len(steps) :
          /\ ss[k].actions = steps[k].actions /\ ss[k].start = steps[k].start
          /\ ss[k].status = "active" => steps[k].status = "active"

LEMMA AlikeMove ==
    ASSUME StepsInv, NEW ss, Alike(ss)
    PROVE  Carries(ss, {}) /\ Len(ss) = Len(steps)
<1>1. PICK n \in Nat : n = Len(steps) /\ DOMAIN steps = 1 .. n
  BY ActiveIsLast
<1>2. ss \in [1 .. n -> StepRecords]
  BY <1>1 DEF Alike
<1>3. ss \in Seq(StepRecords) /\ Len(ss) = n
  <2>1. ss \in Seq(StepRecords)
    BY <1>2, SeqDef
  <2> QED BY <1>2, <2>1, LenProperties
<1>4. \A k \in 1 .. n : steps[k].status = "active" => k = n
  BY <1>1 DEF StepsInv
<1>5. \A k \in 1 .. n : ss[k].status = "active" => k = n
  BY <1>1, <1>4 DEF Alike
<1>6. Carries(ss, {})
  BY <1>1, <1>3, <1>5 DEF Carries, Alike
<1> QED BY <1>1, <1>3, <1>6

\* What is left as it is, and what is recovered.
LEMMA AlikeStart ==
    ASSUME StepsInv
    PROVE  Alike(steps) /\ Alike(Recovered)
<1>1. /\ DOMAIN steps = 1 .. Len(steps)
      /\ \A k \in 1 .. Len(steps) : steps[k] \in StepRecords
      /\ steps \in [1 .. Len(steps) -> StepRecords]
  BY ActiveIsLast, LenProperties DEF StepsInv
<1>2. Alike(steps)
  BY <1>1 DEF Alike
<1>3. "recovered" \in StepStatuses
  BY DEF StepStatuses
<1>4. ASSUME NEW k \in 1 .. Len(steps)
      PROVE  Recovered[k] = steps[k] \/ Recovered[k] = WithStatus(steps[k], "recovered")
  BY <1>1 DEF Recovered, WithStatus
<1>5. ASSUME NEW k \in 1 .. Len(steps)
      PROVE  /\ Recovered[k] \in StepRecords
             /\ Recovered[k].actions = steps[k].actions
             /\ Recovered[k].start = steps[k].start
             /\ Recovered[k].status = "active" => steps[k].status = "active"
  <2>1. CASE Recovered[k] = steps[k]
    BY <1>1, <2>1
  <2>2. CASE Recovered[k] = WithStatus(steps[k], "recovered")
    BY <1>1, <1>3, <2>2, StatusChanged
  <2> QED BY <1>4, <2>1, <2>2
<1>6. Recovered \in [1 .. Len(steps) -> StepRecords]
  <2>1. Recovered = [k \in 1 .. Len(steps) |-> Recovered[k]]
    BY <1>1 DEF Recovered
  <2> QED BY <1>5, <2>1
<1> QED BY <1>2, <1>5, <1>6 DEF Alike

\* The active one of them ends.
Closing(ss) == IF Active = 0 THEN ss ELSE [ss EXCEPT ![Active] = Settled(ss[Active])]

LEMMA AlikeClosed ==
    ASSUME StepsInv, NEW ss, Alike(ss), NEW ended, ended = Closing(ss)
    PROVE  /\ Alike(ended)
           /\ \A k \in 1 .. Len(steps) :
                 /\ ended[k].status # "active"
                 /\ ended[k].status = "recovered" => ss[k].status = "recovered"
<1>1. \A k \in 1 .. Len(steps) : k # Active => steps[k].status # "active"
  BY ActiveIsLast
<1>2. /\ ss \in [1 .. Len(steps) -> StepRecords]
      /\ \A k \in 1 .. Len(steps) :
            /\ ss[k].actions = steps[k].actions /\ ss[k].start = steps[k].start
            /\ k # Active => ss[k].status # "active"
  BY <1>1 DEF Alike
<1>3. CASE Active = 0
  <2>1. \A k \in 1 .. Len(steps) : k # 0
    BY ActiveIsLast
  <2> QED BY <1>2, <1>3, <2>1 DEF Closing
<1>4. CASE Active # 0
  <2>1. PICK n \in 1 .. Len(steps) : n = Active
    BY <1>4, ActiveIsLast
  <2>2. PICK t : t = Settled(ss[n])
    OBVIOUS
  <2>3. /\ t \in StepRecords /\ t.status # "active" /\ t.status # "recovered"
        /\ t.actions = ss[n].actions /\ t.start = ss[n].start
    BY <1>2, <2>2, SettledStep
  <2>4. ended = [ss EXCEPT ![n] = t]
    BY <1>4, <2>1, <2>2 DEF Closing
  <2>5. /\ ended \in [1 .. Len(steps) -> StepRecords]
        /\ ended[n] = t /\ \A k \in 1 .. Len(steps) : k # n => ended[k] = ss[k]
    BY <1>2, <2>3, <2>4
  <2>6. \A k \in 1 .. Len(steps) :
            /\ ended[k].actions = steps[k].actions /\ ended[k].start = steps[k].start
            /\ ended[k].status # "active"
            /\ ended[k].status = "recovered" => ss[k].status = "recovered"
    BY <1>2, <2>1, <2>3, <2>5
  <2> QED BY <2>5, <2>6 DEF Alike
<1> QED BY <1>3, <1>4

\* The phases that were checked get their status from it.
Judged(ss) ==
    [k \in DOMAIN ss |->
        IF ss[k].item \notin work.checked THEN Closing(ss)[k]
        ELSE [Closing(ss)[k] EXCEPT !.status =
                 IF ss[k].item \in work.passed THEN "completed" ELSE "needs_review"]]

LEMMA AlikeJudged ==
    ASSUME StepsInv, NEW ss, Alike(ss), NEW tt, tt = Judged(ss)
    PROVE  /\ Alike(tt)
           /\ \A k \in 1 .. Len(steps) :
                 /\ tt[k].status # "active"
                 /\ tt[k].status = "recovered" => ss[k].status = "recovered"
<1>1. PICK ended : ended = Closing(ss)
  OBVIOUS
<1>2. /\ ended \in [1 .. Len(steps) -> StepRecords]
      /\ \A k \in 1 .. Len(steps) :
            /\ ended[k].actions = steps[k].actions /\ ended[k].start = steps[k].start
            /\ ended[k].status # "active"
            /\ ended[k].status = "recovered" => ss[k].status = "recovered"
  <2>1. /\ Alike(ended)
        /\ \A k \in 1 .. Len(steps) :
              /\ ended[k].status # "active"
              /\ ended[k].status = "recovered" => ss[k].status = "recovered"
    BY <1>1, AlikeClosed
  <2> QED BY <2>1 DEF Alike
<1>3. DOMAIN ss = 1 .. Len(steps)
  BY DEF Alike
<1>4. {"completed", "needs_review"} \subseteq StepStatuses
  BY DEF StepStatuses
<1>5. ASSUME NEW k \in 1 .. Len(steps)
      PROVE  tt[k] = ended[k] \/ \E x \in {"completed", "needs_review"} :
                                    tt[k] = WithStatus(ended[k], x)
  BY <1>1, <1>3 DEF Judged, WithStatus
<1>6. ASSUME NEW k \in 1 .. Len(steps)
      PROVE  /\ tt[k] \in StepRecords
             /\ tt[k].actions = steps[k].actions /\ tt[k].start = steps[k].start
             /\ tt[k].status # "active"
             /\ tt[k].status = "recovered" => ss[k].status = "recovered"
  <2>1. CASE tt[k] = ended[k]
    BY <1>2, <2>1
  <2>2. ASSUME NEW x \in {"completed", "needs_review"}, tt[k] = WithStatus(ended[k], x)
        PROVE  /\ tt[k] \in StepRecords
               /\ tt[k].actions = steps[k].actions /\ tt[k].start = steps[k].start
               /\ tt[k].status # "active"
               /\ tt[k].status = "recovered" => ss[k].status = "recovered"
    <3>1. x \in StepStatuses /\ ended[k] \in StepRecords
      BY <1>2, <1>4
    <3> QED BY <1>2, <2>2, <3>1, StatusChanged
  <2> QED BY <1>5, <2>1, <2>2
<1>7. tt \in [1 .. Len(steps) -> StepRecords]
  <2>1. tt = [k \in 1 .. Len(steps) |-> tt[k]]
    BY <1>3 DEF Judged
  <2> QED BY <1>6, <2>1
<1> QED BY <1>6, <1>7 DEF Alike

\* A verdict.
LEMMA VerdictMoves ==
    ASSUME StepsInv, WorkInv, Verdict
    PROVE  Moves
<1>1. PICK ss : ss = IF DeliveryPassed THEN Recovered ELSE steps
  OBVIOUS
<1>2. Alike(ss)
  BY <1>1, AlikeStart
<1>3. \/ steps' = ss /\ status' = status
      \/ steps' = Judged(ss)
  BY <1>1 DEF Verdict, Judged, Closing
<1>4. status = "running"
  BY DEF Verdict, WorkInv
<1>5. \/ WritesIn(ThisTurn) # {}
      \/ \A k \in 1 .. Len(steps) :
            ss[k].status = "recovered" => steps[k].status = "recovered"
  <2>1. CASE DeliveryPassed
    BY <2>1 DEF DeliveryPassed, Delivered
  <2>2. CASE ~DeliveryPassed
    BY <1>1, <2>2
  <2> QED BY <2>1, <2>2
<1>6. CASE steps' = ss /\ status' = status
  <2>1. Carries(ss, {}) /\ Len(ss) = Len(steps)
    BY <1>2, AlikeMove
  <2>2. Carries(ss, {Len(log) + 1})
    BY <2>1, CarriesMore
  <2>3. NoneRecovered(ss) \/ WritesIn(ThisTurn) # {}
    BY <1>5, <2>1 DEF NoneRecovered
  <2> QED BY <1>4, <1>6, <2>1, <2>2, <2>3 DEF Moves
<1>7. CASE steps' = Judged(ss)
  <2>1. PICK tt : tt = Judged(ss)
    OBVIOUS
  <2>2. /\ Alike(tt)
        /\ \A k \in 1 .. Len(steps) :
              /\ tt[k].status # "active"
              /\ tt[k].status = "recovered" => ss[k].status = "recovered"
    BY <1>2, <2>1, AlikeJudged
  <2>3. Carries(tt, {}) /\ Len(tt) = Len(steps)
    BY <2>2, AlikeMove
  <2>4. Carries(tt, {Len(log) + 1})
    BY <2>3, CarriesMore
  <2>5. AllClosed(tt)
    BY <2>2, <2>3 DEF AllClosed
  <2>6. NoneRecovered(tt) \/ WritesIn(ThisTurn) # {}
    BY <1>5, <2>2, <2>3 DEF NoneRecovered
  <2> QED BY <1>7, <2>1, <2>3, <2>4, <2>5, <2>6 DEF Moves
<1> QED BY <1>3, <1>6, <1>7

\* A final text.
LEMMA DraftMoves ==
    ASSUME StepsInv, WorkInv, DraftAnswer
    PROVE  Moves
<1>1. status' = "running" /\ steps # <<>>
  BY DEF DraftAnswer, WorkInv
<1>2. CASE UNCHANGED steps
  BY <1>1, <1>2, QuietMoves
<1>3. CASE steps' = [steps EXCEPT ![Len(steps)].item = "reply"]
  <2>1. PICK n \in 1 .. Len(steps) : n = Len(steps)
    <3>1. Len(steps) \in Nat \ {0}
      BY <1>1, EmptySeq DEF StepsInv
    <3> QED BY <3>1
  <2>2. steps[n] \in StepRecords
    BY ActiveIsLast
  <2>3. PICK t : t = [steps[n] EXCEPT !.item = "reply"]
    OBVIOUS
  <2>4. /\ t \in StepRecords /\ t.status = steps[n].status
        /\ t.actions = steps[n].actions /\ t.start = steps[n].start
    BY <2>2, <2>3 DEF StepRecords
  <2>5. PICK ss : ss = WithStep(n, t)
    OBVIOUS
  <2>6. ss = steps'
    BY <1>3, <2>1, <2>3, <2>5 DEF WithStep
  <2>7. /\ t.status = "active" => steps[n].status = "active"
        /\ t.status = "recovered" => steps[n].status = "recovered"
    BY <2>4
  <2>8. Carries(ss, {}) /\ NoneRecovered(ss) /\ Len(ss) = Len(steps)
    BY <2>2, <2>4, <2>5, <2>7, OneChanged
  <2>9. Carries(ss, {Len(log) + 1})
    BY <2>8, CarriesMore
  <2> QED BY <1>1, <2>6, <2>8, <2>9 DEF Moves
<1> QED BY <1>2, <1>3 DEF DraftAnswer

\* Where no file has a name yet, no edit happens.
LEMMA EditsAreDuring ==
    ASSUME NEW f \in Named
    PROVE  phase # "idle" /\ f \in Files
BY DEF Named

\* Every step within a turn.
LEMMA WithinMoves ==
    ASSUME LogInv, DiskInv, PlanInv, StepsInv, WorkInv, Within
    PROVE  Moves
<1>0. phase # "idle" => status = "running"
  BY DEF WorkInv
<1>1. CASE AnswerStatus
  <2>1. UNCHANGED steps /\ request.mode = "status"
    BY <1>1 DEF AnswerStatus, WorkInv
  <2> QED BY <2>1, QuietMoves
<1>2. CASE StartRound
  BY <1>0, <1>2, QuietMoves DEF StartRound
<1>3. CASE EndRound
  <2>1. CASE UNCHANGED <<status, steps, work>>
    BY <1>0, <1>3, <2>1, QuietMoves DEF EndRound
  <2> QED BY <1>3, <2>1, EndMoves DEF EndRound
<1>4. CASE CheckPlan
  BY <1>0, <1>4, QuietMoves DEF CheckPlan
<1>5. CASE OverBudget \/ FailModel
  BY <1>5, EndMoves DEF OverBudget, FailModel
<1>6. CASE Stop
  BY <1>6, QuietMoves DEF Stop
<1>7. ASSUME NEW f \in Named, EditFile(f, 0) \/ EditFile(f, clock + 1)
      PROVE  Moves
  BY <1>0, <1>7, EditsAreDuring, QuietMoves DEF EditFile
<1> QED BY <1>1, <1>2, <1>3, <1>4, <1>5, <1>6, <1>7, PlanMoves, CallMoves,
           DraftMoves, VerdictMoves DEF Within

----------------------------------------------------------------------------
(* What a step within a turn does to the log and the files.                 *)

Writes == /\ disk' \in [Files -> 0 .. clock'] /\ clock' \in 1 .. MaxClock
          /\ clock' >= clock

\* The log stays, or a call is answered.
Logs == \/ UNCHANGED log
        \/ phase \in {"calls", "tool"} /\ \E e : Answered(e, Tools \cup PlanTools)

LEMMA SameFiles ==
    ASSUME DiskInv, UNCHANGED <<disk, clock>>
    PROVE  Writes
<1>1. clock \in Nat
  BY WorkflowAssumption DEF DiskInv
<1> QED BY <1>1 DEF DiskInv, Writes

LEMMA FileWritten ==
    ASSUME DiskInv, clock < MaxClock, clock' = clock + 1,
           NEW f \in Files, NEW content \in {0, clock + 1},
           disk' = [disk EXCEPT ![f] = content]
    PROVE  Writes
<1>1. clock \in Nat /\ MaxClock \in Nat /\ disk \in [Files -> 0 .. clock]
  BY WorkflowAssumption DEF DiskInv
<1>2. clock' \in 1 .. MaxClock /\ clock' >= clock /\ content \in 0 .. clock'
  BY <1>1
<1>3. \A g \in Files : disk[g] \in 0 .. clock'
  BY <1>1
<1>4. disk' \in [Files -> 0 .. clock']
  BY <1>1, <1>2, <1>3
<1> QED BY <1>2, <1>4 DEF Writes

LEMMA WithinWrites ==
    ASSUME DiskInv, WorkInv, Within
    PROVE  Writes
<1>1. ASSUME NEW f \in Named, EditFile(f, 0) \/ EditFile(f, clock + 1)
      PROVE  Writes
  BY <1>1, FileWritten, EditsAreDuring DEF EditFile
<1>2. CASE WriteFile
  <2>1. work.file \in Files
    BY <1>2 DEF WriteFile, WorkInv, OnFiles
  <2> QED BY <1>2, <2>1, FileWritten DEF WriteFile
<1>3. CASE Stop
  <2>1. CASE UNCHANGED <<disk, clock>>
    BY <2>1, SameFiles
  <2>2. CASE ~UNCHANGED <<disk, clock>>
    <3>1. work.file \in Files
      BY <1>3, <2>2 DEF Stop, WorkInv, OnFiles
    <3> QED BY <1>3, <2>2, <3>1, FileWritten DEF Stop
  <2> QED BY <2>1, <2>2
<1>4. CASE CheckFile \/ RunOther \/ FailCall("failed") \/ FailCall("denied")
  BY <1>4, SameFiles DEF CheckFile, RunOther, FailCall
<1>5. CASE PlanStep
  BY <1>5, PlanStepAnswers, SameFiles
<1>6. ASSUME NEW tool, NEW f,
             RefuseInDiscussion(tool) \/ Propose(tool, f) \/ FailLimit(tool, f)
      PROVE  Writes
  BY <1>6, SameFiles DEF RefuseInDiscussion, Propose, FailLimit
<1>7. CASE \/ AnswerStatus \/ StartRound \/ EndRound \/ DraftAnswer
           \/ CheckPlan \/ Verdict \/ OverBudget \/ FailModel
  BY <1>7, SameFiles DEF AnswerStatus, StartRound, EndRound, DraftAnswer,
                         CheckPlan, Verdict, OverBudget, FailModel
<1> QED BY <1>1, <1>2, <1>3, <1>4, <1>5, <1>6, <1>7 DEF Within, CallStep

LEMMA TriedTools ==
    ASSUME PlanInv
    PROVE  Tried \subseteq Tools \cup PlanTools
<1>1. Tries[request] \in Seq(SUBSET (Tools \cup PlanTools))
  BY WorkflowAssumption DEF PlanInv
<1>2. ASSUME Nth \in DOMAIN Tries[request]
      PROVE  Tries[request][Nth] \in SUBSET (Tools \cup PlanTools)
  BY <1>1, <1>2, LenProperties, ElementOfSeq
<1> QED BY <1>2 DEF Tried

LEMMA WithinLogs ==
    ASSUME DiskInv, WorkInv, PlanInv, Within
    PROVE  Logs
<1>0. clock \in Nat /\ 0 \in 0 .. clock
  BY WorkflowAssumption DEF DiskInv
<1>1. ASSUME NEW tool \in Tools \cup PlanTools, NEW file, NEW outcome,
             log' = Append(log, Entry(tool, file, outcome)), UNCHANGED clock,
             phase = "calls"
      PROVE  Logs
  <2>1. PICK e : e = Entry(tool, file, outcome)
    OBVIOUS
  <2>2. e.tool = tool /\ e.hash = 0 /\ e.head = work.head
    BY <2>1, EntryFields
  <2>3. 0 \in 0 .. clock'
    BY <1>0, <1>1
  <2>4. Answered(e, Tools \cup PlanTools)
    BY <1>1, <2>1, <2>2, <2>3 DEF Answered
  <2> QED BY <1>1, <2>4 DEF Logs
<1>2. ASSUME NEW tool \in Tried, RefuseInDiscussion(tool)
      PROVE  Logs
  BY <1>1, <1>2, TriedTools DEF RefuseInDiscussion, Answer, MayCall
<1>3. ASSUME NEW tool \in Tools, NEW f, Propose(tool, f)
      PROVE  Logs
  <2>1. phase = "calls" /\ UNCHANGED clock
    BY <1>3 DEF Propose, MayCall
  <2>2. UNCHANGED log \/ \E outcome : log' = Append(log, Entry(tool, f, outcome))
    BY <1>3 DEF Propose
  <2> QED BY <1>1, <2>1, <2>2 DEF Logs
<1>4. ASSUME NEW tool \in Tools, NEW f, FailLimit(tool, f)
      PROVE  Logs
  BY <1>1, <1>4 DEF FailLimit, MayCall
<1>5. CASE \/ WriteFile \/ CheckFile \/ RunOther
           \/ FailCall("failed") \/ FailCall("denied")
  <2>1. phase = "tool" /\ work.tool \in Tools
    BY <1>5, RunAnswers DEF WorkInv
  <2>2. PICK e : Answered(e, {work.tool})
    BY <1>5, RunAnswers
  <2>3. Answered(e, Tools \cup PlanTools)
    BY <2>1, <2>2 DEF Answered
  <2> QED BY <2>1, <2>3 DEF Logs
<1>6. CASE PlanStep
  <2>1. phase = "calls" /\ \E e : Answered(e, PlanTools)
    BY <1>6, PlanStepAnswers
  <2>2. PICK e : Answered(e, PlanTools)
    BY <2>1
  <2>3. Answered(e, Tools \cup PlanTools)
    BY <2>2 DEF Answered
  <2> QED BY <2>1, <2>3 DEF Logs
<1>7. CASE Stop
  <2>1. CASE UNCHANGED log
    BY <2>1 DEF Logs
  <2>2. CASE ~UNCHANGED log
    <3>1. PICK e : e = [Current EXCEPT !.status = "cancelled"]
      OBVIOUS
    <3>2. phase = "tool" /\ log' = Append(log, e) /\ clock' \in {clock, clock + 1}
      BY <1>7, <2>2, <3>1 DEF Stop
    <3>3. e.tool = work.tool /\ e.hash = 0 /\ e.head = work.head
      BY <3>1, CurrentFields
    <3>4. work.tool \in Tools /\ 0 \in 0 .. clock'
      BY <1>0, <3>2 DEF WorkInv
    <3>5. Answered(e, Tools \cup PlanTools)
      BY <3>2, <3>3, <3>4 DEF Answered
    <3> QED BY <3>2, <3>5 DEF Logs
  <2> QED BY <2>1, <2>2
<1>8. CASE \/ AnswerStatus \/ StartRound \/ EndRound \/ DraftAnswer
           \/ CheckPlan \/ Verdict \/ OverBudget \/ FailModel
  BY <1>8 DEF AnswerStatus, StartRound, EndRound, DraftAnswer,
              CheckPlan, Verdict, OverBudget, FailModel, Logs
<1>9. ASSUME NEW f, EditFile(f, 0) \/ EditFile(f, clock + 1)
      PROVE  Logs
  BY <1>9 DEF EditFile, Logs
<1> QED BY <1>2, <1>3, <1>4, <1>5, <1>6, <1>7, <1>8, <1>9 DEF Within, CallStep

----------------------------------------------------------------------------
(* What a step within a turn does to the turn.                              *)

Shaped(w) == DOMAIN w = WorkFields /\ w.passed \subseteq w.checked
Phases == {"idle", "status", "model", "calls", "tool", "draft", "checked"}
Statuses == {"created", "running", "completed", "needs_review", "failed", "cancelled"}

\* The turn goes on, or ends.
Goes ==
    /\ Shaped(work')
    /\ phase' \in Phases /\ status' \in Statuses
    /\ phase' # "idle" => status' = "running" /\ phase # "idle"
    /\ phase' = "status" => phase = "status"
    /\ phase' \in {"calls", "tool"} =>
          \/ phase \in {"calls", "tool"} /\ work'.head = work.head
          \/ UNCHANGED <<steps, log>> /\ work'.head = Len(log) + 1
    /\ phase' = "tool" => /\ work'.tool \in Tools
                          /\ work'.tool \in OnFiles => work'.file \in Files

LEMMA NewWorkShaped == Shaped(NewWork)
BY DEF Shaped, NewWork, WorkFields

\* The phase, and what it asks for.
LEMMA Going ==
    ASSUME WorkInv
    PROVE  /\ Shaped(work) /\ phase \in Phases /\ status \in Statuses
           /\ phase # "idle" => status = "running"
           /\ phase = "tool" => /\ work.tool \in Tools
                                /\ work.tool \in OnFiles => work.file \in Files
BY DEF WorkInv, Shaped, Phases, Statuses

\* An end of the turn.
LEMMA Ends ==
    ASSUME status' \in Statuses, phase' = "idle", Shaped(work')
    PROVE  Goes
BY DEF Goes, Phases

\* Nothing of the turn changes, or it comes to a phase of no calls.
LEMMA Stays ==
    ASSUME WorkInv, phase # "idle", UNCHANGED status, Shaped(work'),
           phase' \in {"model", "draft", "checked"}
    PROVE  Goes
BY Going DEF Goes, Phases

LEMMA SameWork ==
    ASSUME WorkInv, phase # "idle", UNCHANGED <<status, phase, work>>
    PROVE  Goes
BY Going DEF Goes, Phases

LEMMA PlanGoes ==
    ASSUME WorkInv, PlanStep
    PROVE  Goes
<1>1. ASSUME NEW p \in Plans, DeclarePlan(p)
      PROVE  Goes
  <2>1. CASE UNCHANGED <<status, phase, work>>
    BY <1>1, <2>1, SameWork DEF DeclarePlan, PlanCall, MayCall
  <2>2. CASE End("failed")
    BY <2>2, Ends, NewWorkShaped DEF End, Statuses
  <2> QED BY <1>1, <2>1, <2>2 DEF DeclarePlan
<1>2. ASSUME NEW p \in Plans, RevisePlan(p)
      PROVE  Goes
  <2>1. phase = "calls" /\ UNCHANGED <<status, phase>>
    BY <1>2 DEF RevisePlan, PlanCall, MayCall
  <2>2. CASE UNCHANGED work
    BY <2>1, <2>2, SameWork
  <2>3. CASE work' = [work EXCEPT !.newPlan = TRUE]
    <3>1. Shaped(work') /\ work'.head = work.head
      BY <2>3, Going DEF Shaped, WorkFields
    <3> QED BY <2>1, <3>1, Going DEF Goes, Phases
  <2> QED BY <1>2, <2>2, <2>3 DEF RevisePlan
<1>3. ASSUME NEW id \in Ids \cup {"none"}, NEW k \in {"general", "files"},
             DeclareStep(id, k)
      PROVE  Goes
  BY <1>3, SameWork DEF DeclareStep, PlanCall, MayCall
<1> QED BY <1>1, <1>2, <1>3 DEF PlanStep

LEMMA CallGoes ==
    ASSUME DiskInv, WorkInv, CallStep
    PROVE  Goes
<1>1. ASSUME NEW tool, RefuseInDiscussion(tool)
      PROVE  Goes
  BY <1>1, SameWork DEF RefuseInDiscussion, MayCall
<1>2. ASSUME NEW tool \in Tools, NEW f \in Targets(tool), Propose(tool, f)
      PROVE  Goes
  <2>1. phase = "calls" /\ UNCHANGED status
    BY <1>2 DEF Propose, MayCall
  <2>2. CASE UNCHANGED <<phase, work>>
    BY <2>1, <2>2, SameWork
  <2>3. CASE /\ phase' = "tool"
             /\ work' = [work EXCEPT !.tool = tool, !.file = f]
    <3>1. /\ Shaped(work') /\ work'.head = work.head
          /\ work'.tool = tool /\ work'.file = f
      BY <2>3, Going DEF Shaped, WorkFields
    <3>2. tool \in OnFiles => f \in Files
      BY DEF Targets
    <3>3. status = "running" /\ status' = "running" /\ status' \in Statuses
      BY <2>1, Going DEF Statuses
    <3> QED BY <2>1, <2>3, <3>1, <3>2, <3>3 DEF Goes, Phases
  <2> QED BY <1>2, <2>2, <2>3 DEF Propose
<1>3. ASSUME NEW tool, NEW f, FailLimit(tool, f)
      PROVE  Goes
  BY <1>3, Ends, NewWorkShaped DEF FailLimit, Statuses
<1>4. CASE \/ WriteFile \/ CheckFile \/ RunOther
           \/ FailCall("failed") \/ FailCall("denied")
  <2>1. /\ phase = "tool" /\ UNCHANGED status /\ phase' = "calls"
        /\ work' = [work EXCEPT !.tool = "none", !.file = "none"]
    BY <1>4, RunAnswers
  <2>2. Shaped(work') /\ work'.head = work.head
    BY <2>1, Going DEF Shaped, WorkFields
  <2> QED BY <2>1, <2>2, Going DEF Goes, Phases
<1> QED BY <1>1, <1>2, <1>3, <1>4 DEF CallStep

LEMMA WithinGoes ==
    ASSUME DiskInv, WorkInv, Within
    PROVE  Goes
<1>1. CASE AnswerStatus
  BY <1>1, Ends, NewWorkShaped DEF AnswerStatus, Statuses
<1>2. CASE StartRound
  <2>1. Shaped(work') /\ work'.head = Len(log) + 1
    BY <1>2, Going DEF Shaped, WorkFields, StartRound
  <2>2. phase = "model" /\ phase' = "calls" /\ UNCHANGED <<status, steps, log>>
    BY <1>2 DEF StartRound
  <2> QED BY <2>1, <2>2, Going DEF Goes, Phases
<1>3. CASE EndRound
  <2>1. CASE phase' = "model" /\ UNCHANGED <<status, work>>
    BY <1>3, <2>1, Stays, Going DEF EndRound
  <2>2. CASE End("needs_review") \/ End("failed")
    BY <2>2, Ends, NewWorkShaped DEF End, Statuses
  <2> QED BY <1>3, <2>1, <2>2 DEF EndRound
<1>4. CASE DraftAnswer
  <2>1. Shaped(work')
    BY <1>4, Going DEF Shaped, WorkFields, DraftAnswer
  <2> QED BY <1>4, <2>1, Stays DEF DraftAnswer
<1>5. CASE CheckPlan
  <2>1. PICK audited : audited = IF work.newPlan THEN Audited ELSE {}
    OBVIOUS
  <2>2. PICK checked : checked = {plan[n].id : n \in audited}
    OBVIOUS
  <2>3. PICK passed \in SUBSET checked :
            work' = [work EXCEPT !.checked = checked, !.passed = passed]
    BY <1>5, <2>1, <2>2 DEF CheckPlan
  <2>4. Shaped(work')
    BY <2>3, Going DEF Shaped, WorkFields
  <2> QED BY <1>5, <2>4, Stays DEF CheckPlan
<1>6. CASE Verdict
  <2>1. phase = "checked"
    BY <1>6 DEF Verdict
  <2>2. CASE /\ work' = [work EXCEPT !.reviewed = TRUE]
             /\ phase' = "model" /\ UNCHANGED status
    <3>1. Shaped(work')
      BY <2>2, Going DEF Shaped, WorkFields
    <3> QED BY <2>1, <2>2, <3>1, Stays
  <2>3. CASE /\ work' = [NewWork EXCEPT !.draft = work.draft]
             /\ phase' = "idle" /\ status' \in {"completed", "needs_review"}
    <3>1. Shaped(work')
      BY <2>3 DEF Shaped, WorkFields, NewWork
    <3> QED BY <2>3, <3>1, Ends DEF Statuses
  <2> QED BY <1>6, <2>2, <2>3 DEF Verdict
<1>7. CASE OverBudget \/ FailModel
  BY <1>7, Ends, NewWorkShaped DEF OverBudget, FailModel, End, Statuses
<1>8. CASE Stop
  BY <1>8, Ends, NewWorkShaped DEF Stop, Statuses
<1>9. ASSUME NEW f \in Named, EditFile(f, 0) \/ EditFile(f, clock + 1)
      PROVE  Goes
  BY <1>9, EditsAreDuring, SameWork DEF EditFile
<1> QED BY <1>1, <1>2, <1>3, <1>4, <1>5, <1>6, <1>7, <1>8, <1>9,
           PlanGoes, CallGoes DEF Within

----------------------------------------------------------------------------
(* The plan.                                                                *)

\* What a revision keeps: phases of the plan, and every one that was reached.
LEMMA RetainedPhases ==
    ASSUME PlanInv, NEW kept, kept = Retained(plan)
    PROVE  /\ kept \in Seq(PlanItems \cup {Reply})
           /\ \A n \in DOMAIN plan : plan[n].id \in Reached =>
                 \E m \in 1 .. Len(kept) : kept[m] = plan[n]
<1>1. PICK N \in Nat : N = Len(plan) /\ DOMAIN plan = 1 .. N
  BY PlanElements
<1>2. PICK K : K = {n \in DOMAIN plan : plan[n].id \in Reached}
  OBVIOUS
<1>3. K \in SUBSET (1 .. N)
  BY <1>1, <1>2
<1>4. kept = [m \in 1 .. Cardinality(K) |-> plan[Place(K, m)]]
  BY <1>2 DEF Retained, Place, UpTo
<1>5. /\ Cardinality(K) \in Nat
      /\ \A m \in 1 .. Cardinality(K) : Place(K, m) \in K
      /\ \A n \in K : /\ Cardinality(UpTo(K, n)) \in 1 .. Cardinality(K)
                      /\ Place(K, Cardinality(UpTo(K, n))) = n
  BY <1>3, Placed
<1>6. kept \in [1 .. Cardinality(K) -> PlanItems \cup {Reply}]
  <2>1. \A m \in 1 .. Cardinality(K) : plan[Place(K, m)] \in PlanItems \cup {Reply}
    BY <1>1, <1>3, <1>5, PlanElements
  <2> QED BY <1>4, <2>1
<1>7. kept \in Seq(PlanItems \cup {Reply}) /\ Len(kept) = Cardinality(K)
  <2>1. kept \in Seq(PlanItems \cup {Reply})
    BY <1>5, <1>6, SeqDef
  <2> QED BY <1>5, <1>6, <2>1, LenProperties
<1>8. ASSUME NEW n \in K
      PROVE  \E m \in 1 .. Len(kept) : kept[m] = plan[n]
  <2>1. PICK m \in 1 .. Cardinality(K) : Place(K, m) = n
    BY <1>5
  <2>2. kept[m] = plan[n]
    BY <1>4, <2>1
  <2> QED BY <1>7, <2>1, <2>2
<1> QED BY <1>2, <1>7, <1>8

\* What a step within a turn does to the plan.
KeepsPlan ==
    /\ plan' \in Seq(PlanItems \cup {Reply})
    /\ \A n \in DOMAIN plan : plan[n].id \in Reached =>
          \E m \in DOMAIN plan' : plan'[m] = plan[n]
    /\ finished' \subseteq Ids \cup {"reply"}
    /\ UNCHANGED request

LEMMA SamePlan ==
    ASSUME PlanInv, UNCHANGED <<plan, request>>,
           UNCHANGED finished \/ finished' = {} \/ finished' = PlanIds
    PROVE  KeepsPlan
<1>1. PlanIds \subseteq Ids \cup {"reply"}
  BY PlanElements DEF PlanIds
<1> QED BY <1>1 DEF KeepsPlan, PlanInv

\* A plan where there was none.
LEMMA FirstPlan ==
    ASSUME PlanInv, plan = <<>>, plan' \in Seq(PlanItems \cup {Reply}),
           UNCHANGED request, UNCHANGED finished \/ finished' = {}
    PROVE  KeepsPlan
<1>1. DOMAIN plan = {}
  <2>1. Len(plan) = 0
    BY EmptySeq
  <2> QED BY <2>1, PlanElements
<1> QED BY <1>1 DEF KeepsPlan, PlanInv

LEMMA RevisedPlan ==
    ASSUME PlanInv, NEW future \in Plans, plan' = Retained(plan) \o future,
           UNCHANGED <<finished, request>>
    PROVE  KeepsPlan
<1>1. PICK kept : kept = Retained(plan)
  OBVIOUS
<1>2. /\ kept \in Seq(PlanItems \cup {Reply})
      /\ \A n \in DOMAIN plan : plan[n].id \in Reached =>
            \E m \in 1 .. Len(kept) : kept[m] = plan[n]
  BY <1>1, RetainedPhases
<1>3. future \in Seq(PlanItems \cup {Reply})
  <2>1. future \in Seq(PlanItems)
    BY WorkflowAssumption
  <2> QED BY <2>1, SeqMonotonic, PlanItems \subseteq PlanItems \cup {Reply}
<1>4. PICK next : next = plan'
  OBVIOUS
<1>5. /\ next \in Seq(PlanItems \cup {Reply})
      /\ Len(next) = Len(kept) + Len(future)
      /\ \A i \in 1 .. Len(kept) + Len(future) :
            next[i] = IF i <= Len(kept) THEN kept[i] ELSE future[i - Len(kept)]
  BY <1>1, <1>2, <1>3, <1>4, ConcatProperties
<1>6. Len(kept) \in Nat /\ Len(future) \in Nat /\ DOMAIN next = 1 .. Len(next)
  BY <1>2, <1>3, <1>5, LenProperties
<1>7. \A m \in 1 .. Len(kept) : m \in DOMAIN next /\ next[m] = kept[m]
  BY <1>5, <1>6
<1>8. \A n \in DOMAIN plan : plan[n].id \in Reached =>
          \E m \in DOMAIN next : next[m] = plan[n]
  BY <1>2, <1>7
<1> QED BY <1>4, <1>5, <1>8 DEF KeepsPlan, PlanInv

LEMMA WithinPlans ==
    ASSUME PlanInv, Within
    PROVE  KeepsPlan
<1>1. ASSUME NEW p \in Plans, DeclarePlan(p)
      PROVE  KeepsPlan
  <2>1. p \in Seq(PlanItems \cup {Reply})
    <3>1. p \in Seq(PlanItems)
      BY WorkflowAssumption
    <3> QED BY <3>1, SeqMonotonic, PlanItems \subseteq PlanItems \cup {Reply}
  <2>2. UNCHANGED request
    BY <1>1 DEF DeclarePlan, PlanCall
  <2>3. CASE UNCHANGED <<plan, finished>>
    BY <2>2, <2>3, SamePlan
  <2>4. CASE plan = <<>> /\ plan' = p /\ finished' = {}
    BY <2>1, <2>2, <2>4, FirstPlan
  <2> QED BY <1>1, <2>3, <2>4 DEF DeclarePlan
<1>2. ASSUME NEW p \in Plans, RevisePlan(p)
      PROVE  KeepsPlan
  <2>1. UNCHANGED <<finished, request>>
    BY <1>2 DEF RevisePlan, PlanCall
  <2>2. UNCHANGED plan \/ plan' = Retained(plan) \o p
    BY <1>2 DEF RevisePlan
  <2> QED BY <2>1, <2>2, SamePlan, RevisedPlan
<1>3. ASSUME NEW id, NEW k, DeclareStep(id, k)
      PROVE  KeepsPlan
  BY <1>3, SamePlan DEF DeclareStep, PlanCall
<1>4. CASE DraftAnswer
  <2>1. UNCHANGED <<finished, request>>
    BY <1>4 DEF DraftAnswer
  <2>2. CASE UNCHANGED plan
    BY <2>1, <2>2, SamePlan
  <2>3. CASE plan = <<>> /\ plan' = <<Reply>>
    <3>1. PICK p : p = <<Reply>>
      OBVIOUS
    <3>2. p \in Seq(PlanItems \cup {Reply})
      BY <3>1
    <3> QED BY <2>1, <2>3, <3>1, <3>2, FirstPlan
  <2> QED BY <1>4, <2>2, <2>3 DEF DraftAnswer
<1>5. CASE Verdict
  <2>1. UNCHANGED <<plan, request>>
    BY <1>5 DEF Verdict
  <2>2. UNCHANGED finished \/ finished' = PlanIds
    BY <1>5 DEF Verdict
  <2> QED BY <2>1, <2>2, SamePlan
<1>6. CASE \/ AnswerStatus \/ StartRound \/ EndRound
           \/ CheckPlan \/ OverBudget \/ FailModel \/ Stop
  BY <1>6, SamePlan DEF AnswerStatus, StartRound, EndRound,
                        CheckPlan, OverBudget, FailModel, Stop
<1>7. CASE CallStep
  <2>1. ASSUME NEW tool, NEW f,
               RefuseInDiscussion(tool) \/ Propose(tool, f) \/ FailLimit(tool, f)
        PROVE  KeepsPlan
    BY <2>1, SamePlan DEF RefuseInDiscussion, Propose, FailLimit
  <2>2. CASE \/ WriteFile \/ CheckFile \/ RunOther
             \/ FailCall("failed") \/ FailCall("denied")
    BY <2>2, SamePlan DEF WriteFile, CheckFile, RunOther, FailCall, Finish
  <2> QED BY <1>7, <2>1, <2>2 DEF CallStep
<1>8. ASSUME NEW f, EditFile(f, 0) \/ EditFile(f, clock + 1)
      PROVE  KeepsPlan
  BY <1>8, SamePlan DEF EditFile
<1> QED BY <1>1, <1>2, <1>3, <1>4, <1>5, <1>6, <1>7, <1>8 DEF Within, PlanStep

----------------------------------------------------------------------------
(* A step within a turn keeps the invariant.                                *)

LEMMA WithinKeepsLog ==
    ASSUME LogInv, DiskInv, WorkInv, Writes, Logs
    PROVE  LogInv' /\ Len(log') \in {Len(log), Len(log) + 1}
<1>1. /\ IsLog(log) /\ Len(log) \in Nat /\ DOMAIN log = 1 .. Len(log)
      /\ clock \in Nat /\ clock' \in Nat /\ clock' >= clock
  BY TurnIsThere, WorkflowAssumption DEF LogInv, DiskInv, Writes
<1>2. \A i \in 1 .. Len(log) : log[i].head \in 1 .. i /\ log[i].hash \in 0 .. clock'
  BY <1>1 DEF LogInv
<1>3. CASE UNCHANGED log
  BY <1>1, <1>2, <1>3 DEF LogInv
<1>4. ASSUME phase \in {"calls", "tool"}, NEW e, Answered(e, Tools \cup PlanTools)
      PROVE  LogInv' /\ Len(log') = Len(log) + 1
  <2>1. /\ IsLog(log') /\ Len(log') = Len(log) + 1
        /\ DOMAIN log' = 1 .. Len(log) + 1
        /\ \A i \in 1 .. Len(log) : log'[i] = log[i]
        /\ log'[Len(log) + 1] = e
    BY <1>1, <1>4, Appended DEF Answered
  <2>2. e.head \in 1 .. Len(log) + 1 /\ e.hash \in 0 .. clock'
    BY <1>4 DEF Answered, WorkInv
  <2>3. \A i \in 1 .. Len(log) + 1 : i \in 1 .. Len(log) \/ i = Len(log) + 1
    BY <1>1
  <2>4. \A i \in 1 .. Len(log) + 1 :
            log'[i].head \in 1 .. i /\ log'[i].hash \in 0 .. clock'
    BY <1>2, <2>1, <2>2, <2>3
  <2> QED BY <2>1, <2>4 DEF LogInv
<1> QED BY <1>3, <1>4 DEF Logs

LEMMA WithinKeepsSteps ==
    ASSUME LogInv, StepsInv, WorkInv, Moves,
           Len(log') \in {Len(log), Len(log) + 1}
    PROVE  StepsInv'
<1>1. /\ Len(steps) \in Nat /\ Len(log) \in Nat
      /\ 0 .. Len(log) + 1 \subseteq 0 .. Len(log') + 1
  BY ActiveIsLast, TurnIsThere DEF LogInv
<1>2. PICK ss : ss = steps'
  OBVIOUS
<1>3. PICK new : new = {Len(log) + 1}
  OBVIOUS
<1>4. /\ Carries(ss, new) /\ new \subseteq 0 .. Len(log) + 1
      /\ Len(ss) \in {Len(steps), Len(steps) + 1}
      /\ Len(ss) # Len(steps) => phase = "calls"
  BY <1>1, <1>2, <1>3 DEF Moves, Carries
<1>5. \A k \in 1 .. Len(steps) :
          /\ steps[k].actions \subseteq 0 .. Len(log) + 1
          /\ steps[k].start \in 0 .. Len(log) + 1
          /\ ss[k].start = steps[k].start
          /\ ss[k].actions \subseteq steps[k].actions \cup new
  BY <1>4 DEF StepsInv, Carries
<1>6. ASSUME NEW k \in 1 .. Len(ss), k \notin 1 .. Len(steps)
      PROVE  /\ k = Len(ss) /\ ss[k].start = work.head
             /\ ss[k].actions \subseteq new
             /\ work.head \in 1 .. Len(log) + 1
             /\ \A j \in 1 .. Len(steps) : steps[j].start <= work.head
  <2>1. k = Len(ss) /\ phase = "calls"
    BY <1>1, <1>4, <1>6
  <2>2. ss[k].start = work.head /\ ss[k].actions \subseteq new
    BY <1>4, <1>6 DEF Carries
  <2> QED BY <2>1, <2>2 DEF WorkInv
<1>7. ASSUME NEW k \in 1 .. Len(ss)
      PROVE  /\ ss[k].actions \subseteq 0 .. Len(log) + 1
             /\ ss[k].start \in 0 .. Len(log) + 1
             /\ ss[k].status = "active" => k = Len(ss)
  <2>1. ss[k].status = "active" => k = Len(ss)
    BY <1>4 DEF Carries
  <2>2. CASE k \in 1 .. Len(steps)
    BY <1>4, <1>5, <2>1, <2>2
  <2>3. CASE k \notin 1 .. Len(steps)
    <3>1. ss[k].start \in 0 .. Len(log) + 1
      BY <1>6, <2>3, 1 .. Len(log) + 1 \subseteq 0 .. Len(log) + 1
    <3> QED BY <1>4, <1>6, <2>1, <2>3, <3>1
  <2> QED BY <2>2, <2>3
<1>8. ASSUME NEW j \in 1 .. Len(ss), NEW k \in 1 .. Len(ss), j <= k
      PROVE  ss[j].start <= ss[k].start
  <2>1. CASE k \in 1 .. Len(steps)
    <3>1. j \in 1 .. Len(steps)
      BY <1>1, <1>8, <2>1
    <3>2. steps[j].start <= steps[k].start
      BY <1>8, <2>1, <3>1 DEF StepsInv
    <3> QED BY <1>5, <2>1, <3>1, <3>2
  <2>2. CASE k \notin 1 .. Len(steps)
    <3>1. CASE j \in 1 .. Len(steps)
      BY <1>5, <1>6, <2>2, <3>1
    <3>2. CASE j \notin 1 .. Len(steps)
      BY <1>6, <2>2, <3>2
    <3> QED BY <3>1, <3>2
  <2> QED BY <2>1, <2>2
<1>9. ss \in Seq(StepRecords)
  BY <1>4 DEF Carries
<1>10. \A k \in 1 .. Len(ss) :
          /\ ss[k].actions \subseteq 0 .. Len(log') + 1
          /\ ss[k].start \in 0 .. Len(log') + 1
  BY <1>1, <1>7, Zenon
<1> QED BY <1>2, <1>7, <1>8, <1>9, <1>10 DEF StepsInv

LEMMA WithinKeepsWork ==
    ASSUME LogInv, StepsInv, WorkInv, Moves, Goes, UNCHANGED request,
           Len(log') \in {Len(log), Len(log) + 1}
    PROVE  WorkInv'
<1>1. Len(steps) \in Nat /\ Len(log) \in Nat
  BY ActiveIsLast, TurnIsThere DEF LogInv
<1>2. PICK ss : ss = steps'
  OBVIOUS
<1>3. /\ ss \in Seq(StepRecords) /\ Len(ss) \in {Len(steps), Len(steps) + 1}
      /\ \A k \in 1 .. Len(steps) : ss[k].start = steps[k].start
      /\ \A k \in 1 .. Len(ss) : k \notin 1 .. Len(steps) => ss[k].start = work.head
  BY <1>2 DEF Moves, Carries
<1>4. phase' # "idle" => status' = "running" /\ ss # <<>>
  <2>1. ASSUME phase' # "idle"
        PROVE  status' = "running" /\ ss # <<>>
    <3>1. status' = "running" /\ steps # <<>>
      BY <2>1 DEF Goes, WorkInv
    <3>2. Len(steps) # 0
      BY <3>1, EmptySeq DEF StepsInv
    <3>3. Len(ss) # 0
      BY <1>1, <1>3, <3>2
    <3>4. ss # <<>>
      BY <3>3, EmptySeq
    <3> QED BY <3>1, <3>4
  <2> QED BY <2>1
<1>5. phase' \in {"calls", "tool"} =>
          /\ work'.head \in 1 .. Len(log') + 1
          /\ \A k \in 1 .. Len(ss) : ss[k].start <= work'.head
  <2>1. CASE phase \in {"calls", "tool"} /\ work'.head = work.head
    <3>1. /\ work.head \in 1 .. Len(log) + 1
          /\ \A k \in 1 .. Len(steps) : steps[k].start <= work.head
      BY <2>1 DEF WorkInv
    <3>2. work.head \in 1 .. Len(log') + 1
      BY <1>1, <3>1
    <3>3. ASSUME NEW k \in 1 .. Len(ss)
          PROVE  ss[k].start <= work.head
      <4>1. CASE k \in 1 .. Len(steps)
        BY <1>3, <3>1, <4>1
      <4>2. CASE k \notin 1 .. Len(steps)
        BY <1>3, <3>1, <4>2
      <4> QED BY <4>1, <4>2
    <3> QED BY <2>1, <3>2, <3>3
  <2>2. CASE UNCHANGED <<steps, log>> /\ work'.head = Len(log) + 1
    <3>1. \A k \in 1 .. Len(steps) : steps[k].start \in 0 .. Len(log) + 1
      BY DEF StepsInv
    <3>2. \A k \in 1 .. Len(steps) : steps[k].start <= Len(log) + 1
      BY <1>1, <3>1
    <3> QED BY <1>1, <1>2, <2>2, <3>2
  <2> QED BY <2>1, <2>2 DEF Goes
<1>6. phase' = "status" => request'.mode = "status"
  BY DEF Goes, WorkInv
<1> QED BY <1>2, <1>4, <1>5, <1>6 DEF Goes, WorkInv, Shaped, Phases, Statuses

LEMMA WithinKeepsOpen ==
    ASSUME Moves, UNCHANGED request
    PROVE  OpenInv'
BY DEF Moves, OpenInv, AllClosed

LEMMA WithinKeeps ==
    ASSUME TypeInv, Within
    PROVE  TypeInv'
<1> USE DEF TypeInv
<1>1. Moves /\ Writes /\ Logs /\ Goes /\ KeepsPlan
  BY WithinMoves, WithinWrites, WithinLogs, WithinGoes, WithinPlans
<1>2. LogInv' /\ Len(log') \in {Len(log), Len(log) + 1}
  BY <1>1, WithinKeepsLog
<1>3. StepsInv' /\ WorkInv'
  BY <1>1, <1>2, WithinKeepsSteps, WithinKeepsWork DEF KeepsPlan
<1>4. DiskInv'
  BY <1>1 DEF Writes, DiskInv
<1>5. PlanInv'
  BY <1>1 DEF KeepsPlan, PlanInv
<1>6. OpenInv'
  BY <1>1, WithinKeepsOpen DEF KeepsPlan
<1> QED BY <1>2, <1>3, <1>4, <1>5, <1>6

----------------------------------------------------------------------------
(* A turn begins.                                                           *)

\* Steps that a turn can begin with, after n messages and calls.
StepsFor(ss, n) ==
    /\ ss \in Seq(StepRecords)
    /\ \A k \in 1 .. Len(ss) :
          /\ ss[k].actions \subseteq 0 .. n + 1
          /\ ss[k].start \in 0 .. n + 1
          /\ ss[k].status = "active" => k = Len(ss)
    /\ \A j, k \in 1 .. Len(ss) : j <= k => ss[j].start <= ss[k].start

\* The first step of all is one of them.
LEMMA FirstSteps ==
    ASSUME NEW n \in Nat
    PROVE  StepsFor(<<Understand>>, n) /\ <<Understand>> # <<>>
<1>1. PICK ss : ss = <<Understand>>
  OBVIOUS
<1>2. PICK t : t = Understand
  OBVIOUS
<1>3. t \in StepRecords /\ t.actions = {} /\ t.start = 0
  BY <1>2 DEF Understand, StepRecords, StepStatuses, Kinds
<1>4. ss \in Seq(StepRecords) /\ Len(ss) = 1 /\ ss[1] = t /\ ss # <<>>
  BY <1>1, <1>2, <1>3
<1>5. \A k \in 1 .. Len(ss) : k = 1
  BY <1>4
<1>6. 0 \in 0 .. n + 1 /\ 0 <= 0
  OBVIOUS
<1>7. \A k \in 1 .. Len(ss) :
          /\ ss[k].actions \subseteq 0 .. n + 1 /\ ss[k].start \in 0 .. n + 1
          /\ ss[k].start = 0 /\ k = Len(ss)
  BY <1>3, <1>4, <1>5, <1>6
<1> QED BY <1>1, <1>4, <1>6, <1>7 DEF StepsFor

\* They are steps after one message more, too.
LEMMA StepsLater ==
    ASSUME NEW n \in Nat, NEW ss, StepsFor(ss, n)
    PROVE  StepsFor(ss, n + 1)
<1>1. 0 .. n + 1 \subseteq 0 .. (n + 1) + 1
  OBVIOUS
<1>2. \A k \in 1 .. Len(ss) :
          /\ ss[k].actions \subseteq 0 .. (n + 1) + 1
          /\ ss[k].start \in 0 .. (n + 1) + 1
  BY <1>1, Zenon DEF StepsFor
<1> QED BY <1>2 DEF StepsFor

LEMMA Begun ==
    ASSUME NEW r \in Requests, NEW l, IsLog(l), Len(l) \in Nat, clock' \in Nat,
           \A i \in 1 .. Len(l) : l[i].head \in 1 .. i /\ l[i].hash \in 0 .. clock',
           NEW p \in Seq(PlanItems \cup {Reply}),
           NEW ss, StepsFor(ss, Len(l)),
           NEW done \in SUBSET (Ids \cup {"reply"}),
           Begin(r, l, p, ss, done)
    PROVE  LogInv' /\ PlanInv' /\ StepsInv' /\ WorkInv' /\ OpenInv'
<1>1. LogInv' /\ Len(log') = Len(l) + 1
  <2>1. PICK e : e = [tool |-> "user", file |-> "none", status |-> "",
                      hash |-> 0, existed |-> FALSE, head |-> Len(l) + 1]
    OBVIOUS
  <2>2. e.hash = 0 /\ e.head = Len(l) + 1
    BY <2>1
  <2>3. log' = Append(l, e)
    BY <2>1 DEF Begin
  <2>4. /\ IsLog(log') /\ Len(log') = Len(l) + 1
        /\ DOMAIN log' = 1 .. Len(l) + 1
        /\ \A i \in 1 .. Len(l) : log'[i] = l[i]
        /\ log'[Len(l) + 1] = e
    BY <2>3, Appended
  <2>5. e.head \in 1 .. Len(l) + 1 /\ e.hash \in 0 .. clock'
    BY <2>2
  <2>6. \A i \in 1 .. Len(l) + 1 : i \in 1 .. Len(l) \/ i = Len(l) + 1
    OBVIOUS
  <2>7. \A i \in 1 .. Len(l) + 1 :
            log'[i].head \in 1 .. i /\ log'[i].hash \in 0 .. clock'
    BY <2>4, <2>5, <2>6
  <2> QED BY <2>4, <2>7 DEF LogInv
<1>2. PlanInv'
  BY DEF Begin, PlanInv
<1>3. PICK tt : tt = steps'
  OBVIOUS
<1>4. StepsFor(tt, Len(l) + 1) /\ tt # <<>>
  <2>1. CASE ss = <<>>
    <3>1. tt = <<Understand>>
      BY <1>3, <2>1 DEF Begin
    <3>2. Len(l) + 1 \in Nat
      OBVIOUS
    <3> QED BY <3>1, <3>2, FirstSteps
  <2>2. CASE ss # <<>>
    <3>1. tt = ss
      BY <1>3, <2>2 DEF Begin
    <3> QED BY <2>2, <3>1, StepsLater
  <2> QED BY <2>1, <2>2
<1>5. StepsInv'
  BY <1>1, <1>3, <1>4 DEF StepsInv, StepsFor
<1>6. WorkInv'
  <2>1. PICK b : b = (p = <<>> \/ Continues(p, ss, done, r))
    OBVIOUS
  <2>2. PICK w : w = [NewWork EXCEPT !.newPlan = b]
    OBVIOUS
  <2>3. DOMAIN w = WorkFields /\ w.passed \subseteq w.checked
    BY <2>2 DEF NewWork, WorkFields
  <2>4. work' = w
    BY <2>1, <2>2 DEF Begin
  <2>5. /\ status' = "running" /\ request' = r
        /\ phase' = IF r.mode = "status" THEN "status" ELSE "model"
    BY DEF Begin
  <2> QED BY <1>3, <1>4, <2>3, <2>4, <2>5 DEF WorkInv
<1>7. OpenInv'
  BY DEF Begin, OpenInv
<1> QED BY <1>1, <1>2, <1>5, <1>6, <1>7

LEMMA AskedRequests ==
    ASSUME PlanInv
    PROVE  Asked \subseteq Requests
BY WorkflowAssumption DEF Asked, PlanInv

LEMMA SendKeeps ==
    ASSUME TypeInv, NEW r \in Asked, SendMessage(r)
    PROVE  TypeInv'
<1> USE DEF TypeInv
<1>1. r \in Requests
  BY AskedRequests
<1>2. /\ IsLog(log) /\ Len(log) \in Nat /\ DOMAIN log = 1 .. Len(log)
      /\ clock' = clock /\ clock \in Nat
  BY TurnIsThere, WorkflowAssumption DEF LogInv, DiskInv, SendMessage
<1>3. \A i \in 1 .. Len(log) : log[i].head \in 1 .. i /\ log[i].hash \in 0 .. clock'
  BY <1>2 DEF LogInv
<1>4. plan \in Seq(PlanItems \cup {Reply}) /\ finished \in SUBSET (Ids \cup {"reply"})
  BY DEF PlanInv
<1>5. StepsFor(steps, Len(log))
  BY DEF StepsInv, StepsFor
<1>6. LogInv' /\ PlanInv' /\ StepsInv' /\ WorkInv' /\ OpenInv'
  BY <1>1, <1>2, <1>3, <1>4, <1>5, Begun DEF SendMessage
<1>7. DiskInv'
  BY DEF SendMessage, DiskInv
<1> QED BY <1>6, <1>7

\* A kept step, of which the calls that were cut are no longer in the log.
CutStep(s, cut) == [s EXCEPT !.actions = {IF i < cut THEN i ELSE 0 : i \in @}]

\* What a rewind to step k begins the turn with.
LEMMA RewindBegins ==
    ASSUME TypeInv, NEW k \in DOMAIN steps, NEW r, RewindTo(k, r)
    PROVE  \E cut, l, kept :
              /\ cut \in 1 .. Len(log) + 1
              /\ IsLog(l) /\ Len(l) = cut - 1 /\ Len(l) \in Nat
              /\ \A i \in 1 .. Len(l) : i \in 1 .. Len(log) /\ l[i] = log[i]
              /\ k \in 1 .. Len(steps)
              /\ kept = [n \in 1 .. k - 1 |-> CutStep(steps[n], cut)]
              /\ StepsFor(kept, Len(l))
              /\ Begin(r, l, <<>>, kept, {})
<1> USE DEF TypeInv
<1>1. /\ IsLog(log) /\ Len(log) \in Nat /\ DOMAIN log = 1 .. Len(log)
  BY TurnIsThere DEF LogInv
<1>2. /\ k \in 1 .. Len(steps) /\ Len(steps) \in Nat
      /\ \A n \in 1 .. Len(steps) :
            /\ steps[n] \in StepRecords
            /\ steps[n].start \in 0 .. Len(log) + 1
            /\ steps[n].status = "active" => n = Len(steps)
      /\ \A i, n \in 1 .. Len(steps) : i <= n => steps[i].start <= steps[n].start
  BY ActiveIsLast DEF StepsInv
<1>3. PICK cut : cut = IF steps[k].start = 0 THEN 2 ELSE steps[k].start
  OBVIOUS
<1>4. cut \in 1 .. Len(log) + 1 /\ cut \in Nat /\ steps[k].start <= cut
  <2>1. Len(log) >= 1
    <3>1. log # <<>>
      BY DEF RewindTo
    <3>2. Len(log) # 0
      BY <3>1, EmptySeq DEF LogInv, IsLog
    <3> QED BY <1>1, <3>2
  <2>2. PICK s \in 0 .. Len(log) + 1 : s = steps[k].start
    BY <1>2
  <2> QED BY <1>1, <1>3, <2>1, <2>2
<1>5. PICK l : l = SubSeq(log, 1, cut - 1)
  OBVIOUS
<1>6. /\ IsLog(l) /\ Len(l) = cut - 1 /\ Len(l) \in Nat
      /\ \A i \in 1 .. Len(l) : i \in 1 .. Len(log) /\ l[i] = log[i]
  <2>1. /\ IsLog(l) /\ Len(l) = cut - 1
        /\ \A i \in 1 .. cut - 1 : l[i] = log[i]
    BY <1>1, <1>4, <1>5, CutShort
  <2>2. \A i \in 1 .. cut - 1 : i \in 1 .. Len(log)
    BY <1>1, <1>4
  <2> QED BY <1>4, <2>1, <2>2
<1>7. PICK kept : kept = [n \in 1 .. k - 1 |-> CutStep(steps[n], cut)]
  OBVIOUS
<1>8. ASSUME NEW n \in 1 .. k - 1
      PROVE  /\ n \in 1 .. Len(steps) /\ n # Len(steps)
             /\ kept[n] \in StepRecords
             /\ kept[n].status = steps[n].status /\ kept[n].start = steps[n].start
             /\ kept[n].actions \subseteq 0 .. Len(l) + 1
             /\ kept[n].start \in 0 .. Len(l) + 1
  <2>1. n \in 1 .. Len(steps) /\ n # Len(steps) /\ n <= k
    BY <1>2
  <2>2. PICK s \in StepRecords : s = steps[n]
    BY <1>2, <2>1
  <2>3. PICK A : A = {IF i < cut THEN i ELSE 0 : i \in s.actions}
    OBVIOUS
  <2>4. s.actions \subseteq Nat
    BY DEF StepRecords
  <2>5. A \subseteq 0 .. Len(l) + 1
    BY <1>4, <1>6, <2>3, <2>4
  <2>6. kept[n] = [s EXCEPT !.actions = A]
    BY <1>7, <2>2, <2>3 DEF CutStep
  <2>7. A \in SUBSET Nat
    BY <1>6, <2>5
  <2>8. /\ kept[n] \in StepRecords /\ kept[n].actions = A
        /\ kept[n].status = s.status /\ kept[n].start = s.start
    BY <2>6, <2>7 DEF StepRecords
  <2>9. s.start \in Nat /\ s.start <= steps[k].start /\ steps[k].start \in Nat
    BY <1>2, <2>1, <2>2
  <2>10. s.start \in 0 .. Len(l) + 1
    BY <1>4, <1>6, <2>9
  <2> QED BY <2>1, <2>2, <2>5, <2>8, <2>10
<1>9. StepsFor(kept, Len(l))
  <2>1. PICK m \in Nat : m = k - 1
    BY <1>2
  <2>2. kept \in [1 .. m -> StepRecords]
    BY <1>7, <1>8, <2>1
  <2>3. kept \in Seq(StepRecords) /\ Len(kept) = m
    <3>1. kept \in Seq(StepRecords)
      BY <2>2, SeqDef
    <3> QED BY <2>2, <3>1, LenProperties
  <2>4. \A n \in 1 .. m : kept[n].status # "active"
    BY <1>2, <1>8, <2>1
  <2>5. \A i, n \in 1 .. m : i <= n => kept[i].start <= kept[n].start
    BY <1>2, <1>8, <2>1
  <2> QED BY <1>8, <2>1, <2>3, <2>4, <2>5 DEF StepsFor
<1>10. Begin(r, l, <<>>, kept, {})
  BY <1>3, <1>5, <1>7 DEF RewindTo, CutStep
<1> QED BY <1>2, <1>4, <1>6, <1>7, <1>9, <1>10

LEMMA RewindKeeps ==
    ASSUME TypeInv, NEW k \in DOMAIN steps, NEW r \in Asked, RewindTo(k, r)
    PROVE  TypeInv'
<1>1. r \in Requests
  BY AskedRequests DEF TypeInv
<1>2. clock' = clock /\ clock \in Nat
  BY WorkflowAssumption DEF TypeInv, DiskInv, RewindTo
<1>3. PICK cut, l, kept :
          /\ cut \in 1 .. Len(log) + 1
          /\ IsLog(l) /\ Len(l) = cut - 1 /\ Len(l) \in Nat
          /\ \A i \in 1 .. Len(l) : i \in 1 .. Len(log) /\ l[i] = log[i]
          /\ StepsFor(kept, Len(l))
          /\ Begin(r, l, <<>>, kept, {})
  BY RewindBegins
<1>4. \A i \in 1 .. Len(l) : l[i].head \in 1 .. i /\ l[i].hash \in 0 .. clock'
  <2>1. \A i \in 1 .. Len(log) : log[i].head \in 1 .. i /\ log[i].hash \in 0 .. clock
    BY TurnIsThere DEF TypeInv, LogInv
  <2> QED BY <1>2, <1>3, <2>1
<1>5. <<>> \in Seq(PlanItems \cup {Reply}) /\ {} \in SUBSET (Ids \cup {"reply"})
  BY EmptySeq
<1>6. LogInv' /\ PlanInv' /\ StepsInv' /\ WorkInv' /\ OpenInv'
  BY <1>1, <1>2, <1>3, <1>4, <1>5, Begun
<1>7. DiskInv'
  BY DEF TypeInv, RewindTo, DiskInv
<1> QED BY <1>6, <1>7 DEF TypeInv

----------------------------------------------------------------------------
(* Types and steps.                                                         *)

LEMMA TypeInit ==
    ASSUME Init
    PROVE  TypeInv
<1>1. LogInv
  <2>1. log = <<>> /\ log \in Seq({}) /\ DOMAIN log = {}
    BY EmptySeq DEF Init
  <2>2. IsLog(log)
    BY <2>1, IsLogOfAnything
  <2> QED BY <2>1, <2>2 DEF LogInv
<1>2. DiskInv
  BY WorkflowAssumption DEF Init, DiskInv
<1>3. PlanInv
  BY WorkflowAssumption DEF Init, PlanInv
<1>4. steps = <<>> /\ steps \in Seq(StepRecords) /\ Len(steps) = 0
  BY EmptySeq DEF Init
<1>5. StepsInv /\ OpenInv
  BY <1>4 DEF StepsInv, OpenInv
<1>6. WorkInv
  <2>1. Shaped(work) /\ phase = "idle" /\ status = "created"
    BY NewWorkShaped DEF Init
  <2> QED BY <2>1 DEF WorkInv, Shaped
<1> QED BY <1>1, <1>2, <1>3, <1>5, <1>6 DEF TypeInv

\* A step is within a turn, or begins one.
LEMMA Steps ==
    ASSUME Next
    PROVE  \/ Within
           \/ \E r \in Asked : SendMessage(r)
           \/ \E k \in DOMAIN steps, r \in Asked : RewindTo(k, r)
BY DEF Next, Within

LEMMA TypeKept ==
    ASSUME TypeInv, [Next]_vars
    PROVE  TypeInv'
<1>1. CASE UNCHANGED vars
  BY <1>1 DEF vars, TypeInv, LogInv, DiskInv, PlanInv, StepsInv, WorkInv, OpenInv
<1>2. CASE Next
  BY <1>2, Steps, WithinKeeps, SendKeeps, RewindKeeps
<1> QED BY <1>1, <1>2

LEMMA TypeImplies ==
    ASSUME TypeInv
    PROVE  WorkflowInv
<1> USE DEF TypeInv
<1>1. /\ \A i \in DOMAIN log : /\ log[i].head \in 1 .. i
                               /\ log[i].hash \in 0 .. clock
      /\ disk \in [Files -> 0 .. clock] /\ clock \in 1 .. MaxClock
  BY DEF LogInv, DiskInv
<1>2. DOMAIN steps = 1 .. Len(steps)
  BY ActiveIsLast
<1>3. \A k \in 1 .. Len(steps) :
          /\ steps[k].item \in Ids \cup {"none", "reply"}
          /\ steps[k].kind \in Kinds
          /\ steps[k].status \in {"active", "completed", "needs_review", "failed",
                                  "recovered"}
  BY ActiveIsLast DEF StepRecords, StepStatuses
<1>4. \A k \in 1 .. Len(steps) :
          /\ steps[k].actions \subseteq 0 .. Len(log) + 1
          /\ steps[k].start \in 0 .. Len(log) + 1
          /\ steps[k].status = "active" => k = Len(steps)
  BY DEF StepsInv
<1>5. /\ \A n \in DOMAIN plan : plan[n] \in PlanItems \cup {Reply}
      /\ finished \subseteq Ids \cup {"reply"} /\ request \in Requests
  BY PlanElements DEF PlanInv
<1>6. TypeOK
  BY <1>1, <1>2, <1>3, <1>4, <1>5 DEF TypeOK, WorkInv
<1>7. ASSUME NEW k \in DOMAIN steps, steps[k].status = "active"
      PROVE  /\ k = Len(steps)
             /\ status \in {"running", "cancelled"} \/ request.mode = "status"
  <2>1. k \in 1 .. Len(steps)
    BY <1>2
  <2>2. k = Len(steps)
    BY <1>4, <1>7, <2>1
  <2>3. status \in {"running", "cancelled"} \/ request.mode = "status"
    BY <1>7, <2>1 DEF OpenInv
  <2> QED BY <2>2, <2>3
<1> QED BY <1>6, <1>7 DEF WorkflowInv

\* Everything has its type: calls stand where their messages do, files and
\* hashes are contents that were given, steps and phases are what they can be.
THEOREM TypeInvariant == Spec => []TypeOK
<1>1. Init => TypeInv
  BY TypeInit
<1>2. TypeInv /\ [Next]_vars => TypeInv'
  BY TypeKept
<1>3. TypeInv => TypeOK
  BY TypeImplies DEF WorkflowInv
<1> QED BY <1>1, <1>2, <1>3, PTL DEF Spec

\* A new call goes to the last step begun, and a turn that did its work to the
\* end leaves no step open.
THEOREM StepsAreClosed == Spec => []WorkflowInv
<1>1. Init => TypeInv
  BY TypeInit
<1>2. TypeInv /\ [Next]_vars => TypeInv'
  BY TypeKept
<1>3. TypeInv => WorkflowInv
  BY TypeImplies
<1> QED BY <1>1, <1>2, <1>3, PTL DEF Spec

\* No declaration or revision takes a reached phase out of the plan of a turn.
THEOREM RevisionKeepsReached == Spec => ReachedItemsAreKept
<1> DEFINE Kept == \/ phase = "idle"
                   \/ \A n \in DOMAIN plan : plan[n].id \in Reached =>
                         \E m \in DOMAIN plan' : plan'[m] = plan[n]
<1>1. Init => TypeInv
  BY TypeInit
<1>2. TypeInv /\ [Next]_vars => TypeInv'
  BY TypeKept
<1>3. TypeInv /\ [Next]_vars => [Kept]_vars
  <2>1. ASSUME TypeInv, Next
        PROVE  Kept
    <3>1. CASE Within
      BY <2>1, <3>1, WithinPlans DEF TypeInv, KeepsPlan
    <3>2. CASE ~Within
      BY <2>1, <3>2, Steps DEF SendMessage, RewindTo
    <3> QED BY <3>1, <3>2
  <2> QED BY <2>1
<1>4. ReachedItemsAreKept <=> [][Kept]_vars
  BY DEF ReachedItemsAreKept
<1> QED BY <1>1, <1>2, <1>3, <1>4, PTL DEF Spec

----------------------------------------------------------------------------
(* What a completed task has written.                                       *)

\* They are the same in the same log.
LEMMA SameLog ==
    ASSUME UNCHANGED log
    PROVE  \A d : Differs(d)' = Differs(d)
BY DEF Differs, WrittenIn, WritesIn, WritesOf, Succeeded, ThisTurn, Turn

LEMMA SameDraft ==
    ASSUME DraftInv, UNCHANGED log, work'.drift = work.drift, work'.draft = work.draft,
           phase' \in {"draft", "checked"} => phase \in {"draft", "checked"}
    PROVE  DraftInv'
<1>1. PICK d : d = work.draft
  OBVIOUS
<1>2. Differs(work.draft)' = Differs(d)'
  BY <1>1 DEF Differs
<1>3. Differs(d)' = Differs(d)
  BY SameLog
<1> QED BY <1>1, <1>2, <1>3 DEF DraftInv

\* Only a text, its checks and edits come to the phases of the review.
LEMMA Drafting ==
    ASSUME Next
    PROVE  \/ UNCHANGED <<log, phase, work>> \/ DraftAnswer \/ CheckPlan
           \/ phase' \notin {"draft", "checked"}
<1>1. ASSUME NEW r, SendMessage(r) \/ \E k \in DOMAIN steps : RewindTo(k, r)
      PROVE  phase' \notin {"draft", "checked"}
  BY <1>1 DEF SendMessage, RewindTo, Begin
<1>2. CASE PlanStep
  BY <1>2 DEF PlanStep, DeclarePlan, RevisePlan, DeclareStep, PlanCall, MayCall, End
<1>3. CASE CallStep
  BY <1>3 DEF CallStep, RefuseInDiscussion, Propose, FailLimit, MayCall,
              WriteFile, CheckFile, RunOther, FailCall, Finish
<1>4. CASE AnswerStatus \/ StartRound \/ EndRound \/ Verdict
           \/ OverBudget \/ FailModel \/ Stop
  BY <1>4 DEF AnswerStatus, StartRound, EndRound, Verdict, OverBudget, FailModel,
              Stop, End
<1>5. ASSUME NEW f, EditFile(f, 0) \/ EditFile(f, clock + 1)
      PROVE  UNCHANGED <<log, phase, work>>
  BY <1>5 DEF EditFile
<1> QED BY <1>1, <1>2, <1>3, <1>4, <1>5 DEF Next

LEMMA DraftKept ==
    ASSUME WorkInv, DraftInv, [Next]_vars
    PROVE  DraftInv'
<1>1. CASE UNCHANGED <<log, phase, work>>
  <2>1. work'.drift = work.drift /\ work'.draft = work.draft
    BY <1>1
  <2> QED BY <1>1, <2>1, SameDraft
<1>2. CASE DraftAnswer
  <2>1. work'.drift = Drift /\ work'.draft = disk
    BY <1>2 DEF DraftAnswer, WorkInv, WorkFields
  <2>2. UNCHANGED log
    BY <1>2 DEF DraftAnswer
  <2> QED BY <2>1, <2>2 DEF DraftInv, Differs, Drift, AsWritten, WrittenIn, WritesIn,
                            WritesOf, Succeeded, ThisTurn, Turn
<1>3. CASE CheckPlan
  <2>1. UNCHANGED log /\ phase = "draft"
    BY <1>3 DEF CheckPlan
  <2>2. work'.drift = work.drift /\ work'.draft = work.draft
    BY <1>3 DEF CheckPlan
  <2>3. phase' = "checked"
    BY <1>3 DEF CheckPlan
  <2> QED BY <2>1, <2>2, <2>3, SameDraft
<1>4. CASE phase' \notin {"draft", "checked"}
  BY <1>4 DEF DraftInv
<1>5. CASE UNCHANGED vars
  BY <1>1, <1>5 DEF vars
<1> QED BY <1>1, <1>2, <1>3, <1>4, <1>5, Drafting

\* The turn's files are as they were written, in these contents; those of a
\* development were checked afterwards.
HasDelivered(draft) ==
    LET last(f) == Max({i \in ThisTurn : /\ log[i].tool = "write"
                                         /\ log[i].status = "succeeded"
                                         /\ log[i].file = f})
        written == {log[i].file : i \in {i \in ThisTurn :
                        log[i].tool = "write" /\ log[i].status = "succeeded"}}
    IN  /\ \A f \in written : draft[f] = log[last(f)].hash
        /\ request.mode = "develop" =>
              /\ written # {}
              /\ \E v \in ThisTurn :
                    /\ log[v].tool \in Verifying /\ log[v].status = "succeeded"
                    /\ \A f \in written : last(f) < v
                    /\ \A j \in ThisTurn : (/\ log[j].tool \in Verifying
                                            /\ log[j].status = "failed") => j < v
                    /\ log[v].tool = "check" => log[v].hash = log[last(log[v].file)].hash

\* What nothing stands against has delivered.
LEMMA MetIsDelivered ==
    ASSUME LogInv, DraftInv, phase = "checked", ~Unmet,
           request.mode \in {"develop", "execute"}
    PROVE  HasDelivered(work.draft)
<1> DEFINE S(f) == {i \in ThisTurn : /\ log[i].tool = "write"
                                     /\ log[i].status = "succeeded"
                                     /\ log[i].file = f}
           written == {log[i].file : i \in {i \in ThisTurn :
                          log[i].tool = "write" /\ log[i].status = "succeeded"}}
<1>1. /\ Len(log) \in Nat /\ Turn \in 0 .. Len(log)
  BY TurnIsThere DEF LogInv
<1>2. ThisTurn \subseteq 1 .. Len(log)
  BY <1>1 DEF ThisTurn
<1>3. written = WrittenIn(ThisTurn) /\ \A f : S(f) = WritesOf(f, ThisTurn)
  BY DEF WrittenIn, WritesIn, WritesOf, Succeeded
<1>4. \A f \in written : S(f) # {}
  OBVIOUS
<1>5. \A f : S(f) \subseteq ThisTurn
  OBVIOUS
<1>6. \A f \in written : LastOf(S(f)) = Max(S(f)) /\ Max(S(f)) \in S(f)
  <2>1. ASSUME NEW f \in written
        PROVE  LastOf(S(f)) = Max(S(f)) /\ Max(S(f)) \in S(f)
    <3>1. S(f) \in SUBSET (1 .. Len(log)) /\ S(f) # {}
      BY <1>2, <1>4, <1>5
    <3> HIDE DEF S
    <3> QED BY <1>1, <3>1, LastIsLast
  <2> QED BY <2>1
<1>7. \A f \in written : work.draft[f] = log[Max(S(f))].hash
  <2>1. work.drift = {}
    BY DEF Unmet
  <2>2. \A f \in WrittenIn(ThisTurn) :
            work.draft[f] = log[LastOf(WritesOf(f, ThisTurn))].hash
    BY <2>1 DEF DraftInv, Differs
  <2> HIDE DEF S, written
  <2> QED BY <1>3, <1>6, <2>2
<1>8. ASSUME request.mode = "develop"
      PROVE  /\ written # {}
             /\ \E v \in ThisTurn :
                   /\ log[v].tool \in Verifying /\ log[v].status = "succeeded"
                   /\ \A f \in written : Max(S(f)) < v
                   /\ \A j \in ThisTurn : (/\ log[j].tool \in Verifying
                                           /\ log[j].status = "failed") => j < v
                   /\ log[v].tool = "check" => log[v].hash = log[Max(S(log[v].file))].hash
  <2>1. Delivered(ThisTurn, request.paths, request.tests)
    BY <1>8 DEF Unmet, DeliveryPassed
  <2>2. WritesIn(ThisTurn) # {} /\ Verified(ThisTurn) # {}
    BY <2>1 DEF Delivered
  <2>3. PICK v \in Verified(ThisTurn) : TRUE
    BY <2>2
  <2>4. /\ v \in ThisTurn /\ log[v].tool \in Verifying /\ log[v].status = "succeeded"
        /\ \A j \in ThisTurn : (\/ log[j].tool = "write" /\ log[j].status = "succeeded"
                                \/ log[j].tool \in Verifying /\ log[j].status = "failed")
                                  => j < v
        /\ log[v].tool = "check" =>
              /\ log[v].file \in WrittenIn(ThisTurn)
              /\ AsWritten(log[v].file, ThisTurn)
              /\ log[v].hash = disk[log[v].file]
    BY <2>3 DEF Verified, Succeeded
  <2>5. written # {}
    <3>1. PICK i \in WritesIn(ThisTurn) : TRUE
      BY <2>2
    <3>2. log[i].file \in WrittenIn(ThisTurn)
      BY <3>1 DEF WrittenIn
    <3> QED BY <1>3, <3>2
  <2>6. \A f \in written : Max(S(f)) < v
    <3>1. ASSUME NEW f \in written
          PROVE  Max(S(f)) < v
      <4>1. PICK m \in S(f) : m = Max(S(f))
        BY <1>6
      <4>2. m < v
        BY <2>4
      <4> QED BY <4>1, <4>2
    <3> QED BY <3>1
  <2>7. log[v].tool = "check" => log[v].hash = log[Max(S(log[v].file))].hash
    <3>1. ASSUME log[v].tool = "check"
          PROVE  log[v].hash = log[Max(S(log[v].file))].hash
      <4>1. PICK f : f = log[v].file
        OBVIOUS
      <4>2. /\ f \in WrittenIn(ThisTurn)
            /\ log[v].hash = log[LastOf(WritesOf(f, ThisTurn))].hash
        BY <2>4, <3>1, <4>1 DEF AsWritten
      <4> HIDE DEF S, written
      <4> QED BY <1>3, <1>6, <4>1, <4>2
    <3> QED BY <3>1
  <2> QED BY <2>4, <2>5, <2>6, <2>7
<1> QED BY <1>7, <1>8 DEF HasDelivered

\* A task is found completed by a verdict, on a draft that nothing stands
\* against, or it was before.
LEMMA Concludes ==
    ASSUME WorkInv, [Next]_vars, Concluded'
    PROVE  \/ UNCHANGED vars /\ Concluded
           \/ /\ phase = "checked" /\ ~Unmet /\ request.mode \in {"develop", "execute"}
              /\ UNCHANGED <<log, request>> /\ work'.draft = work.draft
              /\ Verdict
<1>1. CASE UNCHANGED vars
  BY <1>1 DEF vars, Concluded
<1>2. CASE Verdict
  <2>1. status = "running" /\ phase = "checked" /\ UNCHANGED <<log, request>>
    BY <1>2 DEF Verdict, WorkInv
  <2>2. status' = "completed" /\ request'.mode \in {"develop", "execute"}
    BY DEF Concluded
  <2>3. status' # status
    BY <2>1, <2>2
  <2>4. ~Unmet /\ work' = [NewWork EXCEPT !.draft = work.draft]
    BY <1>2, <2>2, <2>3 DEF Verdict
  <2>5. work'.draft = work.draft
    BY <2>4 DEF NewWork
  <2> QED BY <1>2, <2>1, <2>2, <2>4, <2>5
<1>3. ASSUME Next, ~Verdict, ~UNCHANGED vars
      PROVE  FALSE
  <2>0. status' = "completed" /\ request'.mode \in {"develop", "execute"}
    BY DEF Concluded
  <2>1. phase # "idle" => status # "completed"
    BY DEF WorkInv
  <2>2. ASSUME NEW r, SendMessage(r) \/ \E k \in DOMAIN steps : RewindTo(k, r)
        PROVE  FALSE
    BY <2>0, <2>2 DEF SendMessage, RewindTo, Begin
  <2>3. ~PlanStep
    BY <2>0, <2>1 DEF PlanStep, DeclarePlan, RevisePlan, DeclareStep, PlanCall,
                      MayCall, End
  <2>4. ~CallStep
    BY <2>0, <2>1 DEF CallStep, RefuseInDiscussion, Propose, FailLimit, MayCall,
                      WriteFile, CheckFile, RunOther, FailCall, Finish
  <2>5. ~AnswerStatus
    BY <2>0 DEF AnswerStatus, WorkInv
  <2>6. ~StartRound /\ ~EndRound /\ ~DraftAnswer /\ ~CheckPlan
        /\ ~OverBudget /\ ~FailModel /\ ~Stop
    BY <2>0, <2>1 DEF StartRound, EndRound, DraftAnswer, CheckPlan, OverBudget,
                      FailModel, Stop, End
  <2>7. ASSUME NEW f \in Named, EditFile(f, 0) \/ EditFile(f, clock + 1)
        PROVE  FALSE
    BY <2>0, <2>1, <2>7, EditsAreDuring DEF EditFile
  <2> QED BY <1>3, <2>2, <2>3, <2>4, <2>5, <2>6, <2>7 DEF Next
<1> QED BY <1>1, <1>2, <1>3

\* The same log and request, and the same draft, have delivered the same.
LEMMA SameDelivery ==
    ASSUME UNCHANGED <<log, request>>, work'.draft = work.draft,
           HasDelivered(work.draft)
    PROVE  HasDelivered(work.draft)'
<1>1. PICK d : d = work.draft
  OBVIOUS
<1>2. log' = log /\ request' = request
  OBVIOUS
<1>3. HasDelivered(d)' <=> HasDelivered(d)
  BY <1>2 DEF HasDelivered, ThisTurn, Turn
<1>4. HasDelivered(work.draft) <=> HasDelivered(d)
  BY <1>1
<1>5. HasDelivered(work.draft)' <=> HasDelivered(d)'
  BY <1>1 DEF HasDelivered
<1> QED BY <1>3, <1>4, <1>5

LEMMA DeliveredAsIs == CompletedIsDelivered <=> (Concluded => HasDelivered(work.draft))
BY DEF CompletedIsDelivered, HasDelivered

\* A completed task's files were as it had written them when the final text
\* came, and a development's were checked after the last write and failed check.
THEOREM CompletionIsEarned == Spec => []CompletedIsDelivered
<1> DEFINE IInv == TypeInv /\ DraftInv /\ CompletedIsDelivered
<1>1. Init => IInv
  <2>1. ASSUME Init
        PROVE  DraftInv /\ CompletedIsDelivered
    <3>1. phase = "idle" /\ status = "created"
      BY <2>1 DEF Init
    <3> QED BY <3>1, DeliveredAsIs DEF DraftInv, Concluded
  <2> QED BY <2>1, TypeInit
<1>2. IInv /\ [Next]_vars => IInv'
  <2>1. ASSUME IInv, [Next]_vars
        PROVE  CompletedIsDelivered'
    <3>1. CASE ~Concluded'
      BY <3>1 DEF CompletedIsDelivered
    <3>2. CASE UNCHANGED vars
      <4>1. Concluded' => HasDelivered(work.draft)'
        <5>1. Concluded' <=> Concluded
          BY <3>2 DEF vars, Concluded
        <5>2. UNCHANGED <<log, request>> /\ work'.draft = work.draft
          BY <3>2 DEF vars
        <5> QED BY <2>1, <5>1, <5>2, DeliveredAsIs, SameDelivery
      <4> QED BY <4>1 DEF CompletedIsDelivered, HasDelivered
    <3>3. CASE /\ phase = "checked" /\ ~Unmet /\ request.mode \in {"develop", "execute"}
               /\ UNCHANGED <<log, request>> /\ work'.draft = work.draft
      <4>1. HasDelivered(work.draft)
        BY <2>1, <3>3, MetIsDelivered DEF TypeInv
      <4>2. HasDelivered(work.draft)'
        BY <3>3, <4>1, SameDelivery
      <4> QED BY <4>2 DEF CompletedIsDelivered, HasDelivered
    <3> QED BY <2>1, <3>1, <3>2, <3>3, Concludes DEF TypeInv
  <2>2. ASSUME IInv, [Next]_vars
        PROVE  TypeInv' /\ DraftInv'
    BY <2>2, TypeKept, DraftKept DEF TypeInv
  <2> QED BY <2>1, <2>2
<1>3. IInv => CompletedIsDelivered
  OBVIOUS
<1> QED BY <1>1, <1>2, <1>3, PTL DEF Spec

----------------------------------------------------------------------------
(* The calls of the turn and their steps.                                   *)

\* A call answered within the turn.
LEMMA TurnGoesOn ==
    ASSUME IsLog(log), NEW e, e.tool # "user", log' = Append(log, e)
    PROVE  /\ Len(log) \in Nat /\ Len(log') = Len(log) + 1
           /\ \A i \in 1 .. Len(log) : log'[i] = log[i]
           /\ log'[Len(log) + 1] = e
           /\ Turn \in 0 .. Len(log) /\ Turn' = Turn
<1>1. /\ Len(log) \in Nat /\ Len(log') = Len(log) + 1
      /\ DOMAIN log = 1 .. Len(log) /\ DOMAIN log' = 1 .. Len(log) + 1
      /\ \A i \in 1 .. Len(log) : log'[i] = log[i]
      /\ log'[Len(log) + 1] = e
  BY Appended
<1>2. {i \in DOMAIN log' : log'[i].tool = "user"} = {i \in DOMAIN log : log[i].tool = "user"}
  <2>1. \A i \in 1 .. Len(log) + 1 : i \in 1 .. Len(log) \/ i = Len(log) + 1
    BY <1>1
  <2>2. \A i \in 1 .. Len(log) : i \in 1 .. Len(log) + 1
    BY <1>1
  <2> QED BY <1>1, <2>1, <2>2
<1>3. Turn' = Turn
  BY <1>2 DEF Turn
<1> QED BY <1>1, <1>3, TurnIsThere

\* What does not attach a call leaves the log, or answers a declaration, a call
\* refused in a discussion, or the running call.
NoCall ==
    \/ UNCHANGED log /\ (phase' = "tool" <=> phase = "tool")
    \/ /\ phase # "tool" /\ phase' # "tool"
       /\ \/ \E e : Answered(e, PlanTools)
          \/ request.mode = "discuss" /\ \E e : Answered(e, Tools \cup PlanTools)
    \/ phase = "tool" /\ phase' # "tool" /\ \E e : Answered(e, Tools)

LEMMA NoCallTaken ==
    ASSUME DiskInv, PlanInv, WorkInv, Within, ~Takes
    PROVE  NoCall
<1>0. clock \in Nat /\ 0 \in 0 .. clock
  BY WorkflowAssumption DEF DiskInv
<1>1. CASE PlanStep
  <2>1. phase = "calls" /\ \E e : Answered(e, PlanTools)
    BY <1>1, PlanStepAnswers
  <2>2. phase' # "tool"
    BY <1>1, <2>1 DEF PlanStep, DeclarePlan, RevisePlan, DeclareStep, End
  <2> QED BY <2>1, <2>2 DEF NoCall
<1>2. ASSUME NEW tool \in Tried, RefuseInDiscussion(tool)
      PROVE  NoCall
  <2>1. PICK e : e = Entry(tool, "none", "denied")
    OBVIOUS
  <2>2. e.tool = tool /\ e.hash = 0 /\ e.head = work.head
    BY <2>1, EntryFields
  <2>3. /\ log' = Append(log, e) /\ phase = "calls" /\ phase' = "calls"
        /\ request.mode = "discuss" /\ clock' = clock
    BY <1>2, <2>1 DEF RefuseInDiscussion, Answer, MayCall
  <2>4. Answered(e, Tools \cup PlanTools)
    BY <1>0, <2>2, <2>3, TriedTools DEF Answered
  <2> QED BY <2>3, <2>4 DEF NoCall
<1>3. CASE \/ WriteFile \/ CheckFile \/ RunOther
           \/ FailCall("failed") \/ FailCall("denied")
  <2>1. phase = "tool" /\ phase' = "calls" /\ work.tool \in Tools
    BY <1>3, RunAnswers DEF WorkInv
  <2>2. PICK e : Answered(e, {work.tool})
    BY <1>3, RunAnswers
  <2>3. Answered(e, Tools)
    BY <2>1, <2>2 DEF Answered
  <2> QED BY <2>1, <2>3 DEF NoCall
<1>4. CASE Stop
  <2>1. CASE phase # "tool"
    BY <1>4, <2>1 DEF Stop, NoCall
  <2>2. CASE phase = "tool"
    <3>1. PICK e : e = [Current EXCEPT !.status = "cancelled"]
      OBVIOUS
    <3>2. phase' = "idle" /\ log' = Append(log, e) /\ clock' \in {clock, clock + 1}
      BY <1>4, <2>2, <3>1 DEF Stop
    <3>3. e.tool = work.tool /\ e.hash = 0 /\ e.head = work.head
      BY <3>1, CurrentFields
    <3>4. work.tool \in Tools /\ 0 \in 0 .. clock'
      BY <1>0, <2>2, <3>2 DEF WorkInv
    <3>5. Answered(e, Tools)
      BY <3>2, <3>3, <3>4 DEF Answered
    <3> QED BY <2>2, <3>2, <3>5 DEF NoCall
  <2> QED BY <2>1, <2>2
<1>5. CASE \/ AnswerStatus \/ StartRound \/ EndRound \/ DraftAnswer
           \/ CheckPlan \/ Verdict \/ OverBudget \/ FailModel
  BY <1>5 DEF AnswerStatus, StartRound, EndRound, DraftAnswer,
              CheckPlan, Verdict, OverBudget, FailModel, End, NoCall
<1>6. ASSUME NEW f, EditFile(f, 0) \/ EditFile(f, clock + 1)
      PROVE  NoCall
  BY <1>6 DEF EditFile, NoCall
<1>7. CASE CallStep
  <2>1. ~(\E tool \in Tools \cap Tried : \E f \in Targets(tool) :
             Propose(tool, f) \/ FailLimit(tool, f))
    BY DEF Takes
  <2> QED BY <1>2, <1>3, <1>7, <2>1 DEF CallStep
<1> QED BY <1>1, <1>4, <1>5, <1>6, <1>7 DEF Within

\* A call that is attached is in a step, and runs or is answered.
LEMMA CallTaken ==
    ASSUME LogInv, DiskInv, StepsInv, WorkInv, Takes
    PROVE  /\ phase = "calls" /\ InSome(steps', Len(log) + 1)
           /\ \/ phase' = "tool" /\ UNCHANGED log
              \/ phase' # "tool" /\ \E e : Answered(e, Tools)
<1>0. clock \in Nat /\ 0 \in 0 .. clock
  BY WorkflowAssumption DEF DiskInv
<1>1. PICK id \in Nat : id = Len(log) + 1
  BY TurnIsThere DEF LogInv
<1>2. phase = "calls" => work.head \in Nat
  <2>1. phase = "calls" => work.head \in 1 .. Len(log) + 1
    BY DEF WorkInv
  <2> QED BY <2>1
<1>3. ASSUME NEW tool \in Tools, NEW file, NEW outcome,
             log' = Append(log, Entry(tool, file, outcome)), UNCHANGED clock
      PROVE  \E e : Answered(e, Tools)
  <2>1. PICK e : e = Entry(tool, file, outcome)
    OBVIOUS
  <2>2. e.tool = tool /\ e.hash = 0 /\ e.head = work.head
    BY <2>1, EntryFields
  <2>3. Answered(e, Tools)
    BY <1>0, <1>3, <2>1, <2>2 DEF Answered
  <2> QED BY <2>3
<1>4. ASSUME NEW tool \in Tools, NEW f, Propose(tool, f)
      PROVE  /\ phase = "calls" /\ InSome(steps', id)
             /\ \/ phase' = "tool" /\ UNCHANGED log
                \/ phase' # "tool" /\ \E e : Answered(e, Tools)
  <2>1. phase = "calls" /\ UNCHANGED clock
    BY <1>4 DEF Propose, MayCall
  <2>2. PICK ss : ss = Attached(id)
    OBVIOUS
  <2>3. ss = steps'
    BY <1>1, <1>4, <2>2 DEF Propose
  <2>4. Len(ss) \in 1 .. Len(steps) + 1 /\ id \in ss[Len(ss)].actions
    BY <1>2, <2>1, <2>2, AttachedStep
  <2>5. Len(ss) \in 1 .. Len(ss)
    BY <2>4
  <2>6. InSome(steps', id)
    BY <2>3, <2>4, <2>5 DEF InSome
  <2>7. \/ phase' = "tool" /\ UNCHANGED log
        \/ phase' = phase /\ \E outcome : log' = Append(log, Entry(tool, f, outcome))
    BY <1>4 DEF Propose
  <2> QED BY <1>3, <2>1, <2>6, <2>7
<1>5. ASSUME NEW tool \in Tools, NEW f, FailLimit(tool, f)
      PROVE  /\ phase = "calls" /\ InSome(steps', id)
             /\ phase' # "tool" /\ \E e : Answered(e, Tools)
  <2>1. /\ phase = "calls" /\ phase' = "idle" /\ UNCHANGED clock
        /\ log' = Append(log, Entry(tool, f, "failed"))
    BY <1>5 DEF FailLimit, MayCall
  <2>2. PICK ss : ss = Attached(id)
    OBVIOUS
  <2>3. PICK open : open = LastOf({k \in DOMAIN ss : ss[k].status = "active"})
    OBVIOUS
  <2>4. PICK tt : tt = [ss EXCEPT ![open].status = "failed"]
    OBVIOUS
  <2>5. tt = steps'
    BY <1>1, <1>5, <2>2, <2>3, <2>4 DEF FailLimit
  <2>6. work.head \in Nat
    BY <1>2, <2>1
  <2>7. InSome(tt, id)
    BY <2>2, <2>3, <2>4, <2>6, FailedStep
  <2>8. InSome(steps', id)
    BY <2>5, <2>7
  <2> QED BY <1>3, <2>1, <2>8
<1> QED BY <1>1, <1>4, <1>5 DEF Takes

\* What the steps become, with the calls in new: none, or the next one.
LEMMA StillCalls ==
    ASSUME LogInv, StepsInv, WorkInv, CallsInv, Moves,
           NEW new, Carries(steps', new),
           new # {} => new = {Len(log) + 1} /\ phase = "calls",
           NEW l, NEW p, Len(l) \in Nat, Len(l) >= Len(log),
           \A i \in 1 .. Len(log) : l[i] = log[i],
           new # {} \/ phase = "tool" =>
              \/ p = "tool" /\ Len(l) = Len(log)
              \/ Len(log) + 1 \in 1 .. Len(l) /\ l[Len(log) + 1].tool \in Tools,
           NEW ss, ss = steps'
    PROVE  /\ \A k \in 1 .. Len(ss) : \A i \in ss[k].actions :
                 IsCall(ss[k], i, l, Turn, p)
           /\ \A i : InSome(steps, i) => InSome(ss, i)
<1>1. /\ Len(log) \in Nat /\ Len(steps) \in Nat /\ Turn \in 0 .. Len(log)
      /\ Len(ss) \in {Len(steps), Len(steps) + 1}
      /\ 1 .. Len(log) \subseteq 1 .. Len(l)
  BY TurnIsThere, ActiveIsLast DEF LogInv, Carries
<1>2. \A k \in 1 .. Len(steps) :
          /\ ss[k].start = steps[k].start
          /\ steps[k].actions \subseteq ss[k].actions
          /\ ss[k].actions \subseteq steps[k].actions \cup new
  BY DEF Carries
<1>3. \A k \in 1 .. Len(ss) : k \notin 1 .. Len(steps) =>
          ss[k].start = work.head /\ ss[k].actions \subseteq new
  BY DEF Carries
<1>4. ASSUME NEW k \in 1 .. Len(steps), NEW i \in steps[k].actions
      PROVE  IsCall(ss[k], i, l, Turn, p)
  <2>1. IsCall(steps[k], i, log, Turn, phase)
    BY DEF CallsInv
  <2>2. CASE i = 0 /\ steps[k].start <= Turn
    BY <1>2, <2>2 DEF IsCall
  <2>3. CASE i >= steps[k].start /\ i \in 1 .. Len(log) /\ log[i].tool \in Tools
    <3>1. i \in 1 .. Len(l) /\ l[i].tool \in Tools
      BY <1>1, <2>3
    <3> QED BY <1>2, <2>3, <3>1 DEF IsCall
  <2>4. CASE i >= steps[k].start /\ phase = "tool" /\ i = Len(log) + 1
    BY <1>2, <2>4 DEF IsCall
  <2> QED BY <2>1, <2>2, <2>3, <2>4 DEF IsCall
<1>5. ASSUME NEW k \in 1 .. Len(ss), NEW i \in new, new # {}
      PROVE  IsCall(ss[k], i, l, Turn, p)
  <2>1. i = Len(log) + 1 /\ phase = "calls"
    BY <1>5
  <2>2. ss[k].start <= i
    <3>1. CASE k \in 1 .. Len(steps)
      <4>1. steps[k].start \in 0 .. Len(log) + 1
        BY <3>1 DEF StepsInv
      <4> QED BY <1>1, <1>2, <2>1, <3>1, <4>1
    <3>2. CASE k \notin 1 .. Len(steps)
      <4>1. work.head \in 1 .. Len(log) + 1
        BY <2>1 DEF WorkInv
      <4> QED BY <1>1, <1>3, <2>1, <3>2, <4>1
    <3> QED BY <3>1, <3>2
  <2>3. ss[k].start \in Int
    <3>1. ss \in Seq(StepRecords)
      BY DEF Carries
    <3>2. ss[k] \in StepRecords
      BY <3>1, ElementOfSeq
    <3> QED BY <3>2 DEF StepRecords
  <2>4. i >= ss[k].start
    BY <1>1, <2>1, <2>2, <2>3
  <2> QED BY <1>5, <2>1, <2>4 DEF IsCall
<1>6. ASSUME NEW k \in 1 .. Len(ss), NEW i \in ss[k].actions
      PROVE  IsCall(ss[k], i, l, Turn, p)
  <2>1. CASE i \in new
    BY <1>5, <2>1
  <2>2. CASE i \notin new
    <3>1. k \in 1 .. Len(steps)
      BY <1>3, <1>6, <2>2
    <3>2. i \in steps[k].actions
      BY <1>2, <1>6, <2>2, <3>1
    <3> QED BY <1>4, <3>1, <3>2
  <2> QED BY <2>1, <2>2
<1>7. ASSUME NEW i, InSome(steps, i)
      PROVE  InSome(ss, i)
  <2>1. PICK k \in 1 .. Len(steps) : i \in steps[k].actions
    BY <1>7 DEF InSome
  <2>2. k \in 1 .. Len(ss)
    BY <1>1
  <2> QED BY <1>2, <2>1, <2>2 DEF InSome
<1> QED BY <1>6, <1>7

LEMMA WithinKeepsCalls ==
    ASSUME LogInv, DiskInv, PlanInv, StepsInv, WorkInv, CallsInv, Within, Moves,
           UNCHANGED request
    PROVE  CallsInv'
<1>1. /\ IsLog(log) /\ Len(log) \in Nat /\ Turn \in 0 .. Len(log)
  BY TurnIsThere DEF LogInv
<1>2. "user" \notin Tools \cup PlanTools /\ Tools \cap PlanTools = {}
  BY DEF Tools, PlanTools
<1>3. PICK ss : ss = steps'
  OBVIOUS
<1>4. /\ \A k \in 1 .. Len(steps) : \A i \in steps[k].actions :
            IsCall(steps[k], i, log, Turn, phase)
      /\ phase = "tool" => InSome(steps, Len(log) + 1)
      /\ request.mode # "discuss" =>
            \A i \in Turn + 1 .. Len(log) : log[i].tool \in Tools => InSome(steps, i)
  BY DEF CallsInv
<1>5. ASSUME NEW new, Carries(steps', new),
             new # {} => new = {Len(log) + 1} /\ phase = "calls",
             new # {} => InSome(ss, Len(log) + 1),
             UNCHANGED log, phase' = "tool" <=> (phase = "tool" \/ new # {})
      PROVE  CallsInv'
  <2>1. PICK p : p = phase'
    OBVIOUS
  <2>2. /\ \A k \in 1 .. Len(ss) : \A i \in ss[k].actions :
              IsCall(ss[k], i, log, Turn, p)
        /\ \A i : InSome(steps, i) => InSome(ss, i)
    <3>1. \A i \in 1 .. Len(log) : log[i] = log[i]
      OBVIOUS
    <3>2. new # {} \/ phase = "tool" => p = "tool" /\ Len(log) = Len(log)
      BY <1>5, <2>1
    <3>3. Len(log) >= Len(log)
      BY <1>1
    <3> QED BY <1>1, <1>3, <1>5, <3>1, <3>2, <3>3, StillCalls
  <2>3. Turn' = Turn
    BY <1>5 DEF Turn
  <2>4. p = "tool" => InSome(ss, Len(log) + 1)
    BY <1>4, <1>5, <2>1, <2>2
  <2>5. request.mode # "discuss" =>
            \A i \in Turn + 1 .. Len(log) : log[i].tool \in Tools => InSome(ss, i)
    BY <1>4, <2>2
  <2> QED BY <1>3, <1>5, <2>1, <2>2, <2>3, <2>4, <2>5 DEF CallsInv
<1>6. ASSUME NEW new, Carries(steps', new),
             new # {} => new = {Len(log) + 1} /\ phase = "calls",
             NEW e, log' = Append(log, e), e.tool \in Tools \cup PlanTools,
             phase' # "tool",
             new # {} => e.tool \in Tools, phase = "tool" => e.tool \in Tools,
             \/ request.mode = "discuss" \/ e.tool \notin Tools
             \/ InSome(ss, Len(log) + 1)
      PROVE  CallsInv'
  <2>0. e.tool # "user"
    BY <1>2, <1>6
  <2>1. /\ Len(log') = Len(log) + 1 /\ Turn' = Turn
        /\ \A i \in 1 .. Len(log) : log'[i] = log[i]
        /\ log'[Len(log) + 1] = e
    BY <1>1, <1>6, <2>0, TurnGoesOn
  <2>2. PICK l : l = log'
    OBVIOUS
  <2>3. PICK p : p = phase'
    OBVIOUS
  <2>4. /\ Len(l) \in Nat /\ Len(l) >= Len(log) /\ Len(l) = Len(log) + 1
        /\ \A i \in 1 .. Len(log) : l[i] = log[i]
        /\ l[Len(log) + 1] = e /\ Len(log) + 1 \in 1 .. Len(l)
    BY <1>1, <2>1, <2>2
  <2>5. /\ \A k \in 1 .. Len(ss) : \A i \in ss[k].actions :
              IsCall(ss[k], i, l, Turn, p)
        /\ \A i : InSome(steps, i) => InSome(ss, i)
    <3>1. new # {} \/ phase = "tool" =>
              Len(log) + 1 \in 1 .. Len(l) /\ l[Len(log) + 1].tool \in Tools
      BY <1>6, <2>4
    <3> QED BY <1>3, <1>6, <2>4, <3>1, StillCalls
  <2>6. request.mode # "discuss" =>
            \A i \in Turn + 1 .. Len(l) : l[i].tool \in Tools => InSome(ss, i)
    <3>1. ASSUME request.mode # "discuss", NEW i \in Turn + 1 .. Len(l),
                 l[i].tool \in Tools
          PROVE  InSome(ss, i)
      <4>1. CASE i = Len(log) + 1
        BY <1>6, <2>4, <3>1, <4>1
      <4>2. CASE i # Len(log) + 1
        <5>1. i \in Turn + 1 .. Len(log) /\ i \in 1 .. Len(log)
          BY <1>1, <2>4, <4>2
        <5> QED BY <1>4, <2>4, <2>5, <3>1, <5>1
      <4> QED BY <4>1, <4>2
    <3> QED BY <3>1
  <2> QED BY <1>3, <1>6, <2>1, <2>2, <2>3, <2>5, <2>6 DEF CallsInv
<1>7. CASE Takes
  <2>1. /\ phase = "calls" /\ InSome(ss, Len(log) + 1)
        /\ \/ phase' = "tool" /\ UNCHANGED log
           \/ phase' # "tool" /\ \E e : Answered(e, Tools)
    BY <1>3, <1>7, CallTaken
  <2>2. PICK new : new = {Len(log) + 1}
    OBVIOUS
  <2>3. Carries(steps', new) /\ new # {}
    BY <2>2 DEF Moves
  <2>4. CASE phase' = "tool" /\ UNCHANGED log
    BY <1>5, <2>1, <2>2, <2>3, <2>4
  <2>5. ASSUME phase' # "tool", NEW e, Answered(e, Tools)
        PROVE  CallsInv'
    <3>1. log' = Append(log, e) /\ e.tool \in Tools
      BY <2>5 DEF Answered
    <3> QED BY <1>6, <2>1, <2>2, <2>3, <2>5, <3>1
  <2> QED BY <2>1, <2>4, <2>5
<1>8. CASE ~Takes
  <2>1. NoCall
    BY <1>8, NoCallTaken
  <2>2. PICK new : new = {}
    OBVIOUS
  <2>3. Carries(steps', new) /\ ~(new # {})
    BY <1>8, <2>2 DEF Moves
  <2>4. CASE UNCHANGED log /\ (phase' = "tool" <=> phase = "tool")
    BY <1>5, <2>3, <2>4
  <2>5. ASSUME phase # "tool", phase' # "tool", NEW e, Answered(e, PlanTools)
        PROVE  CallsInv'
    <3>1. log' = Append(log, e) /\ e.tool \in PlanTools /\ e.tool \notin Tools
      BY <1>2, <2>5 DEF Answered
    <3> QED BY <1>6, <2>3, <2>5, <3>1
  <2>6. ASSUME phase # "tool", phase' # "tool", request.mode = "discuss",
               NEW e, Answered(e, Tools \cup PlanTools)
        PROVE  CallsInv'
    <3>1. log' = Append(log, e) /\ e.tool \in Tools \cup PlanTools
      BY <2>6 DEF Answered
    <3> QED BY <1>6, <2>3, <2>6, <3>1
  <2>7. ASSUME phase = "tool", phase' # "tool", NEW e, Answered(e, Tools)
        PROVE  CallsInv'
    <3>1. log' = Append(log, e) /\ e.tool \in Tools
      BY <2>7 DEF Answered
    <3>2. InSome(ss, Len(log) + 1)
      <4>1. PICK k \in 1 .. Len(steps) : Len(log) + 1 \in steps[k].actions
        BY <1>4, <2>7 DEF InSome
      <4>2. Len(steps) \in Nat /\ Len(ss) \in {Len(steps), Len(steps) + 1}
        BY <1>3, <2>3, ActiveIsLast DEF Carries
      <4>3. k \in 1 .. Len(ss) /\ steps[k].actions \subseteq ss[k].actions
        BY <1>3, <2>3, <4>2 DEF Carries
      <4> QED BY <4>1, <4>3 DEF InSome
    <3> QED BY <1>6, <2>3, <2>7, <3>1, <3>2
  <2> QED BY <2>1, <2>4, <2>5, <2>6, <2>7 DEF NoCall
<1> QED BY <1>7, <1>8

\* What the turn has recorded stays.
LEMMA TurnStays ==
    ASSUME LogInv, Logs
    PROVE  /\ Turn' = Turn
           /\ \A i \in ThisTurn : i \in ThisTurn' /\ log'[i] = log[i]
<1>1. CASE UNCHANGED log
  BY <1>1 DEF ThisTurn, Turn
<1>2. ASSUME NEW e, Answered(e, Tools \cup PlanTools)
      PROVE  /\ Turn' = Turn
             /\ \A i \in ThisTurn : i \in ThisTurn' /\ log'[i] = log[i]
  <2>1. e.tool # "user" /\ log' = Append(log, e) /\ IsLog(log)
    BY <1>2 DEF Answered, Tools, PlanTools, LogInv
  <2>2. /\ Len(log) \in Nat /\ Len(log') = Len(log) + 1
        /\ \A i \in 1 .. Len(log) : log'[i] = log[i]
        /\ Turn \in 0 .. Len(log) /\ Turn' = Turn
    BY <2>1, TurnGoesOn
  <2>3. \A i \in Turn + 1 .. Len(log) : i \in 1 .. Len(log) /\ i \in Turn + 1 .. Len(log')
    BY <2>2
  <2> QED BY <2>2, <2>3 DEF ThisTurn
<1> QED BY <1>1, <1>2 DEF Logs

LEMMA WithinKeepsRecovered ==
    ASSUME LogInv, RecoveredInv, Moves, Logs
    PROVE  RecoveredInv'
<1>1. PICK ss : ss = steps'
  OBVIOUS
<1>2. Turn' = Turn /\ \A i \in ThisTurn : i \in ThisTurn' /\ log'[i] = log[i]
  BY TurnStays
<1>3. WritesIn(ThisTurn) # {} => WritesIn(ThisTurn)' # {}
  <2>1. ASSUME NEW i \in ThisTurn, Succeeded(i, {"write"})
        PROVE  i \in ThisTurn' /\ log'[i].tool \in {"write"} /\ log'[i].status = "succeeded"
    BY <1>2, <2>1 DEF Succeeded
  <2> QED BY <2>1 DEF WritesIn, Succeeded
<1>4. ASSUME NEW k \in 1 .. Len(ss), ss[k].status = "recovered", ss[k].start > Turn
      PROVE  WritesIn(ThisTurn) # {}
  <2>1. CASE NoneRecovered(ss)
    <3>1. k \in 1 .. Len(steps) /\ steps[k].status = "recovered"
      BY <1>4, <2>1 DEF NoneRecovered
    <3>2. ss[k].start = steps[k].start
      BY <1>1, <3>1 DEF Moves, Carries
    <3> QED BY <1>4, <3>1, <3>2 DEF RecoveredInv
  <2> QED BY <1>1, <2>1 DEF Moves
<1>5. \A k \in 1 .. Len(ss) :
          ss[k].status = "recovered" /\ ss[k].start > Turn => WritesIn(ThisTurn)' # {}
  BY <1>3, <1>4
<1> QED BY <1>1, <1>2, <1>5 DEF RecoveredInv

\* The checks of a phase hold where a call of the turn succeeded.
LEMMA HeldBySuccess ==
    ASSUME NEW c \in Checks, Holds(c)
    PROVE  \E i \in ThisTurn : Succeeded(i, Tools)
<1>1. CASE c.type = "file"
  <2>1. PICK i \in WritesIn(ThisTurn) : log[i].file = c.on
    BY <1>1 DEF Holds, WrittenIn
  <2> QED BY <2>1 DEF WritesIn, Succeeded, Tools
<1>2. CASE c.type # "file"
  <2>1. c.on \in Tools
    BY <1>2 DEF Checks
  <2> QED BY <1>2, <2>1 DEF Holds, Succeeded
<1> QED BY <1>1, <1>2

LEMMA PassedKept ==
    ASSUME PlanInv, WorkInv, PassedInv, [Next]_vars
    PROVE  PassedInv'
<1>1. CASE UNCHANGED <<log, phase, work>>
  <2>1. (\E i \in ThisTurn : Succeeded(i, Tools))' <=> \E i \in ThisTurn : Succeeded(i, Tools)
    BY <1>1 DEF Succeeded, ThisTurn, Turn
  <2> QED BY <1>1, <2>1 DEF PassedInv
<1>2. CASE CheckPlan
  <2>1. PICK audited : audited = IF work.newPlan THEN Audited ELSE {}
    OBVIOUS
  <2>2. work'.passed = {plan[n].id : n \in {n \in audited : \A c \in plan[n].checks : Holds(c)}}
    BY <1>2, <2>1 DEF CheckPlan, WorkInv, WorkFields
  <2>3. ASSUME work'.passed # {}
        PROVE  \E i \in ThisTurn : Succeeded(i, Tools)
    <3>1. PICK n \in audited : \A c \in plan[n].checks : Holds(c)
      BY <2>2, <2>3
    <3>2. n \in DOMAIN plan /\ plan[n].checks # {}
      BY <2>1, <3>1 DEF Audited
    <3>3. plan[n].checks \subseteq Checks
      <4>1. plan[n] \in PlanItems \cup {Reply}
        BY <3>2, PlanElements
      <4> QED BY <4>1, WorkflowAssumption DEF IsItem, Reply
    <3>4. PICK c \in Checks : Holds(c)
      BY <3>1, <3>2, <3>3
    <3> QED BY <3>4, HeldBySuccess
  <2>4. log' = log
    BY <1>2 DEF CheckPlan
  <2>5. (\E i \in ThisTurn : Succeeded(i, Tools))' <=> \E i \in ThisTurn : Succeeded(i, Tools)
    BY <2>4 DEF Succeeded, ThisTurn, Turn
  <2> QED BY <2>3, <2>5 DEF PassedInv
<1>3. CASE phase' # "checked"
  BY <1>3 DEF PassedInv
<1>4. CASE UNCHANGED vars
  BY <1>1, <1>4 DEF vars
<1> QED BY <1>1, <1>2, <1>3, <1>4, Drafting DEF DraftAnswer

\* A user's message begins a turn.
LEMMA TurnBegins ==
    ASSUME NEW l, IsLog(l), NEW e, e.tool = "user", log' = Append(l, e)
    PROVE  /\ Len(l) \in Nat /\ Len(log') = Len(l) + 1 /\ Turn' = Len(l) + 1
           /\ \A i \in 1 .. Len(l) : log'[i] = l[i]
<1>1. /\ Len(l) \in Nat /\ Len(log') = Len(l) + 1
      /\ DOMAIN log' = 1 .. Len(l) + 1
      /\ \A i \in 1 .. Len(l) : log'[i] = l[i]
      /\ log'[Len(l) + 1] = e
  BY Appended
<1>2. PICK T : T = {i \in DOMAIN log' : log'[i].tool = "user"}
  OBVIOUS
<1>3. T \in SUBSET (1 .. Len(l) + 1) /\ Len(l) + 1 \in T
  BY <1>1, <1>2
<1>4. LastOf(T) \in 0 .. Len(l) + 1 /\ \A m \in T : m <= LastOf(T)
  <2>1. Len(l) + 1 \in Nat
    BY <1>1
  <2> QED BY <1>3, <2>1, LastIsLast
<1>5. LastOf(T) = Len(l) + 1
  <2>1. PICK m \in 0 .. Len(l) + 1 : m = LastOf(T)
    BY <1>4
  <2>2. Len(l) + 1 <= m
    BY <1>3, <1>4, <2>1
  <2> QED BY <1>1, <2>1, <2>2
<1>6. Turn' = LastOf(T)
  BY <1>2 DEF Turn
<1> QED BY <1>1, <1>5, <1>6

LEMMA BegunCalls ==
    ASSUME NEW r, NEW l, IsLog(l), NEW p, NEW done, NEW ss, StepsFor(ss, Len(l)),
           \A k \in 1 .. Len(ss) : \A i \in ss[k].actions :
              \/ i = 0
              \/ i >= ss[k].start /\ i \in 1 .. Len(l) /\ l[i].tool \in Tools,
           Begin(r, l, p, ss, done)
    PROVE  CallsInv' /\ RecoveredInv' /\ PassedInv'
<1>1. PICK e : e = [tool |-> "user", file |-> "none", status |-> "",
                    hash |-> 0, existed |-> FALSE, head |-> Len(l) + 1]
  OBVIOUS
<1>2. e.tool = "user" /\ log' = Append(l, e)
  BY <1>1 DEF Begin
<1>3. /\ Len(l) \in Nat /\ Len(log') = Len(l) + 1 /\ Turn' = Len(l) + 1
      /\ \A i \in 1 .. Len(l) : log'[i] = l[i]
  BY <1>2, TurnBegins
<1>4. PICK g : g = log'
  OBVIOUS
<1>5. PICK tt : tt = steps'
  OBVIOUS
<1>6. phase' \in {"status", "model"}
  BY DEF Begin
<1>7. ASSUME NEW k \in 1 .. Len(ss)
      PROVE  /\ ss[k].start <= Len(l) + 1
             /\ \A i \in ss[k].actions : IsCall(ss[k], i, g, Len(l) + 1, phase')
  <2>1. ss[k].start \in 0 .. Len(l) + 1
    BY DEF StepsFor
  <2>2. ss[k].start <= Len(l) + 1
    BY <1>3, <2>1
  <2>3. ASSUME NEW i \in ss[k].actions
        PROVE  IsCall(ss[k], i, g, Len(l) + 1, phase')
    <3>1. CASE i = 0
      BY <2>2, <3>1 DEF IsCall
    <3>2. CASE i >= ss[k].start /\ i \in 1 .. Len(l) /\ l[i].tool \in Tools
      <4>1. i \in 1 .. Len(g) /\ g[i].tool \in Tools
        BY <1>3, <1>4, <3>2
      <4> QED BY <3>2, <4>1 DEF IsCall
    <3> QED BY <3>1, <3>2
  <2> QED BY <2>2, <2>3
<1>8. \A k \in 1 .. Len(tt) :
          /\ ~(tt[k].start > Len(l) + 1)
          /\ \A i \in tt[k].actions : IsCall(tt[k], i, g, Len(l) + 1, phase')
  <2>1. CASE ss = <<>>
    <3>1. tt = <<Understand>>
      BY <1>5, <2>1 DEF Begin
    <3>2. PICK t : t = Understand
      OBVIOUS
    <3>3. t.actions = {} /\ t.start = 0
      BY <3>2 DEF Understand
    <3>4. \A k \in 1 .. Len(tt) : tt[k] = t
      BY <3>1, <3>2
    <3> QED BY <1>3, <3>3, <3>4
  <2>2. CASE ss # <<>>
    <3>1. tt = ss
      BY <1>5, <2>2 DEF Begin
    <3>2. \A k \in 1 .. Len(ss) : ~(ss[k].start > Len(l) + 1)
      <4>1. \A k \in 1 .. Len(ss) : ss[k].start \in 0 .. Len(l) + 1
        BY DEF StepsFor
      <4> QED BY <1>3, <4>1
    <3> QED BY <1>7, <3>1, <3>2
  <2> QED BY <2>1, <2>2
<1>9. CallsInv'
  <2>1. \A i : i \notin (Len(l) + 1) + 1 .. Len(g)
    BY <1>3, <1>4
  <2> QED BY <1>3, <1>4, <1>5, <1>6, <1>8, <2>1 DEF CallsInv
<1>10. RecoveredInv'
  BY <1>3, <1>5, <1>8 DEF RecoveredInv
<1>11. PassedInv'
  BY <1>6 DEF PassedInv
<1> QED BY <1>9, <1>10, <1>11

LEMMA SendKeepsCalls ==
    ASSUME TypeInv, CallsInv, NEW r, SendMessage(r)
    PROVE  CallsInv' /\ RecoveredInv' /\ PassedInv'
<1>1. IsLog(log) /\ Len(log) \in Nat
  BY TurnIsThere DEF TypeInv, LogInv
<1>2. StepsFor(steps, Len(log))
  BY DEF TypeInv, StepsInv, StepsFor
<1>3. ASSUME NEW k \in 1 .. Len(steps), NEW i \in steps[k].actions
      PROVE  \/ i = 0
             \/ i >= steps[k].start /\ i \in 1 .. Len(log) /\ log[i].tool \in Tools
  <2>1. IsCall(steps[k], i, log, Turn, phase)
    BY DEF CallsInv
  <2> QED BY <2>1 DEF IsCall, SendMessage
<1> QED BY <1>1, <1>2, <1>3, BegunCalls DEF SendMessage

LEMMA RewindKeepsCalls ==
    ASSUME TypeInv, CallsInv, NEW k \in DOMAIN steps, NEW r, RewindTo(k, r)
    PROVE  CallsInv' /\ RecoveredInv' /\ PassedInv'
<1>1. PICK cut, l, kept :
          /\ cut \in 1 .. Len(log) + 1
          /\ IsLog(l) /\ Len(l) = cut - 1 /\ Len(l) \in Nat
          /\ \A i \in 1 .. Len(l) : i \in 1 .. Len(log) /\ l[i] = log[i]
          /\ k \in 1 .. Len(steps)
          /\ kept = [n \in 1 .. k - 1 |-> CutStep(steps[n], cut)]
          /\ StepsFor(kept, Len(l))
          /\ Begin(r, l, <<>>, kept, {})
  BY RewindBegins
<1>2. /\ Len(log) \in Nat /\ Len(steps) \in Nat /\ phase = "idle"
      /\ \A n \in 1 .. Len(steps) : steps[n] \in StepRecords
  BY TurnIsThere, ActiveIsLast DEF TypeInv, LogInv, RewindTo
<1>3. DOMAIN kept = 1 .. k - 1 /\ Len(kept) \in Nat /\ DOMAIN kept = 1 .. Len(kept)
  BY <1>1, LenProperties DEF StepsFor
<1>4. ASSUME NEW n \in 1 .. Len(kept), NEW i \in kept[n].actions
      PROVE  \/ i = 0
             \/ i >= kept[n].start /\ i \in 1 .. Len(l) /\ l[i].tool \in Tools
  <2>1. n \in 1 .. k - 1 /\ n \in 1 .. Len(steps)
    BY <1>1, <1>2, <1>3
  <2>2. PICK s \in StepRecords : s = steps[n]
    BY <1>2, <2>1
  <2>3. PICK A : A = {IF j < cut THEN j ELSE 0 : j \in s.actions}
    OBVIOUS
  <2>4. kept[n] = [s EXCEPT !.actions = A]
    BY <1>1, <2>1, <2>2, <2>3 DEF CutStep
  <2>5. i \in A /\ kept[n].start = s.start
    BY <1>4, <2>4 DEF StepRecords
  <2>6. PICK j \in s.actions : i = IF j < cut THEN j ELSE 0
    BY <2>3, <2>5
  <2>7. IsCall(s, j, log, Turn, phase)
    BY <2>1, <2>2, <2>6 DEF CallsInv
  <2>8. CASE i = 0
    BY <2>8
  <2>9. CASE i # 0
    <3>1. i = j /\ j < cut /\ j \in Nat /\ s.start \in Nat
      BY <2>6, <2>9 DEF StepRecords
    <3>2. j >= s.start /\ j \in 1 .. Len(log) /\ log[j].tool \in Tools
      BY <1>2, <2>7, <2>9, <3>1 DEF IsCall
    <3>3. j \in 1 .. Len(l) /\ l[j] = log[j]
      BY <1>1, <3>1, <3>2
    <3> QED BY <2>5, <3>1, <3>2, <3>3
  <2> QED BY <2>8, <2>9
<1> QED BY <1>1, <1>4, BegunCalls

----------------------------------------------------------------------------
(* No success without one.                                                  *)

\* The steps that a verdict judges.
Verdicts == IF DeliveryPassed THEN Recovered ELSE steps

LEMMA VerdictSteps ==
    ASSUME WorkInv, Verdict, Concluded'
    PROVE  /\ Unsuccessful(Verdicts, work.passed) = {}
           /\ steps' = Judged(Verdicts)
           /\ phase = "checked" /\ request.mode # "discuss"
           /\ UNCHANGED <<log, request>>
<1>1. status = "running" /\ phase = "checked" /\ UNCHANGED <<log, request>>
  BY DEF Verdict, WorkInv
<1>2. status' = "completed" /\ request.mode # "discuss"
  BY <1>1 DEF Concluded
<1>3. status' # status
  BY <1>1, <1>2
<1>4. steps' = Judged(Verdicts)
  BY <1>3 DEF Verdict, Verdicts, Judged, Closing
<1>5. Unsuccessful(Verdicts, work.passed) = {}
  BY <1>2, <1>3 DEF Verdict, Verdicts
<1> QED BY <1>1, <1>2, <1>4, <1>5

Own == {i \in ThisTurn : log[i].tool \in Tools}

\* A step of the turn whose calls all failed stands against it.
LEMMA FruitlessStands ==
    ASSUME TypeInv, CallsInv, RecoveredInv, PassedInv, phase = "checked",
           Unsuccessful(Verdicts, work.passed) = {},
           NEW i \in Own, log[i].status \in {"failed", "denied"},
           NEW k \in 1 .. Len(steps), i \in steps[k].actions, OfTurn(steps[k])
    PROVE  \E j \in Own : log[j].status = "succeeded"
<1> SUFFICES ASSUME \A j \in Own : log[j].status # "succeeded"
             PROVE  FALSE
  OBVIOUS
<1>1. /\ Len(log) \in Nat /\ DOMAIN log = 1 .. Len(log) /\ Turn \in 0 .. Len(log)
      /\ DOMAIN steps = 1 .. Len(steps)
      /\ steps[k] \in StepRecords
  BY TurnIsThere, ActiveIsLast DEF TypeInv, LogInv
<1>2. steps[k].start > Turn /\ steps[k].start \in Nat /\ steps[k].actions \subseteq Nat
  BY <1>1 DEF OfTurn, StepRecords
<1>3. \A j \in steps[k].actions : j \in Own
  <2>1. ASSUME NEW j \in steps[k].actions
        PROVE  j \in Own
    <3>1. IsCall(steps[k], j, log, Turn, phase)
      BY DEF CallsInv
    <3>2. j >= steps[k].start /\ j \in 1 .. Len(log) /\ log[j].tool \in Tools
      BY <1>1, <1>2, <3>1 DEF IsCall
    <3>3. j \in Turn + 1 .. Len(log)
      BY <1>1, <1>2, <3>2
    <3> QED BY <3>2, <3>3 DEF Own, ThisTurn
  <2> QED BY <2>1
<1>4. PICK ss : ss = Verdicts
  OBVIOUS
<1>5. /\ Alike(ss)
      /\ ss[k].status = "recovered" =>
            steps[k].status = "recovered" \/ WritesIn(ThisTurn) # {}
  <2>1. Alike(ss)
    BY <1>4, AlikeStart DEF Verdicts, TypeInv
  <2>2. CASE DeliveryPassed
    BY <2>1, <2>2 DEF DeliveryPassed, Delivered
  <2>3. CASE ~DeliveryPassed
    BY <1>4, <2>1, <2>3 DEF Verdicts
  <2> QED BY <2>2, <2>3
<1>6. k \in DOMAIN ss /\ ss[k].actions = steps[k].actions /\ ss[k].start = steps[k].start
  BY <1>5 DEF Alike
<1>7. Fruitless(ss[k])
  <2>1. i \in ss[k].actions \cap DOMAIN log
    BY <1>1, <1>6 DEF Own, ThisTurn
  <2>2. log[i].status \in Outcomes(ss[k]) \cap Blocked
    BY <2>1 DEF Outcomes, Blocked
  <2>3. "succeeded" \notin Outcomes(ss[k])
    BY <1>3, <1>6 DEF Outcomes
  <2> QED BY <2>2, <2>3 DEF Fruitless
<1>8. ss[k].status = "recovered" \/ ss[k].item \in work.passed
  BY <1>4, <1>6, <1>7 DEF Unsuccessful, OfTurn
<1>9. WritesIn(ThisTurn) = {}
  <2>1. \A j \in WritesIn(ThisTurn) : j \in Own /\ log[j].status = "succeeded"
    BY DEF WritesIn, Succeeded, Own, Tools
  <2> QED BY <2>1
<1>10. CASE ss[k].status = "recovered"
  BY <1>2, <1>5, <1>9, <1>10 DEF RecoveredInv
<1>11. CASE ss[k].item \in work.passed
  <2>1. PICK j \in ThisTurn : Succeeded(j, Tools)
    BY <1>11 DEF PassedInv
  <2> QED BY <2>1 DEF Succeeded, Own
<1> QED BY <1>8, <1>10, <1>11

LEMMA VerdictIsReal ==
    ASSUME TypeInv, CallsInv, RecoveredInv, PassedInv, Verdict, Concluded'
    PROVE  SuccessIsNotInvented'
<1>1. /\ Unsuccessful(Verdicts, work.passed) = {}
      /\ steps' = Judged(Verdicts)
      /\ phase = "checked" /\ request.mode # "discuss"
      /\ log' = log
  BY VerdictSteps DEF TypeInv
<1>2. ThisTurn' = ThisTurn /\ Turn' = Turn
  BY <1>1 DEF ThisTurn, Turn
<1>3. PICK tt : tt = steps'
  OBVIOUS
<1>4. /\ DOMAIN tt = 1 .. Len(steps)
      /\ \A k \in 1 .. Len(steps) :
            tt[k].actions = steps[k].actions /\ tt[k].start = steps[k].start
  <2>1. StepsInv
    BY DEF TypeInv
  <2>2. PICK ss : ss = Verdicts
    OBVIOUS
  <2>3. Alike(ss)
    BY <2>1, <2>2, AlikeStart DEF Verdicts
  <2>4. tt = Judged(ss)
    BY <1>1, <1>3, <2>2
  <2>5. Alike(tt)
    BY <2>1, <2>3, <2>4, AlikeJudged
  <2> QED BY <2>5 DEF Alike
<1>5. ASSUME NEW i \in Own, log[i].status \in {"failed", "denied"},
             \A k \in DOMAIN tt : tt[k].actions \cap Own # {} => tt[k].start > Turn
      PROVE  \E j \in Own : log[j].status = "succeeded"
  <2>1. InSome(steps, i)
    BY <1>1 DEF CallsInv, Own, ThisTurn
  <2>2. PICK k \in 1 .. Len(steps) : i \in steps[k].actions
    BY <2>1 DEF InSome
  <2>3. i \in tt[k].actions \cap Own /\ k \in DOMAIN tt
    BY <1>4, <2>2
  <2>4. tt[k].start > Turn
    BY <1>5, <2>3
  <2>5. OfTurn(steps[k])
    BY <1>4, <2>4 DEF OfTurn
  <2> QED BY <1>1, <1>5, <2>2, <2>5, FruitlessStands
<1>6. {i \in ThisTurn' : log'[i].tool \in Tools} = Own
  BY <1>1, <1>2 DEF Own
<1> QED BY <1>1, <1>2, <1>3, <1>5, <1>6 DEF SuccessIsNotInvented, OfTurn

\* A task of which calls failed or were refused is completed only if a call of
\* it succeeded, however its calls were grouped into steps.
THEOREM SuccessIsReal == Spec => []SuccessIsNotInvented
<1> DEFINE IInv == /\ TypeInv /\ CallsInv /\ RecoveredInv /\ PassedInv
                   /\ SuccessIsNotInvented
<1>1. Init => IInv
  <2>1. ASSUME Init
        PROVE  IInv
    <3>1. phase = "idle" /\ status = "created" /\ steps = <<>> /\ log = <<>>
      BY <2>1 DEF Init
    <3>2. Len(steps) = 0 /\ Len(log) = 0
      BY <3>1, EmptySeq
    <3>3. Turn \in 0 .. Len(log)
      BY <2>1, TypeInit, TurnIsThere DEF TypeInv, LogInv
    <3>4. CallsInv /\ RecoveredInv /\ PassedInv
      BY <3>1, <3>2, <3>3 DEF CallsInv, RecoveredInv, PassedInv
    <3>5. SuccessIsNotInvented
      BY <3>1 DEF SuccessIsNotInvented, Concluded
    <3> QED BY <2>1, <3>4, <3>5, TypeInit
  <2> QED BY <2>1
<1>2. IInv /\ [Next]_vars => IInv'
  <2>1. ASSUME IInv, [Next]_vars
        PROVE  CallsInv' /\ RecoveredInv' /\ PassedInv'
    <3>1. CASE UNCHANGED vars
      <4>1. CallsInv' /\ RecoveredInv'
        BY <2>1, <3>1 DEF vars, CallsInv, RecoveredInv, InSome, WritesIn,
                          Succeeded, ThisTurn, Turn
      <4> QED BY <2>1, <4>1, PassedKept DEF TypeInv
    <3>2. CASE Within
      <4>1. Moves /\ Logs /\ KeepsPlan
        BY <2>1, <3>2, WithinMoves, WithinLogs, WithinPlans DEF TypeInv
      <4>2. CallsInv' /\ RecoveredInv'
        BY <2>1, <3>2, <4>1, WithinKeepsCalls, WithinKeepsRecovered
           DEF TypeInv, KeepsPlan
      <4> QED BY <2>1, <4>2, PassedKept DEF TypeInv
    <3>3. CASE Next /\ ~Within
      BY <2>1, <3>3, Steps, SendKeepsCalls, RewindKeepsCalls
    <3> QED BY <2>1, <3>1, <3>2, <3>3
  <2>2. ASSUME IInv, [Next]_vars
        PROVE  SuccessIsNotInvented'
    <3>1. CASE ~Concluded'
      BY <3>1 DEF SuccessIsNotInvented
    <3>2. CASE UNCHANGED vars
      BY <2>2, <3>2 DEF vars, SuccessIsNotInvented, Concluded, OfTurn, ThisTurn, Turn
    <3>3. CASE Concluded' /\ Verdict
      BY <2>2, <3>3, VerdictIsReal
    <3> QED BY <2>2, <3>1, <3>2, <3>3, Concludes DEF TypeInv
  <2>3. ASSUME IInv, [Next]_vars
        PROVE  TypeInv'
    BY <2>3, TypeKept
  <2> QED BY <2>1, <2>2, <2>3
<1>3. IInv => SuccessIsNotInvented
  OBVIOUS
<1> QED BY <1>1, <1>2, <1>3, PTL DEF Spec
=============================================================================
