--------------------------- MODULE ResourceSafety ---------------------------
(***************************************************************************)
(* Proofs about Resources, for every number of topics, commands, servers,  *)
(* tools and browsers: the lease is shared within a process and by no one  *)
(* else, connections are closed by the run that opened them, and a browser *)
(* stays with the task that works in it.                                   *)
(***************************************************************************)
EXTENDS Resources, FiniteSetTheorems, TLAPS

----------------------------------------------------------------------------
(* The lease.                                                               *)

Stages == {"idle", "begin"} \cup Inside

LeaseTypes ==
    /\ owner \in Processes \cup {"none"}
    /\ refs \in [Processes -> Nat]
    /\ at \in [Scopes -> Stages]

\* The scopes of a process that hold its lease.
HoldersOf(p) == {s \in Scopes : Home[s] = p /\ Holds(s)}

LeaseInv ==
    /\ LeaseTypes
    /\ \A p \in Processes : /\ refs[p] = Cardinality(HoldersOf(p))
                            /\ owner = p <=> refs[p] > 0

\* A step that leaves the lease and its holders alone.
SameHolders == /\ UNCHANGED lease
               /\ at' \in [Scopes -> Stages]
               /\ \A s \in Scopes : Holds(s)' <=> Holds(s)

\* A scope that enters.
Enters(s) ==
    /\ at[s] = "begin"
    /\ Obtainable(Home[s])
    /\ Take(Home[s])
    /\ at' = [at EXCEPT ![s] = "held"]

\* A scope that leaves.
Leaves(s) ==
    /\ at[s] = "closing"
    /\ Give(Home[s])
    /\ at' = [at EXCEPT ![s] = "idle"]

\* The process of a scope is a process.
LEMMA HomeIsProcess == \A s \in Scopes : Home[s] \in Processes
BY DEF Home, Processes

\* As far as the lease goes, a scope enters, a scope leaves, a process ends, or
\* nothing happens.
LEMMA LeaseSteps ==
    ASSUME LeaseTypes, [Next]_vars
    PROVE  \/ \E s \in Scopes : Enters(s) \/ Leaves(s)
           \/ \E p \in Processes : Exit(p)
           \/ SameHolders
<1> USE DEF LeaseTypes, Stages, Inside, Tasks, Scopes, SameHolders, Holds, lease
<1>1. ASSUME NEW s \in Scopes, Acquire(s)
      PROVE  Enters(s) \/ SameHolders
  BY <1>1 DEF Acquire, Enters
<1>2. ASSUME NEW s \in Scopes, Release(s) PROVE Leaves(s)
  BY <1>2 DEF Release, Leaves
<1>3. CASE StartService(TRUE) \/ StartService(FALSE) \/ ServiceReady \/ StopService
  BY <1>3 DEF StartService, ServiceReady, StopService
<1>4. ASSUME NEW t \in Topics, StartTopic(t, TRUE) \/ StartTopic(t, FALSE)
      PROVE  SameHolders
  BY <1>4 DEF StartTopic, Active
<1>5. ASSUME NEW c \in Commands, StartCommand(c) \/ RestoreSnapshot(c)
      PROVE  SameHolders
  BY <1>5 DEF StartCommand, RestoreSnapshot, Active
<1>6. ASSUME NEW t \in Tasks,
             \/ Connect(t) \/ FailSetup(t) \/ Connected(t)
             \/ AbandonConnections(t) \/ RunTask(t) \/ EndRun(t)
      PROVE  SameHolders
  BY <1>6 DEF Connect, FailSetup, Connected, AbandonConnections, RunTask, EndRun
<1>7. ASSUME NEW t \in Tasks, NEW n \in Names,
             ServerAnswers(t, n, "open") \/ ServerAnswers(t, n, "closed")
      PROVE  SameHolders
  BY <1>7 DEF ServerAnswers
<1>8. CASE \/ \E h \in Topics \cup {"none"} : OpenBrowser(h)
           \/ BrowserOpens(TRUE) \/ BrowserOpens(FALSE)
           \/ CloseBrowser \/ BrowserCloses
           \/ \E t \in Topics : ResolveSession(t)
           \/ \E who \in Topics \cup {"user"} : Act(who) \/ Finish(who)
  BY <1>8 DEF OpenBrowser, BrowserOpens, CloseBrowser, BrowserCloses,
              ResolveSession, Act, Finish, OnBrowser
<1>9. CASE UNCHANGED vars
  BY <1>9 DEF vars
<1> QED
  BY <1>1, <1>2, <1>3, <1>4, <1>5, <1>6, <1>7, <1>8, <1>9 DEF Next

\* The scopes of a process that hold the lease are finitely many.
LEMMA FiniteHolders ==
    \A p \in Processes : IsFiniteSet(HoldersOf(p)) /\ Cardinality(HoldersOf(p)) \in Nat
<1> TAKE p \in Processes
<1>1. HoldersOf(p) \in SUBSET Scopes
  BY DEF HoldersOf
<1>2. IsFiniteSet(HoldersOf(p))
  BY <1>1, FS_Subset, ResourcesAssumption
<1> QED
  BY <1>2, FS_CardinalityType

\* A process with a scope inside has the file locked.
LEMMA HolderOwns ==
    ASSUME LeaseInv, NEW s \in Scopes, Holds(s)
    PROVE  owner = Home[s] /\ refs[Home[s]] > 0
<1>1. s \in HoldersOf(Home[s]) /\ Home[s] \in Processes
  BY HomeIsProcess DEF HoldersOf
<1>2. Cardinality(HoldersOf(Home[s])) # 0
  BY <1>1, FiniteHolders, FS_EmptySet
<1>3. refs[Home[s]] \in Nat /\ refs[Home[s]] # 0
  BY <1>1, <1>2 DEF LeaseInv, LeaseTypes
<1> QED
  BY <1>1, <1>3 DEF LeaseInv

\* At the start no one is inside.
LEMMA LeaseInvInit == Init => LeaseInv
<1> SUFFICES ASSUME Init PROVE LeaseInv
  OBVIOUS
<1>1. LeaseTypes
  BY DEF Init, LeaseTypes, Stages
<1>2. ASSUME NEW p \in Processes
      PROVE  refs[p] = Cardinality(HoldersOf(p)) /\ (owner = p <=> refs[p] > 0)
  <2>1. HoldersOf(p) = {}
    BY DEF Init, HoldersOf, Holds, Inside
  <2>2. refs[p] = 0 /\ owner # p
    BY ResourcesAssumption DEF Init
  <2> QED
    BY <2>1, <2>2, FS_EmptySet
<1> QED
  BY <1>1, <1>2 DEF LeaseInv

\* Every step keeps the count and the lock together.
LEMMA LeaseInvStep ==
    ASSUME LeaseInv, [Next]_vars
    PROVE  LeaseInv'
<1> USE HomeIsProcess, ResourcesAssumption
<1>0. LeaseTypes
  BY DEF LeaseInv
<1>1. ASSUME NEW s \in Scopes, Enters(s) PROVE LeaseInv'
  <2> DEFINE h == Home[s]
  <2>1. ~Holds(s) /\ h \in Processes
    BY <1>1 DEF Enters, Holds, Inside
  <2>2. refs' = [refs EXCEPT ![h] = @ + 1] /\ owner' = h
    BY <1>1 DEF Enters, Take
  <2>3. at' \in [Scopes -> Stages]
    BY <1>0, <1>1 DEF Enters, LeaseTypes, Stages, Inside
  <2>4. LeaseTypes'
    BY <1>0, <2>1, <2>2, <2>3 DEF LeaseTypes
  <2>5. HoldersOf(h)' = HoldersOf(h) \cup {s} /\ s \notin HoldersOf(h)
    BY <1>0, <1>1, <2>1 DEF Enters, HoldersOf, Holds, Inside, LeaseTypes
  <2>6. Cardinality(HoldersOf(h)') = Cardinality(HoldersOf(h)) + 1
    BY <2>1, <2>5, FiniteHolders, FS_AddElement
  <2>7. refs'[h] = Cardinality(HoldersOf(h)') /\ refs'[h] > 0
    BY <1>0, <2>1, <2>2, <2>6, FiniteHolders DEF LeaseInv, LeaseTypes
  <2>8. ASSUME NEW q \in Processes, q # h
        PROVE  refs'[q] = Cardinality(HoldersOf(q)') /\ (owner' = q <=> refs'[q] > 0)
    <3>1. HoldersOf(q)' = HoldersOf(q)
      BY <1>0, <1>1, <2>8 DEF Enters, HoldersOf, Holds, LeaseTypes
    <3>2. refs'[q] = refs[q]
      BY <1>0, <2>2, <2>8 DEF LeaseTypes
    <3>3. owner \in {h, "none"}
      BY <1>1, <2>1 DEF Enters, Obtainable, LeaseInv
    <3>4. owner # q
      BY <3>3, <2>8
    <3> QED
      BY <3>1, <3>2, <3>4, <2>2, <2>8 DEF LeaseInv
  <2> QED
    BY <2>1, <2>2, <2>4, <2>7, <2>8 DEF LeaseInv
<1>2. ASSUME NEW s \in Scopes, Leaves(s) PROVE LeaseInv'
  <2> DEFINE h == Home[s]
  <2>1. Holds(s) /\ h \in Processes
    BY <1>2 DEF Leaves, Holds, Inside
  <2>2. owner = h /\ refs[h] > 0
    BY <2>1, HolderOwns
  <2>3. /\ refs' = [refs EXCEPT ![h] = @ - 1]
        /\ owner' = IF refs[h] = 1 THEN "none" ELSE h
    BY <1>2, <2>2 DEF Leaves, Give
  <2>4. refs[h] \in Nat /\ refs[h] - 1 \in Nat
    BY <1>0, <2>1, <2>2 DEF LeaseTypes
  <2>5. at' \in [Scopes -> Stages]
    BY <1>0, <1>2 DEF Leaves, LeaseTypes, Stages
  <2>6. LeaseTypes'
    BY <1>0, <2>1, <2>3, <2>4, <2>5 DEF LeaseTypes
  <2>7. HoldersOf(h)' = HoldersOf(h) \ {s} /\ s \in HoldersOf(h)
    BY <1>0, <1>2, <2>1 DEF Leaves, HoldersOf, Holds, Inside, LeaseTypes
  <2>8. Cardinality(HoldersOf(h)') = Cardinality(HoldersOf(h)) - 1
    BY <2>1, <2>7, FiniteHolders, FS_RemoveElement
  <2>9. refs'[h] = Cardinality(HoldersOf(h)') /\ (owner' = h <=> refs'[h] > 0)
    BY <1>0, <2>1, <2>3, <2>4, <2>8 DEF LeaseInv, LeaseTypes
  <2>10. ASSUME NEW q \in Processes, q # h
         PROVE  refs'[q] = Cardinality(HoldersOf(q)') /\ (owner' = q <=> refs'[q] > 0)
    <3>1. HoldersOf(q)' = HoldersOf(q)
      BY <1>0, <1>2, <2>10 DEF Leaves, HoldersOf, Holds, LeaseTypes
    <3>2. refs'[q] = refs[q]
      BY <1>0, <2>3, <2>10 DEF LeaseTypes
    <3>3. owner # q /\ owner' # q
      BY <2>2, <2>3, <2>10
    <3> QED
      BY <3>1, <3>2, <3>3, <2>10 DEF LeaseInv
  <2> QED
    BY <2>6, <2>9, <2>10 DEF LeaseInv
<1>3. ASSUME NEW p \in Processes, Exit(p) PROVE LeaseInv'
  <2>1. LeaseTypes'
    BY <1>0, <1>3 DEF Exit, LeaseTypes, Stages
  <2>2. refs' = [refs EXCEPT ![p] = 0] /\ owner' = IF owner = p THEN "none" ELSE owner
    BY <1>3 DEF Exit
  <2>3. \A s \in Scopes : at'[s] = IF Home[s] = p THEN "idle" ELSE at[s]
    BY <1>3 DEF Exit
  <2>4. HoldersOf(p)' = {}
    BY <2>3 DEF HoldersOf, Holds, Inside
  <2>5. refs'[p] = Cardinality(HoldersOf(p)') /\ (owner' = p <=> refs'[p] > 0)
    BY <1>0, <2>2, <2>4, FS_EmptySet DEF LeaseTypes
  <2>6. ASSUME NEW q \in Processes, q # p
        PROVE  refs'[q] = Cardinality(HoldersOf(q)') /\ (owner' = q <=> refs'[q] > 0)
    <3>1. HoldersOf(q)' = HoldersOf(q)
      BY <2>3, <2>6 DEF HoldersOf, Holds
    <3>2. refs'[q] = refs[q] /\ (owner' = q <=> owner = q)
      BY <1>0, <2>2, <2>6 DEF LeaseTypes
    <3> QED
      BY <3>1, <3>2, <2>6 DEF LeaseInv
  <2> QED
    BY <2>1, <2>5, <2>6 DEF LeaseInv
<1>4. CASE SameHolders
  <2>1. LeaseTypes'
    BY <1>0, <1>4 DEF SameHolders, LeaseTypes, lease
  <2>2. \A p \in Processes : HoldersOf(p)' = HoldersOf(p)
    BY <1>4 DEF SameHolders, HoldersOf
  <2> QED
    BY <1>4, <2>1, <2>2 DEF SameHolders, LeaseInv, lease
<1> QED
  BY <1>0, <1>1, <1>2, <1>3, <1>4, LeaseSteps

\* The count and the lock agree in every behaviour.
LEMMA LeaseInvHolds == Spec => []LeaseInv
BY LeaseInvInit, LeaseInvStep, PTL DEF Spec

\* Two scopes that hold the data directory at the same time belong to the same
\* process (storage/lease.py:64-80).
Exclusive == \A r, s \in Scopes : Holds(r) /\ Holds(s) => Home[r] = Home[s]

\* However many processes there are, their tasks never work on one data
\* directory at the same time.
THEOREM LeaseExcludes == Spec => []Exclusive
<1>1. LeaseInv => Exclusive
  BY HolderOwns DEF Exclusive
<1> QED
  BY <1>1, LeaseInvHolds, PTL
----------------------------------------------------------------------------
(* The lease implements Ownership.                                          *)

\* Every step of the system is a step of Ownership or no step of it.
LEMMA SharedStep ==
    ASSUME LeaseInv, [Next]_vars
    PROVE  [Shared!Next]_({s \in Scopes : Holds(s)})
<1> DEFINE W == {s \in Scopes : Holds(s)}
<1>0. LeaseTypes
  BY DEF LeaseInv
<1>1. ASSUME NEW s \in Scopes, Enters(s) PROVE Shared!Enter(s)
  <2>1. s \notin W
    BY <1>1 DEF Enters, Holds, Inside
  <2>2. ASSUME NEW r \in W PROVE Home[r] = Home[s]
    <3>1. owner = Home[r] /\ refs[Home[r]] > 0 /\ Home[r] \in Processes
      BY HolderOwns, HomeIsProcess
    <3>2. refs[Home[s]] > 0 \/ owner = "none"
      BY <1>1 DEF Enters, Obtainable
    <3>3. owner # "none"
      BY <3>1, ResourcesAssumption
    <3> QED
      BY <3>1, <3>2, <3>3, HomeIsProcess DEF LeaseInv
  <2>3. W' = W \cup {s}
    BY <1>0, <1>1 DEF Enters, Holds, Inside, LeaseTypes
  <2> QED
    BY <2>1, <2>2, <2>3 DEF Shared!Enter
<1>2. ASSUME NEW s \in Scopes, Leaves(s) PROVE Shared!Leave(s)
  <2>1. s \in W
    BY <1>2 DEF Leaves, Holds, Inside
  <2>2. W' = W \ {s}
    BY <1>0, <1>2 DEF Leaves, Holds, Inside, LeaseTypes
  <2> QED
    BY <2>1, <2>2 DEF Shared!Leave
<1>3. ASSUME NEW p \in Processes, Exit(p)
      PROVE  (\E r \in W : Shared!Exit(Home[r])) \/ W' = W
  <2>1. \A s \in Scopes : at'[s] = IF Home[s] = p THEN "idle" ELSE at[s]
    BY <1>3 DEF Exit
  <2>2. W' = {s \in W : Home[s] # p}
    BY <2>1 DEF Holds, Inside
  <2>3. CASE \E r \in W : Home[r] = p
    BY <2>2, <2>3 DEF Shared!Exit
  <2>4. CASE ~ \E r \in W : Home[r] = p
    BY <2>2, <2>4
  <2> QED
    BY <2>3, <2>4
<1>4. CASE SameHolders
  BY <1>4 DEF SameHolders
<1> QED
  BY <1>0, <1>1, <1>2, <1>3, <1>4, LeaseSteps DEF Shared!Next

\* The lease implements Ownership: no matter how tasks overlap, fail, are
\* cancelled or die with their process, a scope enters only beside scopes of its
\* own process (storage/lease.py:64-107).
THEOREM LeaseImplementsOwnership == Spec => LeaseIsShared
<1>1. Init => Shared!Init
  BY DEF Init, Shared!Init, Holds, Inside
<1> QED
  BY <1>1, SharedStep, LeaseInvHolds, PTL DEF Spec, Shared!Spec, LeaseIsShared
----------------------------------------------------------------------------
(* Connections.                                                             *)

LinkTypes ==
    /\ at \in [Scopes -> Stages]
    /\ link \in [Tasks -> [Names -> {"closed", "opening", "open", "orphaned"}]]
    /\ tools \in [Tasks -> [Tools -> Names \cup {"none"}]]

\* Between the start of the connections and the end of the run none is given up,
\* and only then tools are offered.
LinkInv ==
    /\ LinkTypes
    /\ ConnectionsFollowTheRun
    /\ \A t \in Tasks :
          /\ at[t] \in {"connecting", "connected", "running"} =>
                \A n \in Names : link[t][n] # "orphaned"
          /\ at[t] \notin {"connected", "running"} =>
                \A x \in Tools : tools[t][x] = "none"

\* What LinkInv asks of one task.
LinkInvOf(t) ==
    /\ \A x \in Tools : tools[t][x] # "none" =>
          link[t][tools[t][x]] = "open" /\ at[t] \in {"connected", "running"}
    /\ \A n \in Names :
          /\ link[t][n] = "opening" => at[t] = "connecting"
          /\ link[t][n] = "open" => at[t] \in {"connecting", "connected", "running"}
          /\ link[t][n] = "orphaned" =>
                at[t] \notin {"connecting", "connected", "running"}

\* LinkInv is that of every task.
LEMMA LinkInvSplits == LinkInv <=> LinkTypes /\ \A t \in Tasks : LinkInvOf(t)
BY DEF LinkInv, LinkInvOf, ConnectionsFollowTheRun

\* A server answers for a tool only if it lists it.
LEMMA AnsweringLists ==
    ASSUME NEW lists, NEW x
    PROVE  \/ Answering(lists, x) = "none"
           \/ \E n \in DOMAIN Servers : Answering(lists, x) = Servers[n] /\ x \in lists[n]
<1> DEFINE with == {n \in DOMAIN Servers : n \in Taken(lists) /\ x \in lists[n]}
<1>1. CASE with = {}
  BY <1>1 DEF Answering
<1>2. CASE with # {}
  <2>1. (CHOOSE n \in with : TRUE) \in with
    BY <1>2
  <2>2. Answering(lists, x) = Servers[CHOOSE n \in with : TRUE]
    BY <1>2 DEF Answering
  <2> QED
    BY <2>1, <2>2
<1> QED
  BY <1>1, <1>2

\* A step that leaves a task's stage, connections and tools alone keeps what
\* LinkInv asks of it.
LEMMA LinkInvOfSame ==
    ASSUME NEW t \in Tasks, LinkInvOf(t),
           at'[t] = at[t], link'[t] = link[t], tools'[t] = tools[t]
    PROVE  LinkInvOf(t)'
BY DEF LinkInvOf

\* A step that only moves a task between the stages without connections does too.
LEMMA LinkInvOfMoved ==
    ASSUME NEW t \in Tasks, LinkInvOf(t),
           at[t] \notin {"connecting", "connected", "running"},
           at'[t] \notin {"connecting", "connected", "running"},
           link'[t] = link[t], tools'[t] = tools[t]
    PROVE  LinkInvOf(t)'
BY DEF LinkInvOf

\* At the start nothing is connected.
LEMMA LinkInvInit == Init => LinkInv
<1> SUFFICES ASSUME Init PROVE LinkTypes /\ \A t \in Tasks : LinkInvOf(t)
  BY LinkInvSplits
<1>1. LinkTypes
  BY DEF Init, LinkTypes, Stages
<1>2. \A t \in Tasks : LinkInvOf(t)
  BY DEF Init, LinkInvOf
<1> QED
  BY <1>1, <1>2

\* Every step keeps connections with the runs that close them.
LEMMA LinkInvStep ==
    ASSUME LinkInv, LeaseTypes', [Next]_vars
    PROVE  LinkInv'
<1> SUFFICES LinkTypes' /\ \A t \in Tasks : LinkInvOf(t)'
  BY DEF LinkInv, LinkInvOf, ConnectionsFollowTheRun
<1>0. LinkTypes /\ (\A t \in Tasks : LinkInvOf(t)) /\ at' \in [Scopes -> Stages]
  BY LinkInvSplits DEF LeaseTypes
<1> USE DEF LinkTypes, Tasks, Scopes
<1>1. ASSUME NEW s \in Scopes, Acquire(s) \/ Release(s)
      PROVE  LinkTypes' /\ \A t \in Tasks : LinkInvOf(t)'
  <2>1. link' = link /\ tools' = tools
    BY <1>1 DEF Acquire, Release
  <2>2. \/ at' = at
        \/ /\ at[s] \in {"begin", "closing"}
           /\ \/ at' = [at EXCEPT ![s] = "held"]
              \/ at' = [at EXCEPT ![s] = "idle"]
    BY <1>1 DEF Acquire, Release
  <2>3. ASSUME NEW t \in Tasks PROVE LinkInvOf(t)'
    BY <1>0, <2>1, <2>2, LinkInvOfSame, LinkInvOfMoved
  <2> QED
    BY <1>0, <2>1, <2>3
<1>2. CASE StartService(TRUE) \/ StartService(FALSE) \/ ServiceReady \/ StopService
  <2>1. link' = link /\ tools' = tools /\ \A t \in Tasks : at'[t] = at[t]
    BY <1>0, <1>2, ResourcesAssumption
    DEF StartService, ServiceReady, StopService
  <2> QED
    BY <1>0, <2>1, LinkInvOfSame
<1>3. ASSUME NEW s \in Tasks,
             \/ s \in Topics /\ (StartTopic(s, TRUE) \/ StartTopic(s, FALSE))
             \/ s \in Commands /\ (StartCommand(s) \/ RestoreSnapshot(s))
             \/ FailSetup(s)
      PROVE  LinkTypes' /\ \A t \in Tasks : LinkInvOf(t)'
  <2>1. link' = link /\ tools' = tools
    BY <1>3 DEF StartTopic, StartCommand, RestoreSnapshot, FailSetup
  <2>2. /\ at[s] \in {"idle", "held"}
        /\ \/ at' = [at EXCEPT ![s] = "begin"]
           \/ at' = [at EXCEPT ![s] = "closing"]
    BY <1>3 DEF StartTopic, StartCommand, RestoreSnapshot, FailSetup, Active
  <2>3. ASSUME NEW t \in Tasks PROVE LinkInvOf(t)'
    BY <1>0, <2>1, <2>2, LinkInvOfSame, LinkInvOfMoved
  <2> QED
    BY <1>0, <2>1, <2>3
<1>4. ASSUME NEW s \in Tasks, Connect(s)
      PROVE  LinkTypes' /\ \A t \in Tasks : LinkInvOf(t)'
  <2>1. LinkInvOf(s)'
    BY <1>0, <1>4 DEF Connect, LinkInvOf
  <2>2. ASSUME NEW t \in Tasks, t # s PROVE LinkInvOf(t)'
    BY <1>0, <1>4, <2>2, LinkInvOfSame DEF Connect
  <2>3. LinkTypes'
    BY <1>0, <1>4 DEF Connect
  <2> QED
    BY <2>1, <2>2, <2>3
<1>5. ASSUME NEW s \in Tasks, NEW n \in Names,
             ServerAnswers(s, n, "open") \/ ServerAnswers(s, n, "closed")
      PROVE  LinkTypes' /\ \A t \in Tasks : LinkInvOf(t)'
  <2>1. PICK o \in {"open", "closed"} :
           /\ link' = [link EXCEPT ![s][n] = o]
           /\ \/ link[s][n] = "opening"
              \/ link[s][n] = "orphaned" /\ o = "closed"
           /\ at' = at /\ tools' = tools
    BY <1>5 DEF ServerAnswers
  <2>2. LinkTypes'
    BY <1>0, <2>1
  <2>3. ASSUME NEW t \in Tasks, t # s PROVE LinkInvOf(t)'
    BY <1>0, <2>1, <2>3, LinkInvOfSame
  <2>4. LinkInvOf(s)'
    <3>1. ASSUME NEW m \in Names
          PROVE  link'[s][m] = IF m = n THEN o ELSE link[s][m]
      BY <1>0, <2>1
    <3>2. ASSUME NEW x \in Tools, tools[s][x] # "none"
          PROVE  link'[s][tools[s][x]] = "open"
      <4>1. tools[s][x] \in Names /\ link[s][tools[s][x]] = "open"
        BY <1>0, <3>2 DEF LinkInvOf
      <4> QED
        BY <2>1, <3>1, <4>1
    <3> QED
      BY <1>0, <2>1, <3>1, <3>2 DEF LinkInvOf
  <2> QED
    BY <2>2, <2>3, <2>4
<1>6. ASSUME NEW s \in Tasks, Connected(s)
      PROVE  LinkTypes' /\ \A t \in Tasks : LinkInvOf(t)'
  <2>1. PICK lists \in [DOMAIN Servers -> SUBSET Tools] :
           /\ \A n \in DOMAIN Servers : link[s][Servers[n]] = "closed" => lists[n] = {}
           /\ tools' = [tools EXCEPT ![s] = [x \in Tools |-> Answering(lists, x)]]
    BY <1>6 DEF Connected
  <2>2. /\ at[s] = "connecting" /\ at' = [at EXCEPT ![s] = "connected"] /\ link' = link
        /\ \A n \in Names : link[s][n] # "opening"
    BY <1>6 DEF Connected
  <2>3. ASSUME NEW x \in Tools
        PROVE  /\ Answering(lists, x) \in Names \cup {"none"}
               /\ Answering(lists, x) # "none" => link[s][Answering(lists, x)] = "open"
    <3>1. CASE Answering(lists, x) = "none"
      BY <3>1
    <3>2. ASSUME NEW n \in DOMAIN Servers,
                 Answering(lists, x) = Servers[n], x \in lists[n]
          PROVE  Servers[n] \in Names /\ link[s][Servers[n]] = "open"
      <4>1. Servers[n] \in Names
        BY DEF Names
      <4>2. link[s][Servers[n]] \notin {"closed", "opening"}
        BY <2>1, <2>2, <3>2, <4>1
      <4>3. link[s][Servers[n]] # "orphaned"
        BY <1>0, <2>2, <4>1 DEF LinkInvOf
      <4> QED
        BY <1>0, <4>1, <4>2, <4>3
    <3> QED
      BY <3>1, <3>2, AnsweringLists
  <2>4. LinkTypes'
    BY <1>0, <2>1, <2>2, <2>3
  <2>5. ASSUME NEW t \in Tasks, t # s PROVE LinkInvOf(t)'
    BY <1>0, <2>1, <2>2, <2>5, LinkInvOfSame
  <2>6. at'[s] = "connected" /\ \A x \in Tools : tools'[s][x] = Answering(lists, x)
    BY <1>0, <2>1, <2>2
  <2>7. LinkInvOf(s)'
    BY <1>0, <2>2, <2>3, <2>6 DEF LinkInvOf
  <2> QED
    BY <2>4, <2>5, <2>7
<1>7. ASSUME NEW s \in Tasks, AbandonConnections(s)
      PROVE  LinkTypes' /\ \A t \in Tasks : LinkInvOf(t)'
  <2>1. LinkInvOf(s)'
    BY <1>0, <1>7 DEF AbandonConnections, LinkInvOf
  <2>2. ASSUME NEW t \in Tasks, t # s PROVE LinkInvOf(t)'
    BY <1>0, <1>7, <2>2, LinkInvOfSame DEF AbandonConnections
  <2>3. LinkTypes'
    BY <1>0, <1>7 DEF AbandonConnections
  <2> QED
    BY <2>1, <2>2, <2>3
<1>8. ASSUME NEW s \in Tasks, RunTask(s)
      PROVE  LinkTypes' /\ \A t \in Tasks : LinkInvOf(t)'
  <2>1. LinkInvOf(s)'
    BY <1>0, <1>8 DEF RunTask, LinkInvOf
  <2>2. ASSUME NEW t \in Tasks, t # s PROVE LinkInvOf(t)'
    BY <1>0, <1>8, <2>2, LinkInvOfSame DEF RunTask
  <2> QED
    BY <1>0, <1>8, <2>1, <2>2 DEF RunTask
<1>9. ASSUME NEW s \in Tasks, EndRun(s)
      PROVE  LinkTypes' /\ \A t \in Tasks : LinkInvOf(t)'
  <2>1. /\ at' = [at EXCEPT ![s] = "closing"]
        /\ link' = [link EXCEPT ![s] = [n \in Names |-> "closed"]]
        /\ tools' = [tools EXCEPT ![s] = [x \in Tools |-> "none"]]
    BY <1>9 DEF EndRun, Remaining
  <2>2. LinkInvOf(s)'
    BY <1>0, <2>1 DEF LinkInvOf
  <2>3. ASSUME NEW t \in Tasks, t # s PROVE LinkInvOf(t)'
    BY <1>0, <2>1, <2>3, LinkInvOfSame
  <2>4. LinkTypes'
    BY <1>0, <2>1
  <2> QED
    BY <2>2, <2>3, <2>4
<1>10. CASE \/ \E h \in Topics \cup {"none"} : OpenBrowser(h)
            \/ BrowserOpens(TRUE) \/ BrowserOpens(FALSE)
            \/ CloseBrowser \/ BrowserCloses
            \/ \E t \in Topics : ResolveSession(t)
            \/ \E who \in Topics \cup {"user"} : Act(who) \/ Finish(who)
            \/ UNCHANGED vars
  <2>1. UNCHANGED <<at, link, tools>>
    BY <1>10 DEF OpenBrowser, BrowserOpens, CloseBrowser, BrowserCloses,
                 ResolveSession, Act, Finish, OnBrowser, vars
  <2> QED
    BY <1>0, <2>1, LinkInvOfSame
<1>11. ASSUME NEW p \in Processes, Exit(p)
       PROVE  LinkTypes' /\ \A t \in Tasks : LinkInvOf(t)'
  <2>1. ASSUME NEW t \in Tasks
        PROVE  /\ at'[t] = IF Home[t] = p THEN "idle" ELSE at[t]
               /\ link'[t] = IF Home[t] = p THEN [n \in Names |-> "closed"] ELSE link[t]
               /\ tools'[t] = IF Home[t] = p THEN [x \in Tools |-> "none"] ELSE tools[t]
    BY <1>11 DEF Exit
  <2>2. ASSUME NEW t \in Tasks PROVE LinkInvOf(t)'
    <3>1. CASE Home[t] = p
      BY <2>1, <3>1 DEF LinkInvOf
    <3>2. CASE Home[t] # p
      BY <1>0, <2>1, <3>2, LinkInvOfSame
    <3> QED
      BY <3>1, <3>2
  <2>3. LinkTypes'
    BY <1>0, <1>11 DEF Exit
  <2> QED
    BY <2>2, <2>3
<1> QED
  BY <1>1, <1>2, <1>3, <1>4, <1>5, <1>6, <1>7, <1>8, <1>9, <1>10, <1>11 DEF Next

\* Offered tools are answered by open connections, and connections are open only
\* for runs that will close them, for all tasks, servers and tools.
THEOREM ConnectionsAreClosed == Spec => []ConnectionsFollowTheRun
<1>1. LeaseInv => LeaseTypes
  BY DEF LeaseInv
<1>2. LinkInv => ConnectionsFollowTheRun
  BY DEF LinkInv
<1> QED
  BY <1>1, <1>2, LinkInvInit, LinkInvStep, LeaseInvHolds, PTL DEF Spec
----------------------------------------------------------------------------
(* The browser.                                                             *)

Browsers == [id: 0 .. MaxBrowsers, opened: 0 .. MaxBrowsers,
             holder: Topics \cup {"none"}, busy: {"free", "creating", "closing"},
             call: [Topics -> 0 .. MaxBrowsers],
             acting: Topics \cup {"user", "none"}]

\* A browser that is being opened is new to everyone: no session is open, no one
\* works in one, and no call holds one with its number.
BrowserInv ==
    /\ browser \in Browsers
    /\ BrowserStaysBound
    /\ browser.busy # "free" => browser.id = 0
    /\ browser.id = 0 /\ browser.busy # "closing" => browser.acting = "none"
    /\ browser.busy = "creating" => browser.opened < MaxBrowsers
    /\ browser.id <= browser.opened
    /\ \A t \in Topics : browser.call[t] <= browser.opened

\* The record of the browser, field by field.
Record(id, opened, holder, busy, call, acting) ==
    [id |-> id, opened |-> opened, holder |-> holder, busy |-> busy,
     call |-> call, acting |-> acting]

\* At the start there is no browser.
LEMMA BrowserInvInit == Init => BrowserInv
BY ResourcesAssumption DEF Init, NoBrowser, BrowserInv, Browsers, BrowserStaysBound

\* A step that leaves the browser alone and no task that runs is kept.
LEMMA BrowserInvSame ==
    ASSUME BrowserInv, browser' = browser,
           \A t \in Topics : at[t] = "running" => at'[t] = "running"
    PROVE  BrowserInv'
BY DEF BrowserInv, BrowserStaysBound

\* Every step keeps the browser with the task that works in it.
LEMMA BrowserInvStep ==
    ASSUME BrowserInv, LeaseTypes, [Next]_vars
    PROVE  BrowserInv'
<1>0. /\ browser \in Browsers /\ BrowserStaysBound
      /\ browser.busy # "free" => browser.id = 0
      /\ browser.id = 0 /\ browser.busy # "closing" => browser.acting = "none"
      /\ browser.busy = "creating" => browser.opened < MaxBrowsers
      /\ browser.id <= browser.opened
      /\ \A t \in Topics : browser.call[t] <= browser.opened
      /\ at \in [Scopes -> Stages]
  BY DEF BrowserInv, LeaseTypes
<1> USE ResourcesAssumption DEF Tasks, Scopes
<1>1. ASSUME NEW s \in Scopes, Acquire(s) \/ Release(s) PROVE BrowserInv'
  BY <1>0, <1>1, BrowserInvSame DEF Acquire, Release
<1>2. CASE StartService(TRUE) \/ StartService(FALSE) \/ ServiceReady
  BY <1>0, <1>2, BrowserInvSame DEF StartService, ServiceReady
<1>3. CASE StopService
  <2>1. browser' = [browser EXCEPT !.id = 0, !.holder = "none", !.acting = "none"]
    BY <1>3 DEF StopService
  <2>2. browser' = Record(0, browser.opened, "none", browser.busy, browser.call, "none")
    BY <1>0, <2>1 DEF Browsers, Record
  <2> QED
    BY <1>0, <2>2 DEF BrowserInv, Browsers, BrowserStaysBound, Record
<1>4. ASSUME NEW s \in Topics, StartTopic(s, TRUE) \/ StartTopic(s, FALSE)
      PROVE  BrowserInv'
  <2>1. at[s] = "idle" /\ at' = [at EXCEPT ![s] = "begin"]
    BY <1>4 DEF StartTopic, Active
  <2>2. CASE browser' = browser
    BY <1>0, <2>1, <2>2, BrowserInvSame
  <2>3. CASE MayBind(s) /\ browser' = [browser EXCEPT !.holder = s]
    <3>1. \A t \in Topics : browser.call[t] # browser.id
      <4> SUFFICES ASSUME NEW t \in Topics, browser.call[t] = browser.id PROVE FALSE
        OBVIOUS
      <4>1. browser.holder = t /\ at[t] = "running"
        BY <1>0, <2>3 DEF MayBind, BrowserStaysBound
      <4> QED
        BY <2>1, <2>3, <4>1 DEF MayBind, Active
    <3> QED
      BY <1>0, <2>3, <3>1 DEF BrowserInv, Browsers, BrowserStaysBound
  <2> QED
    BY <1>4, <2>2, <2>3 DEF StartTopic
<1>5. ASSUME NEW c \in Commands, StartCommand(c) \/ RestoreSnapshot(c)
      PROVE  BrowserInv'
  BY <1>0, <1>5, BrowserInvSame DEF StartCommand, RestoreSnapshot
<1>6. ASSUME NEW s \in Tasks,
             \/ Connect(s) \/ FailSetup(s) \/ Connected(s)
             \/ AbandonConnections(s) \/ RunTask(s)
      PROVE  BrowserInv'
  BY <1>0, <1>6, BrowserInvSame
  DEF Connect, FailSetup, Connected, AbandonConnections, RunTask
<1>7. ASSUME NEW s \in Tasks, EndRun(s) PROVE BrowserInv'
  <2>1. at[s] = "running" /\ at' = [at EXCEPT ![s] = "closing"]
    BY <1>7 DEF EndRun
  <2>2. CASE s \notin Topics
    <3>1. browser' = browser
      BY <1>7, <2>2 DEF EndRun
    <3> QED
      BY <1>0, <2>1, <2>2, <3>1, BrowserInvSame
  <2>3. CASE s \in Topics
    <3>1. browser' = [browser EXCEPT !.call[s] = 0,
                                     !.acting = IF @ = s THEN "none" ELSE @]
      BY <1>7, <2>3 DEF EndRun
    <3>2. browser' \in Browsers
      <4>1. [browser.call EXCEPT ![s] = 0] \in [Topics -> 0 .. MaxBrowsers]
        BY <1>0, <2>3 DEF Browsers
      <4>2. browser' = Record(browser.id, browser.opened, browser.holder, browser.busy,
                              [browser.call EXCEPT ![s] = 0],
                              IF browser.acting = s THEN "none" ELSE browser.acting)
        BY <1>0, <3>1 DEF Browsers, Record
      <4> QED
        BY <1>0, <4>1, <4>2 DEF Browsers, Record
    <3>3. ASSUME NEW t \in Topics
          PROVE  /\ browser'.call[t] = IF t = s THEN 0 ELSE browser.call[t]
                 /\ browser'.acting = t => t # s /\ browser.acting = t
                 /\ t # s => at'[t] = at[t]
      BY <1>0, <2>1, <2>3, <3>1 DEF Browsers
    <3>4. UNCHANGED <<browser.id, browser.opened, browser.holder, browser.busy>>
      BY <1>0, <3>1 DEF Browsers
    <3>5. BrowserStaysBound'
      BY <1>0, <3>3, <3>4 DEF BrowserStaysBound
    <3>6. browser'.id = 0 /\ browser'.busy # "closing" => browser'.acting = "none"
      BY <1>0, <3>1, <3>4 DEF Browsers
    <3>7. \A t \in Topics : browser'.call[t] <= browser'.opened
      BY <1>0, <3>3, <3>4 DEF Browsers
    <3> QED
      BY <1>0, <3>2, <3>4, <3>5, <3>6, <3>7 DEF BrowserInv
  <2> QED
    BY <2>2, <2>3
<1>8. ASSUME NEW s \in Tasks, NEW n \in Names,
             ServerAnswers(s, n, "open") \/ ServerAnswers(s, n, "closed")
      PROVE  BrowserInv'
  BY <1>0, <1>8, BrowserInvSame DEF ServerAnswers
<1>9. ASSUME NEW h \in Topics \cup {"none"}, OpenBrowser(h) PROVE BrowserInv'
  <2>1. browser.id = 0 /\ browser' = [browser EXCEPT !.busy = "creating", !.holder = h]
    BY <1>9 DEF OpenBrowser
  <2>2. browser.busy = "free" /\ browser.opened < MaxBrowsers
    BY <1>9 DEF OpenBrowser
  <2>3. browser' = Record(0, browser.opened, h, "creating", browser.call, browser.acting)
    BY <1>0, <2>1 DEF Browsers, Record
  <2> QED
    BY <1>0, <2>1, <2>2, <2>3 DEF BrowserInv, Browsers, BrowserStaysBound, Record
<1>10. ASSUME NEW works \in BOOLEAN, BrowserOpens(works) PROVE BrowserInv'
  <2>1. /\ browser.busy = "creating" /\ at' = at
        /\ browser' = [browser EXCEPT !.busy = "free",
                                      !.opened = @ + 1,
                                      !.id = IF works THEN browser.opened + 1 ELSE 0,
                                      !.holder = IF works THEN @ ELSE "none"]
    BY <1>10 DEF BrowserOpens, OnBrowser
  <2>2. browser' \in Browsers
    <3>1. browser.opened + 1 \in 0 .. MaxBrowsers
      BY <1>0, <2>1 DEF Browsers
    <3>2. browser' = Record(IF works THEN browser.opened + 1 ELSE 0, browser.opened + 1,
                            IF works THEN browser.holder ELSE "none", "free",
                            browser.call, browser.acting)
      BY <1>0, <2>1 DEF Browsers, Record
    <3> QED
      BY <1>0, <3>1, <3>2 DEF Browsers, Record
  <2>3. /\ browser'.opened = browser.opened + 1 /\ browser'.busy = "free"
        /\ browser'.id \in {0, browser.opened + 1}
        /\ browser'.call = browser.call /\ browser'.acting = browser.acting
    BY <1>0, <2>1 DEF Browsers
  <2>4. browser.acting = "none"
    BY <1>0, <2>1
  <2>5. browser.opened \in Nat /\ \A t \in Topics : browser.call[t] \in Nat
    BY <1>0 DEF Browsers
  <2>6. \A t \in Topics : browser'.call[t] <= browser'.opened
    BY <1>0, <2>3, <2>5
  <2>7. \A t \in Topics : browser'.id # 0 => browser'.call[t] # browser'.id
    BY <1>0, <2>3, <2>5
  <2>8. BrowserStaysBound'
    BY <2>3, <2>4, <2>7 DEF BrowserStaysBound
  <2> QED
    BY <2>2, <2>3, <2>4, <2>5, <2>6, <2>8 DEF BrowserInv
<1>11. CASE CloseBrowser
  <2>1. browser' = [browser EXCEPT !.busy = "closing", !.id = 0, !.holder = "none"]
    BY <1>11 DEF CloseBrowser
  <2>2. browser' = Record(0, browser.opened, "none", "closing", browser.call, browser.acting)
    BY <1>0, <2>1 DEF Browsers, Record
  <2> QED
    BY <1>0, <2>2 DEF BrowserInv, Browsers, BrowserStaysBound, Record
<1>12. CASE BrowserCloses
  <2>1. browser.busy = "closing" /\ browser' = [browser EXCEPT !.busy = "free", !.acting = "none"]
    BY <1>12 DEF BrowserCloses
  <2>2. browser' = Record(browser.id, browser.opened, browser.holder, "free",
                          browser.call, "none")
    BY <1>0, <2>1 DEF Browsers, Record
  <2> QED
    BY <1>0, <2>1, <2>2 DEF BrowserInv, Browsers, BrowserStaysBound, Record
<1>13. ASSUME NEW s \in Topics, ResolveSession(s) PROVE BrowserInv'
  <2>1. /\ at[s] = "running" /\ at' = at
        /\ browser.id # 0 /\ browser.holder = s /\ browser.call[s] = 0
        /\ browser' = [browser EXCEPT !.call[s] = browser.id]
    BY <1>13 DEF ResolveSession, OnBrowser
  <2>2. browser' \in Browsers
    BY <1>0, <2>1 DEF Browsers
  <2>3. /\ browser'.id = browser.id /\ browser'.opened = browser.opened
        /\ browser'.holder = browser.holder /\ browser'.busy = browser.busy
        /\ browser'.acting = browser.acting
        /\ \A t \in Topics : browser'.call[t] = IF t = s THEN browser.id ELSE browser.call[t]
    BY <1>0, <2>1 DEF Browsers
  <2> QED
    BY <1>0, <2>1, <2>2, <2>3 DEF BrowserInv, BrowserStaysBound
<1>14. ASSUME NEW who \in Topics \cup {"user"}, Act(who) PROVE BrowserInv'
  <2>1. /\ browser.acting = "none" /\ browser.id # 0 /\ at' = at
        /\ who \in Topics => browser.call[who] = browser.id
        /\ browser' = [browser EXCEPT !.acting = who]
    BY <1>14 DEF Act, OnBrowser
  <2> QED
    BY <1>0, <2>1 DEF BrowserInv, Browsers, BrowserStaysBound
<1>15. ASSUME NEW who \in Topics \cup {"user"}, Finish(who) PROVE BrowserInv'
  <2>1. /\ at' = at
        /\ browser' = [browser EXCEPT
                         !.acting = IF @ = who THEN "none" ELSE @,
                         !.call = [t \in Topics |-> IF t = who THEN 0 ELSE @[t]]]
    BY <1>15 DEF Finish, OnBrowser
  <2>2. browser' \in Browsers
    <3>1. [t \in Topics |-> IF t = who THEN 0 ELSE browser.call[t]]
             \in [Topics -> 0 .. MaxBrowsers]
      BY <1>0 DEF Browsers
    <3>2. browser' = Record(browser.id, browser.opened, browser.holder, browser.busy,
                            [t \in Topics |-> IF t = who THEN 0 ELSE browser.call[t]],
                            IF browser.acting = who THEN "none" ELSE browser.acting)
      BY <1>0, <2>1 DEF Browsers, Record
    <3> QED
      BY <1>0, <3>1, <3>2 DEF Browsers, Record
  <2>3. /\ browser'.id = browser.id /\ browser'.opened = browser.opened
        /\ browser'.holder = browser.holder /\ browser'.busy = browser.busy
        /\ browser'.acting = IF browser.acting = who THEN "none" ELSE browser.acting
        /\ \A t \in Topics : browser'.call[t] = IF t = who THEN 0 ELSE browser.call[t]
    BY <1>0, <2>1 DEF Browsers
  <2>4. \A t \in Topics : browser'.call[t] <= browser'.opened
    BY <1>0, <2>3 DEF Browsers
  <2>5. BrowserStaysBound'
    BY <1>0, <2>1, <2>3 DEF BrowserStaysBound
  <2> QED
    BY <1>0, <2>2, <2>3, <2>4, <2>5 DEF BrowserInv
<1>16. ASSUME NEW p \in Processes, Exit(p) PROVE BrowserInv'
  <2>1. CASE p = Web
    <3>1. browser' = [NoBrowser EXCEPT !.opened = browser.opened]
      BY <1>16, <2>1 DEF Exit
    <3> QED
      BY <1>0, <3>1 DEF NoBrowser, BrowserInv, Browsers, BrowserStaysBound
  <2>2. CASE p # Web
    <3>1. browser' = browser /\ \A t \in Topics : at'[t] = at[t]
      BY <1>16, <2>2 DEF Exit, Home
    <3> QED
      BY <3>1, BrowserInvSame
  <2> QED
    BY <2>1, <2>2
<1>17. CASE UNCHANGED vars
  BY <1>17, BrowserInvSame DEF vars
<1> QED
  BY <1>1, <1>2, <1>3, <1>4, <1>5, <1>6, <1>7, <1>8, <1>9, <1>10, <1>11, <1>12,
     <1>13, <1>14, <1>15, <1>16, <1>17 DEF Next

\* A session does not pass to another topic while one is about to work in it, for
\* every number of topics and of browsers opened.
THEOREM BrowserIsBound == Spec => []BrowserStaysBound
<1>1. LeaseInv => LeaseTypes
  BY DEF LeaseInv
<1>2. BrowserInv => BrowserStaysBound
  BY DEF BrowserInv
<1> QED
  BY <1>1, <1>2, BrowserInvInit, BrowserInvStep, LeaseInvHolds, PTL DEF Spec
----------------------------------------------------------------------------
(* The types of the whole state, and with them the run's first invariant.   *)

\* `up` is a Boolean throughout.
LEMMA UpIsBoolean == Spec => [](up \in BOOLEAN)
<1>1. Init => up \in BOOLEAN
  BY DEF Init
<1>2. up \in BOOLEAN /\ [Next]_vars => (up \in BOOLEAN)'
  <2> SUFFICES ASSUME up \in BOOLEAN, [Next]_vars PROVE up' \in BOOLEAN
    OBVIOUS
  <2> QED
    BY DEF Next, vars, Acquire, Release, StartService, ServiceReady, StopService,
           StartTopic, StartCommand, RestoreSnapshot, Connect, FailSetup, Connected,
           AbandonConnections, RunTask, EndRun, ServerAnswers, OpenBrowser,
           BrowserOpens, CloseBrowser, BrowserCloses, ResolveSession, Act, Finish,
           Exit, OnBrowser
<1> QED
  BY <1>1, <1>2, PTL DEF Spec

\* A process counts exactly the scopes that are inside and has the file locked
\* exactly while it counts one, for every number of scopes and processes.
THEOREM LeaseCounts == Spec => []LeaseCountsScopes
<1>1. LeaseInv /\ LinkInv /\ BrowserInv /\ up \in BOOLEAN => LeaseCountsScopes
  BY DEF LeaseInv, LinkInv, BrowserInv, LeaseTypes, LinkTypes, Browsers, Stages,
         LeaseCountsScopes, TypeOK, HoldersOf
<1>2. Spec => []LinkInv
  <2>1. LeaseInv => LeaseTypes
    BY DEF LeaseInv
  <2> QED
    BY <2>1, LinkInvInit, LinkInvStep, LeaseInvHolds, PTL DEF Spec
<1>3. Spec => []BrowserInv
  <2>1. LeaseInv => LeaseTypes
    BY DEF LeaseInv
  <2> QED
    BY <2>1, BrowserInvInit, BrowserInvStep, LeaseInvHolds, PTL DEF Spec
<1> QED
  BY <1>1, <1>2, <1>3, LeaseInvHolds, UpIsBoolean, PTL
=============================================================================
