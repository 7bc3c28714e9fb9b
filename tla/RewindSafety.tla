---------------------------- MODULE RewindSafety ----------------------------
(***************************************************************************)
(* Proofs about Rewind, for every set of files and contents and any number *)
(* of actions, edits, rewinds and deaths.  RewindInv is inductive; each of *)
(* its parts has a lemma over all steps, which takes the other parts it    *)
(* needs as they are before the step.                                      *)
(***************************************************************************)
EXTENDS Rewind, LogFacts

USE DEF Writes

----------------------------------------------------------------------------
(* The ledger as a sequence.                                                *)

\* Appending keeps the earlier messages where they are.
LEMMA OneAppended ==
    ASSUME NEW ms \in Seq(Records), NEW r \in Records
    PROVE  /\ Append(ms, r) \in Seq(Records)
           /\ Len(Append(ms, r)) = Len(ms) + 1
           /\ \A i \in 1..Len(ms) : Append(ms, r)[i] = ms[i]
           /\ Append(ms, r)[Len(ms) + 1] = r
OBVIOUS

\* So does cutting behind them.
LEMMA CutOff ==
    ASSUME NEW ms \in Seq(Records), NEW c \in Nat, c <= Len(ms)
    PROVE  /\ SubSeq(ms, 1, c) \in Seq(Records)
           /\ Len(SubSeq(ms, 1, c)) = c
           /\ \A i \in 1..c : SubSeq(ms, 1, c)[i] = ms[i]
OBVIOUS

\* What an answer appends is a record.
LEMMA AnsweredTypes ==
    ASSUME TypeOK, RecordsInv, NEW tool \in {"read", "write"},
           NEW f \in Files, NEW x \in States, NEW ok \in BOOLEAN,
           NEW v \in Nat, Answered(tool, f, x, ok, v),
           pending = None => nextId <= MaxActions
    PROVE  /\ messages' \in Seq(Records)
           /\ updated' \in Nat
           /\ \E r \in Records :
                 /\ messages' = Append(messages, r)
                 /\ r.tool = tool /\ r.file = f /\ r.content = x
                 /\ r.ok = ok /\ r.version = v
                 /\ r.id = IF pending = None THEN nextId ELSE pending.id
<1> DEFINE r == [id |-> IF pending = None THEN nextId ELSE pending.id,
                 tool |-> tool, file |-> f, content |-> x, ok |-> ok,
                 version |-> v]
<1>1. (IF pending = None THEN nextId ELSE pending.id) \in Ids
  BY RewindAssumption DEF TypeOK, Ids
<1>2. r \in Records
  BY <1>1 DEF Records
<1>3. messages' = Append(messages, r) /\ updated' = updated + 1
  BY DEF Answered
<1>4. messages' \in Seq(Records)
  BY <1>2, <1>3, OneAppended DEF TypeOK
<1>5. updated' \in Nat
  BY <1>3 DEF TypeOK
<1> QED
  BY <1>2, <1>3, <1>4, <1>5

\* What Look makes of a message.
LEMMA LookAt ==
    ASSUME TypeOK, RecordsInv, ScanInv, pc = "scan", next > cutoff
    PROVE  LET m == messages[next] IN
           /\ next \in 1..Len(messages)
           /\ m \in Records
           /\ ~ToldOf(m.file) => Holds(Known, m.file) = files[m.file]
           /\ m.tool = "write" /\ Undoes(Known, m) =>
                 /\ m.ok /\ m.file \notin Outside
                 /\ files[m.file] \in {m.content, Torn}
                 /\ ~ToldOf(m.file) => files[m.file] = m.content
                 /\ snapshots[m.id] \in Snapshots
                 /\ snapshots[m.id].before \in States
                 /\ <<m.file, m.content>> \in written
                 /\ Look(Known, m) =
                       [virtual |-> [virtual EXCEPT ![m.file] =
                                        snapshots[m.id].before],
                        restored |-> restored \cup {m}, warned |-> warned]
           /\ ~(m.tool = "write" /\ Undoes(Known, m)) =>
                 /\ Look(Known, m).virtual = virtual
                 /\ Look(Known, m).restored = restored
                 /\ Look(Known, m).warned \in {warned, warned \cup {m}}
<1> DEFINE m == messages[next]
<1>1. next \in 1..Len(messages)
  BY DEF TypeOK, ScanInv
<1>2. m \in Records
  BY <1>1 DEF TypeOK
<1>3. \/ Holds(Known, m.file) = files[m.file]
      \/ files[m.file] = Torn /\ ToldOf(m.file)
  BY <1>2 DEF TypeOK, ScanInv, Holds, Known, Records
<1>4. ASSUME m.tool = "write", Undoes(Known, m)
      PROVE  /\ m.ok /\ m.file \notin Outside
             /\ files[m.file] \in {m.content, Torn}
             /\ ~ToldOf(m.file) => files[m.file] = m.content
             /\ snapshots[m.id] \in Snapshots
             /\ snapshots[m.id].before \in States
             /\ <<m.file, m.content>> \in written
  <2>1. /\ m.ok /\ m.file \notin Outside
        /\ files[m.file] \in {m.content, Torn}
        /\ ~ToldOf(m.file) => files[m.file] = m.content
    BY <1>3, <1>4 DEF Undoes
  <2>2. snapshots[m.id] # None /\ <<m.file, m.content>> \in written
    BY <1>1, <1>4, <2>1 DEF RecordsInv, Traced
  <2>3. snapshots[m.id] \in Snapshots
    BY <1>2, <2>2 DEF TypeOK, Records
  <2> QED
    BY <2>1, <2>2, <2>3 DEF Snapshots
<1>5. m.tool = "write" /\ Undoes(Known, m) =>
         Look(Known, m) =
            [virtual |-> [virtual EXCEPT ![m.file] = snapshots[m.id].before],
             restored |-> restored \cup {m}, warned |-> warned]
  BY DEF Look, Known
<1>6. ~(m.tool = "write" /\ Undoes(Known, m)) =>
         /\ Look(Known, m).virtual = virtual
         /\ Look(Known, m).restored = restored
         /\ Look(Known, m).warned \in {warned, warned \cup {m}}
  BY <1>2 DEF Look, Known, Records
<1> QED
  BY <1>1, <1>2, <1>3, <1>4, <1>5, <1>6

----------------------------------------------------------------------------
(* Type correctness.                                                        *)

\* The initial state has the right types.
LEMMA InitTypes == Init => TypeOK
BY RewindAssumption
   DEF Init, TypeOK, States, Ids, Unseen, Nowhere

\* Replacing a file keeps the disk's types.
LEMMA PutTypes ==
    ASSUME TypeOK, NEW f \in Files, NEW x \in States, Put(f, x)
    PROVE  files' \in [Files -> States] /\ stamp' \in [Files -> Nat]
BY DEF TypeOK, Put

\* The handler's variables after it returned.
LEMMA LeaveTypes ==
    ASSUME Leave
    PROVE  /\ pc' \in {"idle", "scan", "prune", "save"}
           /\ cutoff' \in Nat /\ next' \in Nat
           /\ virtual' \in [Files -> States \cup {None}]
           /\ restored' \subseteq Records /\ warned' \subseteq Records
           /\ failed' \subseteq Records /\ issues' \subseteq Files
           /\ started' \in [Files -> States]
BY DEF Leave, Unseen, Nowhere, States

\* The agent's steps keep the types.
LEMMA AgentTypes ==
    ASSUME TypeOK, RecordsInv, AgentStep
    PROVE  TypeOK'
<1>1. ASSUME NEW f \in Files, Read(f)
      PROVE  TypeOK'
  <2>1. stamp[f] \in Nat /\ files[f] \in States /\ pending = None
        /\ nextId \in Ids
    BY <1>1, RewindAssumption DEF TypeOK, Read, Idle, Ids
  <2>2. messages' \in Seq(Records) /\ updated' \in Nat
    BY <1>1, <2>1, AnsweredTypes DEF Read
  <2>3. events' \subseteq Ids /\ nextId' \in 1..MaxActions + 1
    <3>1. /\ events \subseteq Ids /\ events' = events \cup {nextId}
          /\ nextId' = nextId + 1
      BY <1>1 DEF TypeOK, Read
    <3> QED BY <2>1, <3>1, RewindAssumption DEF Ids
  <2> QED
    BY <1>1, <2>2, <2>3 DEF TypeOK, Read, scan
<1>2. ASSUME NEW f \in Files, NEW b \in Bytes, StartWrite(f, b)
      PROVE  TypeOK'
  <2>1. nextId \in Ids
    BY <1>2, RewindAssumption DEF TypeOK, StartWrite, Ids
  <2>2. events' \subseteq Ids /\ nextId' \in 1..MaxActions + 1
    BY <1>2, <2>1, RewindAssumption DEF TypeOK, StartWrite, Ids
  <2>3. pending' \in Writes
    BY <1>2, <2>1 DEF StartWrite
  <2> QED
    BY <1>2, <2>2, <2>3 DEF TypeOK, StartWrite, scan
<1>3. ASSUME CommitWrite
      PROVE  TypeOK'
  <2>1. pending \in Writes
    BY <1>3 DEF TypeOK, CommitWrite
  <2>2. files' \in [Files -> States] /\ stamp' \in [Files -> Nat]
    BY <1>3, <2>1, PutTypes DEF CommitWrite, States
  <2>3. snapshots' \in [Ids -> Snapshots \cup {None}]
    BY <1>3, <2>1 DEF TypeOK, CommitWrite, Snapshots
  <2>4. written' \subseteq (Files \X Bytes)
    BY <1>3, <2>1 DEF TypeOK, CommitWrite
  <2>5. pending' \in Writes
    BY <1>3, <2>1 DEF CommitWrite
  <2> QED
    BY <1>3, <2>2, <2>3, <2>4, <2>5 DEF TypeOK, CommitWrite, scan
<1>4. ASSUME RecordWrite \/ FailWrite
      PROVE  TypeOK'
  <2>1. pending \in Writes
        /\ pending # None
    BY <1>4 DEF TypeOK, RecordWrite, FailWrite
  <2>2. pending.file \in Files /\ pending.content \in States
    BY <2>1 DEF States
  <2>3. messages' \in Seq(Records) /\ updated' \in Nat
    BY <1>4, <2>1, <2>2, AnsweredTypes DEF RecordWrite, FailWrite
  <2> QED
    BY <1>4, <2>3 DEF TypeOK, RecordWrite, FailWrite, scan
<1> QED
  BY <1>1, <1>2, <1>3, <1>4 DEF AgentStep

\* Edits, previews and requests for a rewind keep the types.
LEMMA UserTypes ==
    ASSUME TypeOK, RecordsInv, UserStep
    PROVE  TypeOK'
<1>1. ASSUME NEW f \in Files, NEW c \in Bytes \cup {Absent}, UserEdit(f, c)
      PROVE  TypeOK'
  <2>1. files' \in [Files -> States] /\ stamp' \in [Files -> Nat]
    BY <1>1, PutTypes DEF UserEdit, States
  <2>2. typed' \in [Files -> Bytes \cup {None}]
    BY <1>1 DEF TypeOK, UserEdit
  <2>3. edits' \in 0..MaxEdits
    <3>1. edits \in 0..MaxEdits /\ edits < MaxEdits /\ edits' = edits + 1
      BY <1>1 DEF TypeOK, UserEdit
    <3> QED BY <3>1, RewindAssumption
  <2>4. pending' = None
        \/ pending' \in Writes
    BY <1>1 DEF TypeOK, UserEdit
  <2> QED
    BY <1>1, <2>1, <2>2, <2>3, <2>4 DEF TypeOK, UserEdit, scan
<1>2. ASSUME NEW c \in 0..Len(messages), Preview(c)
      PROVE  TypeOK'
  <2>1. preview'.cutoff \in Nat /\ preview'.base \in Nat
    BY <1>2 DEF TypeOK, Preview
  <2> QED
    BY <1>2, <2>1 DEF TypeOK, Preview, scan, disk
<1>3. ASSUME NEW c \in Nat, NEW token, BeginRewind(c, token)
      PROVE  TypeOK'
  <2>1. archives' \in Seq([messages : Seq(Records), events : SUBSET Ids])
    BY <1>3 DEF TypeOK, BeginRewind
  <2>2. virtual' \in [Files -> States \cup {None}]
    BY <1>3 DEF BeginRewind, Unseen
  <2>3. next' \in Nat
    BY <1>3 DEF TypeOK, BeginRewind
  <2> QED
    BY <1>3, <2>1, <2>2, <2>3 DEF TypeOK, BeginRewind
<1>4. ASSUME ConfirmRewind
      PROVE  TypeOK'
  <2>1. preview.cutoff \in Nat
    BY <1>4 DEF TypeOK, ConfirmRewind
  <2> QED
    BY <1>3, <1>4, <2>1 DEF ConfirmRewind
<1>5. ASSUME NEW c \in 0..Len(messages), PlainRewind(c)
      PROVE  TypeOK'
  BY <1>3, <1>5 DEF PlainRewind
<1> QED
  BY <1>1, <1>2, <1>4, <1>5 DEF UserStep

\* The steps of a rewind and the deaths keep the types.
LEMMA RewindTypes ==
    ASSUME TypeOK, RecordsInv, ScanInv,
           RewindStep \/ Crash \/ CrashInRestore \/ CrashInPrune
    PROVE  TypeOK'
<1>1. ASSUME UndoNext
      PROVE  TypeOK'
  <2> DEFINE m == messages[next]
  <2>1. pc = "scan" /\ next > cutoff
    BY <1>1 DEF UndoNext
  <2>2. next' \in Nat
    <3>1. next' = next - 1 /\ next \in Nat /\ cutoff \in Nat
      BY <1>1 DEF TypeOK, UndoNext
    <3> QED
      BY <2>1, <3>1
  <2>3. m \in Records /\ m.file \in Files
    BY <2>1, LookAt DEF Records
  <2> HIDE DEF m
  <2>4. CASE m.tool = "write" /\ Undoes(Known, m)
    <3>1. m \in Records /\ snapshots[m.id].before \in States
          /\ Look(Known, m) =
               [virtual |-> [virtual EXCEPT ![m.file] = snapshots[m.id].before],
                restored |-> restored \cup {m}, warned |-> warned]
      BY <2>1, <2>4, LookAt DEF m
    <3>2. Put(m.file, snapshots[m.id].before)
      BY <1>1, <2>4 DEF UndoNext, m
    <3>3. files' \in [Files -> States] /\ stamp' \in [Files -> Nat]
      BY <3>1, <3>2, PutTypes DEF Records
    <3>4. virtual' = [virtual EXCEPT ![m.file] = snapshots[m.id].before]
          /\ restored' = restored \cup {m} /\ warned' = warned
      BY <1>1, <3>1 DEF UndoNext, m
    <3>5. virtual' \in [Files -> States \cup {None}] /\ restored' \subseteq Records
      BY <2>3, <3>1, <3>4 DEF TypeOK
    <3> QED
      BY <1>1, <2>2, <3>3, <3>4, <3>5 DEF TypeOK, UndoNext
  <2>5. CASE ~(m.tool = "write" /\ Undoes(Known, m))
    <3>1. m \in Records /\ virtual' = virtual /\ restored' = restored
          /\ warned' \in {warned, warned \cup {m}}
      BY <1>1, <2>1, <2>5, LookAt DEF UndoNext, m
    <3>2. warned' \subseteq Records
      BY <2>3, <3>1 DEF TypeOK
    <3>3. UNCHANGED <<files, stamp>>
      BY <1>1, <2>5 DEF UndoNext, m
    <3> QED
      BY <1>1, <2>2, <3>1, <3>2, <3>3 DEF TypeOK, UndoNext
  <2> QED
    BY <2>4, <2>5
<1>10. ASSUME RestoreFails
       PROVE  TypeOK'
  <2>1. /\ pc = "scan" /\ next > cutoff
        /\ next' = next - 1 /\ next \in Nat /\ cutoff \in Nat
    BY <1>10 DEF RestoreFails, TypeOK
  <2>2. PICK m \in Records : m = messages[next]
    BY <2>1, LookAt
  <2>3. m.file \in Files /\ Torn \in States
    BY DEF Records, States
  <2>4. /\ warned' = warned \cup {m} /\ failed' = failed \cup {m}
        /\ UNCHANGED <<files, stamp>> \/ Put(m.file, Torn)
    BY <1>10, <2>2 DEF RestoreFails
  <2>5. files' \in [Files -> States] /\ stamp' \in [Files -> Nat]
    BY <2>3, <2>4, PutTypes DEF TypeOK
  <2>6. warned' \subseteq Records /\ failed' \subseteq Records
    BY <2>4 DEF TypeOK
  <2>7. next' \in Nat
    BY <2>1
  <2> QED BY <1>10, <2>5, <2>6, <2>7 DEF TypeOK, RestoreFails
<1>2. ASSUME EndScan
      PROVE  TypeOK'
  <2>1. issues' \subseteq Files
    BY <1>2 DEF EndScan, StaleReads
  <2> QED
    BY <1>2, <2>1 DEF TypeOK, EndScan, disk
<1>3. ASSUME PruneEvents
      PROVE  TypeOK'
  BY <1>3 DEF TypeOK, PruneEvents, scan
<1>4. ASSUME SaveRewound
      PROVE  TypeOK'
  <2>1. cutoff \in Nat /\ cutoff <= Len(messages)
    BY <1>4 DEF TypeOK, ScanInv, SaveRewound
  <2>2. messages' \in Seq(Records)
    BY <1>4, <2>1, CutOff DEF TypeOK, SaveRewound, Kept
  <2>3. revisions' \in Seq(Nat) /\ updated' \in Nat
    BY <1>4 DEF TypeOK, SaveRewound
  <2> QED
    BY <1>4, <2>2, <2>3, LeaveTypes DEF TypeOK, SaveRewound
<1>5. ASSUME BindFails
      PROVE  TypeOK'
  BY <1>5, LeaveTypes DEF TypeOK, BindFails, disk
<1>6. ASSUME Restart
      PROVE  crashes' \in 0..MaxCrashes
  BY <1>6, RewindAssumption DEF TypeOK, Restart
<1>7. ASSUME Crash
      PROVE  TypeOK'
  <2>1. messages' \in Seq(Records) /\ updated' \in Nat
    <3>1. CASE pending = None
      BY <1>7, <3>1 DEF Crash, TypeOK
    <3>2. CASE pending # None
      <4>1. pending.file \in Files /\ pending.content \in States
        BY <3>2 DEF TypeOK, States
      <4> QED
        BY <1>7, <3>2, <4>1, AnsweredTypes DEF Crash
    <3> QED
      BY <3>1, <3>2
  <2> QED
    BY <1>6, <1>7, <2>1, LeaveTypes DEF TypeOK, Crash, Restart
<1>8. ASSUME CrashInRestore
      PROVE  TypeOK'
  <2>1. messages[next] \in Records
    BY <1>8, LookAt DEF CrashInRestore
  <2>2. files' \in [Files -> States] /\ stamp' \in [Files -> Nat]
    BY <1>8, <2>1, PutTypes DEF CrashInRestore, States, Records
  <2> QED
    BY <1>6, <1>8, <2>2, LeaveTypes DEF TypeOK, CrashInRestore, Restart
<1>9. ASSUME CrashInPrune
      PROVE  TypeOK'
  BY <1>6, <1>9, LeaveTypes DEF TypeOK, CrashInPrune, Restart
<1> QED
  BY <1>1, <1>2, <1>3, <1>4, <1>5, <1>7, <1>8, <1>9, <1>10 DEF RewindStep

\* A step that changes nothing keeps the types.
LEMMA StutterTypes ==
    ASSUME TypeOK, UNCHANGED vars
    PROVE  TypeOK'
BY DEF TypeOK, vars, disk, scan

----------------------------------------------------------------------------
(* RecordsInv.                                                              *)

Sound(m) == Traced(m) /\ Current(m) /\ Distinct(m)

\* A read stays true to its version when some file is replaced.
LEMMA CurrentAfterPut ==
    ASSUME TypeOK, NEW f \in Files, NEW x, Put(f, x),
           NEW m \in Records, Current(m)
    PROVE  Current(m)'
<1>1. m.file \in Files /\ m.version \in Nat
  BY DEF Records
<1>2. stamp \in [Files -> Nat] /\ files \in [Files -> States]
  BY DEF TypeOK
<1>3. CASE m.file = f
  <2>1. stamp'[m.file] = stamp[m.file] + 1
    BY <1>1, <1>2, <1>3 DEF Put
  <2> QED
    BY <1>1, <1>2, <2>1 DEF Current
<1>4. CASE m.file # f
  BY <1>1, <1>2, <1>4 DEF Put, Current
<1> QED
  BY <1>3, <1>4

\* A step keeps the records sound if it keeps each one of them so, and adds
\* only sound ones.
LEMMA RecordsStep ==
    ASSUME TypeOK, RecordsInv,
           \A m \in Records : Sound(m) => Sound(m)',
           \A i \in 1..Len(messages') :
               \/ \E j \in 1..Len(messages) : messages'[i] = messages[j]
               \/ \E r \in Records : messages'[i] = r /\ Sound(r)'
    PROVE  \A i \in 1..Len(messages') :
               (Traced(messages[i]) /\ Current(messages[i])
                /\ Distinct(messages[i]))'
<1> TAKE i \in 1..Len(messages')
<1>1. \E r \in Records : messages'[i] = r /\ Sound(r)'
  <2>1. CASE \E j \in 1..Len(messages) : messages'[i] = messages[j]
    <3>1. PICK j \in 1..Len(messages) : messages'[i] = messages[j]
      BY <2>1
    <3>2. messages[j] \in Records
      BY DEF TypeOK
    <3>3. PICK r \in Records : r = messages[j]
      BY <3>2
    <3>4. Sound(r)
      BY <3>3 DEF RecordsInv, Sound
    <3>5. Sound(r)'
      BY <3>4
    <3> QED
      BY <3>1, <3>3, <3>5
  <2> QED
    BY <2>1
<1>2. PICK r \in Records : messages'[i] = r /\ Sound(r)'
  BY <1>1
<1> QED
  BY <1>2 DEF Sound, Traced, Current, Distinct

\* An unchanged ledger has no new records.
LEMMA SameRecords ==
    ASSUME messages' = messages
    PROVE  \A i \in 1..Len(messages') :
               \E j \in 1..Len(messages) : messages'[i] = messages[j]
OBVIOUS

\* One that was answered has one.
LEMMA OneMoreRecord ==
    ASSUME TypeOK, NEW r \in Records, messages' = Append(messages, r)
    PROVE  \A i \in 1..Len(messages') :
               \/ \E j \in 1..Len(messages) : messages'[i] = messages[j]
               \/ messages'[i] = r
<1>1. messages \in Seq(Records)
  BY DEF TypeOK
<1> QED
  BY <1>1, OneAppended

\* What the preview knows of the ledger holds until the next save.
PreviewInv ==
    preview # None => /\ preview.base <= updated
                      /\ preview.base = updated
                            => preview.cutoff <= Len(messages)

\* After a save, an old preview has an old base.
LEMMA PreviewAged ==
    ASSUME TypeOK, PreviewInv, updated' = updated + 1, preview' = preview
    PROVE  PreviewInv'
BY DEF TypeOK, PreviewInv

\* The agent's steps keep the records sound.
LEMMA AgentRecords ==
    ASSUME TypeOK, RecordsInv, AgentStep
    PROVE  RecordsInv'
<1> USE DEF PreviewInv
<1>1. ASSUME NEW f \in Files, Read(f)
      PROVE  RecordsInv'
  <2>1. /\ stamp[f] \in Nat /\ files[f] \in States /\ pending = None
        /\ nextId \in Ids /\ nextId' = nextId + 1 /\ pending' = None
        /\ UNCHANGED <<files, stamp, snapshots, written>>
    BY <1>1, RewindAssumption DEF TypeOK, Read, Idle, Ids
  <2>2. PICK r \in Records :
           /\ messages' = Append(messages, r)
           /\ r.tool = "read" /\ r.file = f /\ r.content = files[f]
           /\ r.version = stamp[f] /\ r.id = nextId
    <3>1. PICK ok \in BOOLEAN : Answered("read", f, files[f], ok, stamp[f])
      BY <1>1 DEF Read
    <3>2. nextId <= MaxActions
      BY <1>1 DEF Read
    <3>3. \E r \in Records :
             /\ messages' = Append(messages, r)
             /\ r.tool = "read" /\ r.file = f /\ r.content = files[f]
             /\ r.ok = ok /\ r.version = stamp[f]
             /\ r.id = IF pending = None THEN nextId ELSE pending.id
      BY <2>1, <3>1, <3>2, AnsweredTypes
    <3> QED
      BY <2>1, <3>3
  <2>3. Sound(r)'
    BY <2>1, <2>2 DEF Sound, Traced, Current, Distinct, TypeOK
  <2>4. \A m \in Records : Sound(m) => Sound(m)'
    BY <2>1 DEF Sound, Traced, Current, Distinct, TypeOK, Records, Ids
  <2>5. \A i \in 1..Len(messages') :
            (Traced(messages[i]) /\ Current(messages[i])
             /\ Distinct(messages[i]))'
    BY <2>2, <2>3, <2>4, OneMoreRecord, RecordsStep
  <2>6. PreviewInv'
    BY <1>1, PreviewAged DEF Read, Answered, RecordsInv
  <2>7. \A i \in Ids : i >= nextId' => snapshots'[i] = None
    BY <2>1 DEF RecordsInv, Ids
  <2> QED
    BY <2>1, <2>5, <2>6, <2>7 DEF RecordsInv
<1>2. ASSUME NEW f \in Files, NEW b \in Bytes, StartWrite(f, b)
      PROVE  RecordsInv'
  <2>1. /\ nextId \in Ids /\ nextId' = nextId + 1
        /\ pending'.id = nextId /\ pending'.done = FALSE /\ pc' = "idle"
        /\ UNCHANGED <<files, stamp, snapshots, written, messages, updated,
                       preview>>
    BY <1>2, RewindAssumption DEF TypeOK, StartWrite, Idle, Ids
  <2>2. \A m \in Records : Sound(m) => Sound(m)'
    BY <2>1 DEF Sound, Traced, Current, Distinct, TypeOK, Records, Ids
  <2>3. \A i \in 1..Len(messages') :
            (Traced(messages[i]) /\ Current(messages[i])
             /\ Distinct(messages[i]))'
    BY <2>1, <2>2, SameRecords, RecordsStep
  <2>4. snapshots'[pending'.id] = None /\ pending'.id < nextId'
    BY <2>1 DEF RecordsInv, Ids
  <2>5. \A i \in Ids : i >= nextId' => snapshots'[i] = None
    BY <2>1 DEF RecordsInv, Ids
  <2> QED
    BY <2>1, <2>3, <2>4, <2>5 DEF RecordsInv
<1>3. ASSUME CommitWrite
      PROVE  RecordsInv'
  <2>1. /\ pending.id \in Ids /\ pending.file \in Files
        /\ pending # None /\ pending.id < nextId /\ pc = "idle"
        /\ snapshots[pending.id] = None
    BY <1>3 DEF TypeOK, CommitWrite, RecordsInv
  <2>2. /\ pending'.id = pending.id /\ pending'.file = pending.file
        /\ pending'.content = pending.content /\ pending'.done = TRUE
    BY <1>3 DEF TypeOK, CommitWrite
  <2>3. /\ Put(pending.file, pending.content)
        /\ snapshots' = [snapshots EXCEPT ![pending.id] =
              [file |-> pending.file, before |-> files[pending.file]]]
        /\ written' = written \cup {<<pending.file, pending.content>>}
        /\ UNCHANGED <<messages, updated, preview, nextId, pc>>
    BY <1>3 DEF CommitWrite
  <2>4. ASSUME NEW m \in Records, Sound(m)
        PROVE  Sound(m)'
    <3>1. Current(m)'
      BY <2>1, <2>3, <2>4, CurrentAfterPut DEF Sound
    <3>2. Distinct(m)' /\ m.id # pending.id
      BY <2>1, <2>2, <2>3, <2>4 DEF Sound, Distinct
    <3>3. Traced(m)'
      BY <2>3, <2>4, <3>2 DEF Sound, Traced, TypeOK, Records
    <3> QED
      BY <3>1, <3>2, <3>3 DEF Sound
  <2>5. \A i \in 1..Len(messages') :
            (Traced(messages[i]) /\ Current(messages[i])
             /\ Distinct(messages[i]))'
    BY <2>3, <2>4, SameRecords, RecordsStep
  <2>6. snapshots'[pending'.id] # None
    <3>1. snapshots'[pending.id]
             = [file |-> pending.file, before |-> files[pending.file]]
      BY <2>1, <2>3 DEF TypeOK
    <3>2. snapshots'[pending.id] \in Snapshots
      BY <2>1, <3>1 DEF TypeOK, Snapshots
    <3> QED
      BY <2>2, <3>2, RewindAssumption
  <2>7. \A i \in Ids : i >= nextId' => snapshots'[i] = None
    BY <2>1, <2>3 DEF RecordsInv, Ids, TypeOK
  <2> QED
    BY <2>1, <2>2, <2>3, <2>5, <2>6, <2>7 DEF RecordsInv
<1>4. ASSUME RecordWrite \/ FailWrite
      PROVE  RecordsInv'
  <2>1. /\ pending.id \in Ids /\ pending.file \in Files
        /\ pending.content \in States
        /\ pending # None /\ pending.id < nextId
        /\ pending' = None
        /\ UNCHANGED <<files, stamp, snapshots, written, preview, nextId>>
    BY <1>4 DEF TypeOK, RecordWrite, FailWrite, RecordsInv, States
  <2>2. PICK r \in Records :
           /\ messages' = Append(messages, r)
           /\ r.tool = "write" /\ r.id = pending.id
           /\ r.file = pending.file /\ r.content = pending.content
           /\ r.ok => pending.done
    <3>1. PICK ok \in BOOLEAN :
             /\ Answered("write", pending.file, pending.content, ok, 0)
             /\ ok => pending.done
      BY <1>4 DEF RecordWrite, FailWrite
    <3>2. \E r \in Records :
             /\ messages' = Append(messages, r)
             /\ r.tool = "write" /\ r.file = pending.file
             /\ r.content = pending.content /\ r.ok = ok /\ r.version = 0
             /\ r.id = IF pending = None THEN nextId ELSE pending.id
      BY <2>1, <3>1, AnsweredTypes
    <3> QED
      BY <2>1, <3>1, <3>2
  <2>3. Sound(r)'
    BY <2>1, <2>2 DEF Sound, Traced, Current, Distinct, RecordsInv
  <2>4. \A m \in Records : Sound(m) => Sound(m)'
    BY <2>1 DEF Sound, Traced, Current, Distinct
  <2>5. \A i \in 1..Len(messages') :
            (Traced(messages[i]) /\ Current(messages[i])
             /\ Distinct(messages[i]))'
    BY <2>2, <2>3, <2>4, OneMoreRecord, RecordsStep
  <2>6. PreviewInv'
    BY <1>4, PreviewAged DEF RecordWrite, FailWrite, Answered, RecordsInv
  <2> QED
    BY <2>1, <2>5, <2>6 DEF RecordsInv
<1> QED
  BY <1>1, <1>2, <1>3, <1>4 DEF AgentStep

\* So do edits, previews and requests for a rewind.
LEMMA UserRecords ==
    ASSUME TypeOK, RecordsInv, UserStep
    PROVE  RecordsInv'
<1>1. ASSUME NEW f \in Files, NEW c \in Bytes \cup {Absent}, UserEdit(f, c)
      PROVE  RecordsInv'
  <2>1. /\ Put(f, c) /\ pc' = pc /\ pc = "idle"
        /\ UNCHANGED <<snapshots, messages, updated, preview, written, nextId>>
    BY <1>1 DEF UserEdit
  <2>2. /\ pending' # None => pending # None
        /\ pending # None => /\ pending'.id = pending.id
                             /\ pending'.done = pending.done
                             /\ pending'.file = pending.file
                             /\ pending'.content = pending.content
    BY <1>1 DEF UserEdit, TypeOK
  <2>3. ASSUME NEW m \in Records, Sound(m)
        PROVE  Sound(m)'
    <3>1. Current(m)'
      BY <2>1, <2>3, CurrentAfterPut DEF Sound
    <3>2. Distinct(m)' /\ Traced(m)'
      BY <2>1, <2>2, <2>3 DEF Sound, Distinct, Traced
    <3> QED
      BY <3>1, <3>2 DEF Sound
  <2>4. \A i \in 1..Len(messages') :
            (Traced(messages[i]) /\ Current(messages[i])
             /\ Distinct(messages[i]))'
    BY <2>1, <2>3, SameRecords, RecordsStep
  <2> QED
    BY <2>1, <2>2, <2>4 DEF RecordsInv
<1>2. ASSUME NEW c \in 0..Len(messages), Preview(c)
      PROVE  RecordsInv'
  <2>1. /\ UNCHANGED <<files, stamp, snapshots, written, messages, updated,
                       nextId, pending, pc>>
        /\ preview'.base = updated /\ preview'.cutoff = c
    BY <1>2 DEF Preview, disk
  <2>2. PreviewInv'
    BY <2>1 DEF PreviewInv, TypeOK
  <2> QED
    BY <2>1, <2>2 DEF RecordsInv, PreviewInv, Traced, Current, Distinct
<1>3. ASSUME NEW c, NEW token, Idle, BeginRewind(c, token)
      PROVE  RecordsInv'
  <2>1. /\ UNCHANGED <<files, stamp, snapshots, written, messages, updated,
                       nextId, pending>>
        /\ preview' = None /\ pending = None
    BY <1>3 DEF BeginRewind, Idle
  <2> QED
    BY <2>1 DEF RecordsInv, Traced, Current, Distinct
<1> QED
  BY <1>1, <1>2, <1>3 DEF UserStep, ConfirmRewind, PlainRewind

\* Nothing is being written while a rewind runs.
LEMMA NoWriteThen ==
    ASSUME RecordsInv, pc # "idle"
    PROVE  pending = None
BY DEF RecordsInv

\* So do the steps of a rewind and the deaths.
LEMMA RewindRecords ==
    ASSUME TypeOK, RecordsInv, ScanInv,
           RewindStep \/ Crash \/ CrashInRestore \/ CrashInPrune
    PROVE  RecordsInv'
<1>1. ASSUME NEW f \in Files, NEW x, Put(f, x), pending' = None,
             UNCHANGED <<snapshots, messages, updated, preview, written,
                         nextId>>
      PROVE  RecordsInv'
  <2>1. ASSUME NEW m \in Records, Sound(m)
        PROVE  Sound(m)'
    <3>1. Current(m)'
      BY <1>1, <2>1, CurrentAfterPut DEF Sound
    <3>2. Distinct(m)' /\ Traced(m)'
      BY <1>1, <2>1 DEF Sound, Distinct, Traced
    <3> QED
      BY <3>1, <3>2 DEF Sound
  <2>2. \A i \in 1..Len(messages') :
            (Traced(messages[i]) /\ Current(messages[i])
             /\ Distinct(messages[i]))'
    BY <1>1, <2>1, SameRecords, RecordsStep
  <2> QED
    BY <1>1, <2>2 DEF RecordsInv
<1>2. ASSUME pending' = None,
             UNCHANGED <<files, stamp, snapshots, messages, updated, preview,
                         written, nextId>>
      PROVE  RecordsInv'
  BY <1>2 DEF RecordsInv, Traced, Current, Distinct
<1>3. ASSUME UndoNext \/ RestoreFails
      PROVE  RecordsInv'
  <2> DEFINE m == messages[next]
  <2>1. /\ pc = "scan" /\ next > cutoff /\ pending' = None
        /\ UNCHANGED <<snapshots, messages, updated, preview, written, nextId>>
    BY <1>3, NoWriteThen DEF UndoNext, RestoreFails
  <2>2. m.file \in Files
    BY <2>1, LookAt DEF Records
  <2>3. UNCHANGED <<files, stamp>> \/ \E x : Put(m.file, x)
    BY <1>3 DEF UndoNext, RestoreFails
  <2> QED
    BY <1>1, <1>2, <2>1, <2>2, <2>3
<1>4. ASSUME EndScan \/ PruneEvents \/ BindFails \/ CrashInPrune
      PROVE  RecordsInv'
  <2>1. pending' = None
    BY <1>4, NoWriteThen
       DEF EndScan, PruneEvents, BindFails, CrashInPrune, Restart
  <2> QED
    BY <1>2, <1>4, <2>1
       DEF EndScan, PruneEvents, BindFails, CrashInPrune, Restart, disk
<1>5. ASSUME SaveRewound
      PROVE  RecordsInv'
  <2>1. /\ cutoff \in Nat /\ cutoff <= Len(messages)
        /\ messages \in Seq(Records)
    BY <1>5 DEF TypeOK, ScanInv, SaveRewound
  <2>2. /\ pending' = None /\ pending = None
        /\ messages' = SubSeq(messages, 1, cutoff)
        /\ updated' = updated + 1 /\ preview' = preview
        /\ UNCHANGED <<files, stamp, snapshots, written, nextId>>
    BY <1>5, NoWriteThen DEF SaveRewound, Kept
  <2>3. \A i \in 1..Len(messages') :
            \E j \in 1..Len(messages) : messages'[i] = messages[j]
    <3>1. /\ Len(messages') = cutoff
          /\ \A i \in 1..cutoff : messages'[i] = messages[i]
      BY <2>1, <2>2, CutOff
    <3>2. 1..cutoff \subseteq 1..Len(messages)
      BY <2>1
    <3> QED
      BY <3>1, <3>2
  <2>4. \A m \in Records : Sound(m) => Sound(m)'
    BY <2>2 DEF Sound, Traced, Current, Distinct
  <2>5. \A i \in 1..Len(messages') :
            (Traced(messages[i]) /\ Current(messages[i])
             /\ Distinct(messages[i]))'
    BY <2>3, <2>4, RecordsStep
  <2>6. PreviewInv'
    BY <2>2, PreviewAged DEF RecordsInv, PreviewInv
  <2> QED
    BY <2>2, <2>5, <2>6 DEF RecordsInv, PreviewInv
<1>6. ASSUME Crash
      PROVE  RecordsInv'
  <2>1. CASE pending = None
    BY <1>2, <1>6, <2>1 DEF Crash, Restart
  <2>2. CASE pending # None
    <3>1. /\ pending.file \in Files /\ pending.content \in States
          /\ pending' = None /\ pending.id < nextId
          /\ UNCHANGED <<files, stamp, snapshots, written, preview, nextId>>
          /\ Answered("write", pending.file, pending.content, FALSE, 0)
      BY <1>6, <2>2 DEF Crash, Restart, TypeOK, RecordsInv, States
    <3>2. PICK ok \in BOOLEAN :
             Answered("write", pending.file, pending.content, ok, 0) /\ ~ok
      BY <3>1
    <3>3. PICK r \in Records :
             /\ messages' = Append(messages, r)
             /\ r.tool = "write" /\ r.file = pending.file
             /\ r.content = pending.content /\ r.ok = ok /\ r.version = 0
             /\ r.id = IF pending = None THEN nextId ELSE pending.id
      BY <2>2, <3>1, <3>2, AnsweredTypes
    <3>4. Sound(r)'
      BY <2>2, <3>1, <3>3, <3>2 DEF Sound, Traced, Current, Distinct
    <3>5. \A m \in Records : Sound(m) => Sound(m)'
      BY <3>1 DEF Sound, Traced, Current, Distinct
    <3>6. \A i \in 1..Len(messages') :
              (Traced(messages[i]) /\ Current(messages[i])
               /\ Distinct(messages[i]))'
      BY <3>3, <3>4, <3>5, OneMoreRecord, RecordsStep
    <3>7. PreviewInv'
      BY <3>1, PreviewAged DEF Answered, RecordsInv, PreviewInv
    <3> QED
      BY <3>1, <3>6, <3>7 DEF RecordsInv, PreviewInv
  <2> QED
    BY <2>1, <2>2
<1>7. ASSUME CrashInRestore
      PROVE  RecordsInv'
  <2>1. messages[next].file \in Files
    BY <1>7, LookAt DEF CrashInRestore, Records
  <2> QED
    BY <1>1, <1>7, <2>1 DEF CrashInRestore, Restart
<1> QED
  BY <1>3, <1>4, <1>5, <1>6, <1>7 DEF RewindStep

----------------------------------------------------------------------------
(* ScanInv.                                                                 *)

RevisionsNamed == \A r \in 1..Len(revisions) : revisions[r] \in 1..Len(archives)

\* Before and after a rewind, only the revisions matter.
LEMMA IdleScan ==
    ASSUME pc' = "idle", RevisionsNamed'
    PROVE  ScanInv'
BY DEF ScanInv, RevisionsNamed

\* The agent and the user's editor act while no rewind runs.
LEMMA AgentIdle ==
    ASSUME TypeOK, RecordsInv, AgentStep
    PROVE  pc = "idle" /\ pc' = "idle" /\ UNCHANGED <<revisions, archives>>
BY DEF AgentStep, Read, StartWrite, CommitWrite, RecordWrite, FailWrite, Idle,
       RecordsInv

\* What a rewind that begins finds and leaves.
LEMMA Begun ==
    ASSUME TypeOK, RecordsInv, NEW c, NEW token, BeginRewind(c, token),
           Idle,
           \/ c \in 0..Len(messages)
           \/ preview # None /\ c = preview.cutoff /\ preview.base = updated
    PROVE  /\ cutoff' \in 0..Len(messages) /\ next' = Len(messages)
           /\ pc' = "scan" /\ virtual' = Unseen /\ started' = files
           /\ Len(archives') = Len(archives) + 1
           /\ archives'[Len(archives) + 1] =
                 [messages |-> messages, events |-> events]
           /\ \A a \in 1..Len(archives) : archives'[a] = archives[a]
           /\ UNCHANGED <<files, stamp, snapshots, messages, revisions,
                          updated, events, pending, typed, written, nextId>>
<1>1. archives \in Seq([messages : Seq(Records), events : SUBSET Ids])
      /\ archives' = Append(archives, [messages |-> messages, events |-> events])
      /\ [messages |-> messages, events |-> events]
            \in [messages : Seq(Records), events : SUBSET Ids]
  BY DEF TypeOK, BeginRewind
<1>2. /\ Len(archives') = Len(archives) + 1
      /\ archives'[Len(archives) + 1] =
            [messages |-> messages, events |-> events]
      /\ \A a \in 1..Len(archives) : archives'[a] = archives[a]
  BY <1>1
<1>3. c \in 0..Len(messages)
  BY DEF TypeOK, RecordsInv
<1> QED
  BY <1>2, <1>3 DEF BeginRewind

\* The two requests that begin one.
LEMMA Requests ==
    ASSUME NEW c \in 0..Len(messages), PlainRewind(c) \/ ConfirmRewind
    PROVE  \E d, token :
              /\ BeginRewind(d, token) /\ Idle
              /\ \/ d \in 0..Len(messages)
                 \/ preview # None /\ d = preview.cutoff
                    /\ preview.base = updated
BY DEF PlainRewind, ConfirmRewind

\* What the user is told of a file stays said while the scan goes on.
LEMMA ToldStays ==
    ASSUME failed \subseteq failed', warned \subseteq warned',
           NEW f \in Files, ToldOf(f)
    PROVE  ToldOf(f)'
BY DEF ToldOf

\* The scan takes no warning back.
LEMMA UndoWarns ==
    ASSUME UndoNext
    PROVE  warned \subseteq warned' /\ failed \subseteq failed'
<1>1. PICK q : q = Known
  OBVIOUS
<1>2. PICK m : m = messages[next]
  OBVIOUS
<1>3. warned' = Look(q, m).warned /\ failed' = failed /\ q.warned = warned
  BY <1>1, <1>2 DEF UndoNext, Known
<1>4. Look(q, m).warned \in {q.warned, q.warned \cup {m}}
  BY <1>1 DEF Look, Known
<1> QED BY <1>3, <1>4

\* Every step keeps ScanInv.
LEMMA ScanStep ==
    ASSUME TypeOK, RecordsInv, ScanInv, Next
    PROVE  ScanInv'
<1> USE DEF RevisionsNamed
<1>1. ASSUME AgentStep
      PROVE  ScanInv'
  BY <1>1, AgentIdle, IdleScan DEF ScanInv
<1>2. ASSUME NEW f \in Files, NEW c \in Bytes \cup {Absent}, UserEdit(f, c)
      PROVE  ScanInv'
  BY <1>2, IdleScan DEF ScanInv, UserEdit
<1>3. ASSUME NEW c \in 0..Len(messages), Preview(c)
      PROVE  ScanInv'
  BY <1>3, IdleScan DEF ScanInv, Preview, Idle, disk
<1>4. ASSUME NEW c \in 0..Len(messages), PlainRewind(c) \/ ConfirmRewind
      PROVE  ScanInv'
  <2>1. PICK d, token :
           /\ BeginRewind(d, token) /\ Idle
           /\ \/ d \in 0..Len(messages)
              \/ preview # None /\ d = preview.cutoff /\ preview.base = updated
    BY <1>4, Requests
  <2>2. /\ cutoff' \in 0..Len(messages) /\ next' = Len(messages)
        /\ pc' = "scan" /\ virtual' = Unseen /\ UNCHANGED files
        /\ Len(archives') = Len(archives) + 1
        /\ archives'[Len(archives) + 1] =
              [messages |-> messages, events |-> events]
        /\ UNCHANGED <<messages, revisions, events>>
    BY <2>1, Begun
  <2>3. Len(archives) \in Nat /\ Len(messages) \in Nat
    BY DEF TypeOK
  <2>4. RevisionsNamed'
    BY <2>2, <2>3 DEF ScanInv
  <2>5. /\ archives' # <<>>
        /\ archives'[Len(archives')].messages = messages'
        /\ events' \subseteq archives'[Len(archives')].events
    BY <2>2, <2>3
  <2>6. cutoff' <= next' /\ next' <= Len(messages')
    BY <2>2, <2>3
  <2>7. \A f \in Files : virtual'[f] \in {None, files'[f]}
    BY <2>2 DEF Unseen
  <2> QED
    BY <2>2, <2>4, <2>5, <2>6, <2>7 DEF ScanInv
<1>5. ASSUME UndoNext
      PROVE  ScanInv'
  <2> DEFINE m == messages[next]
  <2>1. /\ pc = "scan" /\ next > cutoff /\ next' = next - 1 /\ pc' = "scan"
        /\ UNCHANGED <<messages, revisions, archives, events, cutoff>>
    BY <1>5 DEF UndoNext
  <2>2. cutoff' <= next' /\ next' <= Len(messages')
    BY <2>1 DEF TypeOK, ScanInv
  <2>3. m.file \in Files
    BY <2>1, LookAt DEF Records
  <2>6. \A f \in Files : ToldOf(f) => ToldOf(f)'
    BY <1>5, ToldStays, UndoWarns
  <2>4. CASE m.tool = "write" /\ Undoes(Known, m)
    <3>1. /\ virtual' = [virtual EXCEPT ![m.file] = snapshots[m.id].before]
          /\ files' = [files EXCEPT ![m.file] = snapshots[m.id].before]
      <4>1. Look(Known, m) =
               [virtual |-> [virtual EXCEPT ![m.file] = snapshots[m.id].before],
                restored |-> restored \cup {m}, warned |-> warned]
        BY <2>1, <2>4, LookAt
      <4>2. virtual' = Look(Known, m).virtual
            /\ Put(m.file, snapshots[m.id].before)
        BY <1>5, <2>4 DEF UndoNext
      <4> QED
        BY <4>1, <4>2 DEF Put
    <3>2. ASSUME NEW f \in Files
          PROVE  \/ virtual'[f] \in {None, files'[f]}
                 \/ files'[f] = Torn /\ ToldOf(f)'
      <4>1. CASE f = m.file
        BY <2>3, <3>1, <4>1 DEF TypeOK
      <4>2. CASE f # m.file
        BY <2>1, <2>3, <2>6, <3>1, <4>2 DEF TypeOK, ScanInv
      <4> QED BY <4>1, <4>2
    <3> QED
      BY <2>1, <2>2, <3>2 DEF ScanInv
  <2>5. CASE ~(m.tool = "write" /\ Undoes(Known, m))
    <3>1. virtual' = virtual /\ files' = files
      BY <1>5, <2>1, <2>5, LookAt DEF UndoNext
    <3> QED
      BY <2>1, <2>2, <2>6, <3>1 DEF ScanInv
  <2> QED
    BY <2>4, <2>5
<1>10. ASSUME RestoreFails
       PROVE  ScanInv'
  <2> DEFINE m == messages[next]
  <2>1. /\ pc = "scan" /\ next > cutoff /\ next' = next - 1 /\ pc' = "scan"
        /\ UNCHANGED <<messages, revisions, archives, events, cutoff, virtual>>
        /\ failed' = failed \cup {m} /\ warned' = warned \cup {m}
        /\ files' = files \/ files' = [files EXCEPT ![m.file] = Torn]
    BY <1>10 DEF RestoreFails, Put
  <2>2. cutoff' <= next' /\ next' <= Len(messages')
    BY <2>1 DEF TypeOK, ScanInv
  <2>3. ASSUME NEW f \in Files
        PROVE  \/ virtual'[f] \in {None, files'[f]}
               \/ files'[f] = Torn /\ ToldOf(f)'
    <3>1. \/ virtual[f] \in {None, files[f]}
          \/ files[f] = Torn /\ ToldOf(f)
      BY <2>1 DEF ScanInv
    <3>2. ToldOf(f) => ToldOf(f)'
      BY <2>1, ToldStays
    <3>3. CASE files'[f] = files[f]
      BY <2>1, <3>1, <3>2, <3>3
    <3>4. CASE files'[f] # files[f]
      <4>1. m.file = f /\ files'[f] = Torn
        BY <2>1, <3>4 DEF TypeOK
      <4>2. ToldOf(f)'
        BY <2>1, <4>1 DEF ToldOf
      <4> QED BY <4>1, <4>2
    <3> QED BY <3>3, <3>4
  <2> QED BY <2>1, <2>2, <2>3 DEF ScanInv
<1>6. ASSUME EndScan \/ PruneEvents
      PROVE  ScanInv'
  BY <1>6 DEF ScanInv, EndScan, PruneEvents, disk, scan, ToldOf
<1>7. ASSUME SaveRewound
      PROVE  ScanInv'
  <2>1. /\ revisions \in Seq(Nat) /\ Len(archives) \in Nat /\ Len(archives) > 0
        /\ revisions' = Append(revisions, Len(archives))
        /\ archives' = archives /\ pc' = "idle"
    BY <1>7 DEF TypeOK, ScanInv, SaveRewound, Leave
  <2>2. RevisionsNamed'
    BY <2>1 DEF ScanInv
  <2> QED
    BY <2>1, <2>2, IdleScan
<1>8. ASSUME BindFails \/ Crash \/ CrashInRestore \/ CrashInPrune
      PROVE  ScanInv'
  <2>1. pc' = "idle" /\ UNCHANGED <<revisions, archives>>
    BY <1>8 DEF BindFails, Crash, CrashInRestore, CrashInPrune, Restart,
                Leave, disk
  <2> QED
    BY <2>1, IdleScan DEF ScanInv
<1>9. 0 \in 0..Len(messages)
  BY DEF TypeOK
<1> QED
  BY <1>1, <1>2, <1>3, <1>4, <1>5, <1>6, <1>7, <1>8, <1>9, <1>10
     DEF Next, UserStep, RewindStep

----------------------------------------------------------------------------
(* ProgressInv: the scan is on its way back.                                *)

\* What is said of the discarded writes does not depend on the files.
LEMMA SameDiscarded ==
    ASSUME UNCHANGED <<messages, snapshots, cutoff, started>>, NEW f \in Files
    PROVE  /\ Discarded(f)' = Discarded(f)
           /\ \A i : Before(i)' = Before(i) /\ IsFirst(i, f)' = IsFirst(i, f)
           /\ Undisturbed(f)' = Undisturbed(f)
           /\ \A c : OnTheWay(f, c)' = OnTheWay(f, c)
           /\ OnTheWay(f, started[f])' = OnTheWay(f, started[f])
<1>1. Discarded(f)' = Discarded(f)
  BY DEF Discarded
<1>2. \A i : Before(i)' = Before(i)
  BY DEF Before
<1>3. \A i : IsFirst(i, f)' = IsFirst(i, f)
  BY <1>1 DEF IsFirst
<1>4. Undisturbed(f)' = Undisturbed(f)
  BY <1>1, <1>2, <1>3 DEF Undisturbed
<1>5. OnTheWay(f, started[f])' = OnTheWay(f, started[f])
  BY <1>1, <1>2, <1>3 DEF OnTheWay
<1>6. \A c : OnTheWay(f, c)' = OnTheWay(f, c)
  BY <1>1, <1>2, <1>3 DEF OnTheWay
<1> QED
  BY <1>1, <1>2, <1>3, <1>4, <1>5, <1>6

\* One message takes a file that is on its way one message further.
LEMMA OneFurther ==
    ASSUME TypeOK, RecordsInv, ScanInv, UndoNext, NEW f \in Files \ Outside,
           Undisturbed(f), BackTo(f, next), ~ToldOf(f)
    PROVE  BackTo(f, next)'
<1> DEFINE m == messages[next]
<1>1. /\ pc = "scan" /\ next > cutoff /\ next' = next - 1
      /\ UNCHANGED <<messages, snapshots, cutoff, started>>
      /\ next \in Nat /\ cutoff \in Nat /\ next \in 1..Len(messages)
  BY DEF UndoNext, TypeOK, ScanInv
<1>2. \A i \in Discarded(f) : i \in Nat /\ i <= Len(messages) /\ i > cutoff
  BY <1>1 DEF Discarded, TypeOK
<1>3. /\ Discarded(f)' = Discarded(f)
      /\ \A i : Before(i)' = Before(i) /\ IsFirst(i, f)' = IsFirst(i, f)
  BY <1>1, SameDiscarded
<1>4. PICK i \in Discarded(f) : (i <= next /\ files[f] = messages[i].content)
                                \/ (IsFirst(i, f) /\ files[f] = Before(i))
  BY DEF BackTo
<1>5. SUFFICES \E j \in Discarded(f) :
                   (j <= next - 1 /\ files'[f] = messages[j].content)
                   \/ (IsFirst(j, f) /\ files'[f] = Before(j))
  BY <1>1, <1>3 DEF BackTo
<1>6. CASE next \in Discarded(f) /\ files[f] = m.content
  <2>1. m.tool = "write" /\ m.ok /\ m.file = f
    BY <1>6 DEF Discarded
  <2>2. Undoes(Known, m)
    BY <1>1, <1>6, <2>1, LookAt DEF Undoes
  <2>3. files'[f] = Before(next)
    BY <2>1, <2>2 DEF UndoNext, Put, Before, TypeOK
  <2>4. CASE IsFirst(next, f)
    BY <1>6, <2>3, <2>4
  <2>5. CASE ~IsFirst(next, f)
    <3>1. PICK j \in Discarded(f) : j < next
                                    /\ Before(next) = messages[j].content
      BY <1>6, <2>5 DEF Undisturbed
    <3>2. j <= next - 1
      BY <1>1, <1>2, <3>1
    <3> QED
      BY <2>3, <3>1, <3>2
  <2> QED
    BY <2>4, <2>5
<1>7. CASE ~(next \in Discarded(f) /\ files[f] = m.content)
  <2>1. files'[f] = files[f]
    <3>1. CASE m.tool = "write" /\ Undoes(Known, m)
      <4>1. m.ok /\ (m.file = f => files[m.file] = m.content)
        BY <1>1, <3>1, LookAt
      <4>2. m.file # f
        BY <1>1, <1>7, <3>1, <4>1 DEF Discarded
      <4> QED
        BY <3>1, <4>2 DEF UndoNext, Put, TypeOK
    <3>2. CASE ~(m.tool = "write" /\ Undoes(Known, m))
      BY <3>2 DEF UndoNext
    <3> QED
      BY <3>1, <3>2
  <2>2. CASE i <= next /\ files[f] = messages[i].content
    <3>1. i # next
      BY <1>7, <2>2
    <3>2. i <= next - 1
      BY <1>1, <1>2, <2>2, <3>1
    <3> QED
      BY <2>1, <2>2, <3>2
  <2>3. CASE IsFirst(i, f) /\ files[f] = Before(i)
    BY <2>1, <2>3
  <2> QED
    BY <1>4, <2>2, <2>3
<1> QED
  BY <1>6, <1>7

\* A file the scan could not restore stays on its way, or is half-written.
Astray(f) == files[f] = Torn \/ OnTheWay(f, files[f])

LEMMA StillAstray ==
    ASSUME TypeOK, RecordsInv, ScanInv, UndoNext \/ RestoreFails,
           NEW f \in Files \ Outside, Undisturbed(f), Astray(f)
    PROVE  Astray(f)'
<1> DEFINE m == messages[next]
<1>1. /\ pc = "scan" /\ next > cutoff
      /\ UNCHANGED <<messages, snapshots, cutoff, started>>
      /\ next \in Nat /\ cutoff \in Nat /\ next \in 1..Len(messages)
      /\ m \in Records
  BY LookAt DEF UndoNext, RestoreFails, TypeOK
<1>2. \A c : OnTheWay(f, c)' = OnTheWay(f, c)
  BY <1>1, SameDiscarded
<1>3. CASE files'[f] \in {files[f], Torn}
  BY <1>2, <1>3 DEF Astray
<1>4. CASE files'[f] \notin {files[f], Torn}
  <2>1. /\ m.tool = "write" /\ Undoes(Known, m) /\ m.file = f
        /\ files'[f] = Before(next)
    BY <1>1, <1>4 DEF UndoNext, RestoreFails, Put, Before, TypeOK
  <2>2. next \in Discarded(f)
    BY <1>1, <2>1 DEF Discarded, Undoes
  <2>3. OnTheWay(f, Before(next))
    BY <2>2 DEF Undisturbed, OnTheWay
  <2> QED BY <1>2, <2>1, <2>3 DEF Astray
<1> QED BY <1>3, <1>4

\* A failing restore takes no other file from its way.
LEMMA OthersGoOn ==
    ASSUME TypeOK, RecordsInv, ScanInv, RestoreFails,
           NEW f \in Files \ Outside, BackTo(f, next), ~ToldOf(f)'
    PROVE  BackTo(f, next)'
<1> DEFINE m == messages[next]
<1>1. /\ pc = "scan" /\ next > cutoff /\ next' = next - 1
      /\ UNCHANGED <<messages, snapshots, cutoff, started>>
      /\ next \in Nat /\ cutoff \in Nat /\ next \in 1..Len(messages)
      /\ m \in Records
      /\ warned' = warned \cup {m} /\ failed' = failed \cup {m}
      /\ files' = files \/ files' = [files EXCEPT ![m.file] = Torn]
  BY LookAt DEF RestoreFails, Put, TypeOK
<1>2. m.file # f
  BY <1>1 DEF ToldOf
<1>3. files'[f] = files[f]
  BY <1>1, <1>2 DEF TypeOK
<1>4. /\ Discarded(f)' = Discarded(f)
      /\ \A i : Before(i)' = Before(i) /\ IsFirst(i, f)' = IsFirst(i, f)
  BY <1>1, SameDiscarded
<1>5. \A i \in Discarded(f) : i <= next => i <= next'
  <2>1. next \notin Discarded(f)
    BY <1>2 DEF Discarded
  <2>2. \A i \in Discarded(f) : i \in Nat
    BY <1>1 DEF Discarded, TypeOK
  <2> QED BY <1>1, <2>1, <2>2
<1> QED BY <1>1, <1>3, <1>4, <1>5 DEF BackTo

\* Every step keeps ProgressInv.
LEMMA ProgressStep ==
    ASSUME TypeOK, RecordsInv, ScanInv, ProgressInv, Next
    PROVE  ProgressInv'
<1>1. ASSUME NEW c \in 0..Len(messages), PlainRewind(c) \/ ConfirmRewind
      PROVE  ProgressInv'
  <2>1. PICK d, token :
           /\ BeginRewind(d, token) /\ Idle
           /\ \/ d \in 0..Len(messages)
              \/ preview # None /\ d = preview.cutoff /\ preview.base = updated
    BY <1>1, Requests
  <2>2. /\ next' = Len(messages') /\ pc' = "scan" /\ started' = files'
        /\ cutoff' \in Nat /\ Len(messages') \in Nat
    BY <2>1, Begun DEF TypeOK
  <2>3. ASSUME NEW f \in Files \ Outside, OnTheWay(f, started[f])'
        PROVE  BackTo(f, next)'
    <3>1. PICK i \in Discarded(f)' :
             \/ started'[f] = messages'[i].content
             \/ IsFirst(i, f)' /\ started'[f] = Before(i)'
      BY <2>3 DEF OnTheWay
    <3>2. i <= next'
      BY <2>2 DEF Discarded
    <3> QED
      BY <2>2, <3>1, <3>2 DEF BackTo
  <2> QED
    BY <2>2, <2>3 DEF ProgressInv
<1>2. ASSUME UndoNext \/ RestoreFails
      PROVE  ProgressInv'
  <2>1. /\ pc = "scan" /\ pc' = "scan"
        /\ UNCHANGED <<messages, snapshots, cutoff, started>>
        /\ failed \subseteq failed' /\ warned \subseteq warned'
    BY <1>2, UndoWarns DEF UndoNext, RestoreFails
  <2>2. ASSUME NEW f \in Files \ Outside, Undisturbed(f)',
               OnTheWay(f, started[f])'
        PROVE  BackTo(f, next)' \/ (ToldOf(f)' /\ Astray(f)')
    <3>1. Undisturbed(f) /\ OnTheWay(f, started[f])
      BY <2>1, <2>2, SameDiscarded
    <3>2. BackTo(f, next) \/ (ToldOf(f) /\ Astray(f))
      BY <2>1, <3>1 DEF ProgressInv, Astray
    <3>3. Astray(f)
      BY <3>2 DEF BackTo, OnTheWay, Astray
    <3>4. Astray(f)'
      BY <1>2, <3>1, <3>3, StillAstray
    <3>5. CASE ToldOf(f)
      BY <2>1, <3>4, <3>5, ToldStays
    <3>6. CASE ~ToldOf(f) /\ UndoNext
      BY <3>1, <3>2, <3>6, OneFurther
    <3>7. CASE ~ToldOf(f) /\ RestoreFails
      BY <3>2, <3>4, <3>7, OthersGoOn
    <3> QED
      BY <1>2, <3>5, <3>6, <3>7
  <2> QED
    BY <2>1, <2>2 DEF ProgressInv, Astray
<1>3. ASSUME EndScan
      PROVE  ProgressInv'
  <2>1. /\ pc = "scan" /\ pc' = "prune" /\ next = cutoff
        /\ UNCHANGED <<messages, snapshots, cutoff, started, files, next,
                       warned, failed>>
    BY <1>3 DEF EndScan, disk
  <2>2. ASSUME NEW f \in Files \ Outside, Undisturbed(f)',
               OnTheWay(f, started[f])'
        PROVE  BackTo(f, cutoff)' \/ (ToldOf(f)' /\ Astray(f)')
    <3>1. Undisturbed(f) /\ OnTheWay(f, started[f])
      BY <2>1, <2>2, SameDiscarded
    <3>2. BackTo(f, next) \/ (ToldOf(f) /\ Astray(f))
      BY <2>1, <3>1 DEF ProgressInv, Astray
    <3>3. /\ Discarded(f)' = Discarded(f)
          /\ \A i : Before(i)' = Before(i) /\ IsFirst(i, f)' = IsFirst(i, f)
          /\ \A c : OnTheWay(f, c)' = OnTheWay(f, c)
      BY <2>1, SameDiscarded
    <3>4. ToldOf(f) => ToldOf(f)'
      BY <2>1 DEF ToldOf
    <3> QED
      BY <2>1, <3>2, <3>3, <3>4 DEF BackTo, Astray
  <2> QED
    BY <2>1, <2>2 DEF ProgressInv, Astray
<1>4. ASSUME AgentStep
      PROVE  ProgressInv'
  BY <1>4, AgentIdle DEF ProgressInv
<1>5. ASSUME \/ \E f \in Files, c \in Bytes \cup {Absent} : UserEdit(f, c)
             \/ \E c \in 0..Len(messages) : Preview(c)
             \/ PruneEvents \/ SaveRewound \/ BindFails
             \/ Crash \/ CrashInRestore \/ CrashInPrune
      PROVE  ProgressInv'
  <2>1. pc' \in {"idle", "save"}
    BY <1>5 DEF UserEdit, Preview, Idle, PruneEvents, SaveRewound, BindFails,
                Crash, CrashInRestore, CrashInPrune, Restart, Leave
  <2> QED
    BY <2>1 DEF ProgressInv
<1>6. 0 \in 0..Len(messages)
  BY DEF TypeOK
<1> QED
  BY <1>1, <1>2, <1>3, <1>4, <1>5, <1>6 DEF Next, UserStep, RewindStep

----------------------------------------------------------------------------
(* The user's work, stale evidence, records and events.                     *)

\* Every step keeps UserWorkIsKept.
LEMMA WorkStep ==
    ASSUME TypeOK, RecordsInv, ScanInv, UserWorkIsKept, Next
    PROVE  UserWorkIsKept'
<1> DEFINE Safe(f) ==
              \/ files[f] = typed[f]
              \/ \E i \in Ids : snapshots[i] = [file |-> f, before |-> typed[f]]
              \/ <<f, typed[f]>> \in written
<1>1. ASSUME UNCHANGED <<files, snapshots, typed, written>>
      PROVE  UserWorkIsKept'
  BY <1>1 DEF UserWorkIsKept
<1>2. ASSUME NEW g \in Files, NEW x, Put(g, x),
             <<g, files[g]>> \in written \/ files[g] = Torn,
             UNCHANGED <<snapshots, typed, written>>
      PROVE  UserWorkIsKept'
  <2>1. typed[g] # Torn
    BY RewindAssumption DEF TypeOK
  <2> QED BY <1>2, <2>1 DEF UserWorkIsKept, Put, TypeOK
<1>3. ASSUME CommitWrite
      PROVE  UserWorkIsKept'
  <2> DEFINE g == pending.file
             s == [file |-> g, before |-> files[g]]
  <2>1. /\ pending.id \in Ids /\ g \in Files /\ snapshots[pending.id] = None
        /\ Put(g, pending.content) /\ typed' = typed
        /\ snapshots' = [snapshots EXCEPT ![pending.id] = s]
        /\ written \subseteq written'
    BY <1>3 DEF TypeOK, CommitWrite, RecordsInv
  <2>2. snapshots'[pending.id] = s
    BY <2>1 DEF TypeOK
  <2>3. \A i \in Ids : snapshots[i] # None => snapshots'[i] = snapshots[i]
    BY <2>1 DEF TypeOK
  <2>4. ASSUME NEW f \in Files, typed'[f] # None
        PROVE  Safe(f)'
    <3>1. Safe(f)
      BY <2>1, <2>4 DEF UserWorkIsKept
    <3>2. CASE files[f] = typed[f]
      <4>1. CASE f = g
        BY <2>1, <2>2, <3>2, <4>1
      <4>2. CASE f # g
        BY <2>1, <3>2, <4>2 DEF Put, TypeOK
      <4> QED
        BY <4>1, <4>2
    <3>3. CASE \E i \in Ids : snapshots[i] = [file |-> f, before |-> typed[f]]
      <4>1. PICK i \in Ids : snapshots[i] = [file |-> f, before |-> typed[f]]
        BY <3>3
      <4>2. typed[f] \in States
        BY <2>1, <2>4 DEF TypeOK, States
      <4>3. snapshots[i] # None
        BY <4>1, <4>2, RewindAssumption DEF Snapshots
      <4> QED
        BY <2>1, <2>3, <4>1, <4>3
    <3>4. CASE <<f, typed[f]>> \in written
      BY <2>1, <3>4
    <3> QED
      BY <3>1, <3>2, <3>3, <3>4
  <2> QED
    BY <2>4 DEF UserWorkIsKept
<1>4. ASSUME NEW f \in Files, NEW c \in Bytes \cup {Absent}, UserEdit(f, c)
      PROVE  UserWorkIsKept'
  BY <1>4 DEF UserWorkIsKept, UserEdit, Put, TypeOK
<1>5. ASSUME NEW c \in 0..Len(messages), PlainRewind(c) \/ ConfirmRewind
      PROVE  UserWorkIsKept'
  <2>1. UNCHANGED <<files, snapshots, typed, written>>
    BY <1>5 DEF PlainRewind, ConfirmRewind, BeginRewind
  <2> QED
    BY <1>1, <2>1
<1>6. ASSUME UndoNext
      PROVE  UserWorkIsKept'
  <2> DEFINE m == messages[next]
  <2>1. pc = "scan" /\ next > cutoff /\ UNCHANGED <<snapshots, typed, written>>
    BY <1>6 DEF UndoNext
  <2>2. CASE m.tool = "write" /\ Undoes(Known, m)
    <3>1. /\ m.file \in Files
          /\ <<m.file, files[m.file]>> \in written \/ files[m.file] = Torn
      <4>1. m \in Records /\ files[m.file] \in {m.content, Torn}
            /\ <<m.file, m.content>> \in written
        BY <2>1, <2>2, LookAt
      <4> QED
        BY <4>1 DEF Records
    <3>2. Put(m.file, snapshots[m.id].before)
      BY <1>6, <2>2 DEF UndoNext
    <3> QED
      BY <1>2, <2>1, <3>1, <3>2
  <2>3. CASE ~(m.tool = "write" /\ Undoes(Known, m))
    BY <1>1, <1>6, <2>1, <2>3 DEF UndoNext
  <2> QED
    BY <2>2, <2>3
<1>7. ASSUME CrashInRestore \/ RestoreFails
      PROVE  UserWorkIsKept'
  <2> DEFINE m == messages[next]
  <2>1. /\ pc = "scan" /\ next > cutoff /\ m.tool = "write" /\ Undoes(Known, m)
        /\ UNCHANGED files \/ Put(m.file, Torn)
        /\ UNCHANGED <<snapshots, typed, written>>
    BY <1>7 DEF CrashInRestore, Restart, RestoreFails
  <2>2. /\ m.file \in Files
        /\ <<m.file, files[m.file]>> \in written \/ files[m.file] = Torn
    <3>1. m \in Records /\ files[m.file] \in {m.content, Torn}
          /\ <<m.file, m.content>> \in written
      BY <2>1, LookAt
    <3> QED
      BY <3>1 DEF Records
  <2> QED
    BY <1>1, <1>2, <2>1, <2>2
<1>8. ASSUME \/ \E f \in Files : Read(f) \/ (\E b \in Bytes : StartWrite(f, b))
             \/ RecordWrite \/ FailWrite
             \/ \E c \in 0..Len(messages) : Preview(c)
             \/ EndScan \/ PruneEvents \/ SaveRewound \/ BindFails
             \/ Crash \/ CrashInPrune
      PROVE  UserWorkIsKept'
  <2>1. UNCHANGED <<files, snapshots, typed, written>>
    BY <1>8 DEF Read, StartWrite, RecordWrite, FailWrite, Preview, EndScan,
                PruneEvents, SaveRewound, BindFails, Crash, CrashInPrune,
                Restart, disk
  <2> QED
    BY <1>1, <2>1
<1>9. 0 \in 0..Len(messages)
  BY DEF TypeOK
<1> QED
  BY <1>3, <1>4, <1>5, <1>6, <1>7, <1>8, <1>9
     DEF Next, AgentStep, UserStep, RewindStep

\* The end of the scan flags what is stale, and nothing moves until the save.
LEMMA StaleStep ==
    ASSUME TypeOK, RecordsInv, ScanInv, StaleEvidenceIsFlagged, Next
    PROVE  StaleEvidenceIsFlagged'
<1>1. ASSUME EndScan
      PROVE  StaleEvidenceIsFlagged'
  <2>1. /\ pc = "scan" /\ issues' = StaleReads(cutoff, virtual)
        /\ cutoff \in Nat /\ cutoff <= Len(messages)
        /\ UNCHANGED <<messages, files, cutoff, warned, failed>>
    BY <1>1 DEF EndScan, disk, TypeOK, ScanInv
  <2>2. ASSUME NEW i \in 1..cutoff, messages[i].tool = "read",
               files[messages[i].file] # messages[i].content,
               ~(files[messages[i].file] = Torn /\ ToldOf(messages[i].file))
        PROVE  messages[i].file \in issues'
    <3>1. i \in 1..Len(messages) /\ messages[i] \in Records
      BY <2>1 DEF TypeOK
    <3>2. messages[i].file \in Files
      BY <3>1 DEF Records
    <3>3. messages[i].version # stamp[messages[i].file]
      BY <2>2, <3>1 DEF RecordsInv, Current
    <3>4. virtual[messages[i].file] \in {None, files[messages[i].file]}
      BY <2>1, <2>2, <3>2 DEF ScanInv
    <3>5. StaleRead(i, cutoff, virtual)
      BY <2>2, <3>3, <3>4 DEF StaleRead
    <3> QED
      BY <2>1, <3>2, <3>5 DEF StaleReads
  <2> QED
    BY <2>1, <2>2 DEF StaleEvidenceIsFlagged, ToldOf
<1>2. ASSUME PruneEvents
      PROVE  StaleEvidenceIsFlagged'
  BY <1>2 DEF StaleEvidenceIsFlagged, ToldOf, PruneEvents, scan
<1>3. ASSUME AgentStep
      PROVE  StaleEvidenceIsFlagged'
  BY <1>3, AgentIdle DEF StaleEvidenceIsFlagged
<1>4. ASSUME UserStep \/ UndoNext \/ RestoreFails \/ SaveRewound \/ BindFails
             \/ Crash \/ CrashInRestore \/ CrashInPrune
      PROVE  StaleEvidenceIsFlagged'
  <2>1. pc' \in {"idle", "scan"}
    BY <1>4 DEF UserStep, UserEdit, Preview, ConfirmRewind, PlainRewind,
                BeginRewind, Idle, UndoNext, RestoreFails, SaveRewound,
                BindFails, Crash,
                CrashInRestore, CrashInPrune, Restart, Leave
  <2> QED
    BY <2>1 DEF StaleEvidenceIsFlagged
<1> QED
  BY <1>1, <1>2, <1>3, <1>4 DEF Next, RewindStep

\* The actions of a ledger that was answered.
LEMMA IdsAppended ==
    ASSUME NEW ms \in Seq(Records), NEW r \in Records
    PROVE  IdsOf(Append(ms, r)) = IdsOf(ms) \cup {r.id}
<1>1. /\ Len(ms) \in Nat /\ Len(Append(ms, r)) = Len(ms) + 1
      /\ \A i \in 1..Len(ms) : Append(ms, r)[i] = ms[i]
      /\ Append(ms, r)[Len(ms) + 1] = r
  BY OneAppended
<1>2. 1..Len(ms) + 1 = 1..Len(ms) \cup {Len(ms) + 1}
  BY <1>1
<1> QED
  BY <1>1, <1>2 DEF IdsOf

\* An answer puts the action into the ledger, whether it was new or pending.
LEMMA IdsAnswered ==
    ASSUME TypeOK, RecordsInv, NEW tool \in {"read", "write"},
           NEW f \in Files, NEW x \in States, NEW ok \in BOOLEAN,
           NEW v \in Nat, Answered(tool, f, x, ok, v),
           pending = None => nextId <= MaxActions
    PROVE  IdsOf(messages') = IdsOf(messages) \cup
               {IF pending = None THEN nextId ELSE pending.id}
<1>1. PICK r \in Records :
         /\ messages' = Append(messages, r)
         /\ r.tool = tool /\ r.file = f /\ r.content = x
         /\ r.ok = ok /\ r.version = v
         /\ r.id = IF pending = None THEN nextId ELSE pending.id
  BY AnsweredTypes
<1>2. messages \in Seq(Records)
  BY DEF TypeOK
<1> QED
  BY <1>1, <1>2, IdsAppended

InArchives(i) ==
    \E r \in 1..Len(revisions) : i \in IdsOf(archives[revisions[r]].messages)

\* Every step keeps NoRecordIsLost.
LEMMA RecordStep ==
    ASSUME TypeOK, RecordsInv, ScanInv, NoRecordIsLost, Next
    PROVE  NoRecordIsLost'
<1> USE DEF InArchives
<1>1. ASSUME UNCHANGED <<messages, revisions, archives, nextId>>,
             pending # None => pending' # None /\ pending'.id = pending.id
      PROVE  NoRecordIsLost'
  BY <1>1 DEF NoRecordIsLost
<1>2. ASSUME pending # None, nextId' = nextId,
             IdsOf(messages') = IdsOf(messages) \cup {pending.id},
             UNCHANGED <<revisions, archives>>
      PROVE  NoRecordIsLost'
  BY <1>2 DEF NoRecordIsLost
<1>3. ASSUME NEW f \in Files, Read(f)
      PROVE  NoRecordIsLost'
  <2>1. /\ pending = None /\ nextId \in Nat /\ nextId <= MaxActions
        /\ nextId' = nextId + 1 /\ files[f] \in States /\ stamp[f] \in Nat
        /\ UNCHANGED <<revisions, archives>>
    BY <1>3, RewindAssumption DEF Read, Idle, TypeOK
  <2>2. PICK ok \in BOOLEAN : Answered("read", f, files[f], ok, stamp[f])
    BY <1>3 DEF Read
  <2>3. IdsOf(messages') = IdsOf(messages) \cup {nextId}
    BY <2>1, <2>2, IdsAnswered
  <2>4. \A i \in 1..nextId'-1 : i = nextId \/ i \in 1..nextId-1
    BY <2>1
  <2> QED
    BY <2>1, <2>3, <2>4 DEF NoRecordIsLost
<1>4. ASSUME NEW f \in Files, NEW b \in Bytes, StartWrite(f, b)
      PROVE  NoRecordIsLost'
  <2>1. /\ pending = None /\ nextId \in Nat /\ nextId \in Ids
        /\ nextId' = nextId + 1 /\ pending'.id = nextId
        /\ UNCHANGED <<messages, revisions, archives, snapshots>>
    BY <1>4, RewindAssumption DEF StartWrite, Idle, TypeOK, Ids
  <2>2. pending' # None
    <3>1. pending' \in Writes
      BY <1>4, <2>1 DEF StartWrite
    <3> QED
      BY <3>1, RewindAssumption
  <2>3. \A i \in 1..nextId'-1 : i = nextId \/ i \in 1..nextId-1
    BY <2>1
  <2> QED
    BY <2>1, <2>2, <2>3 DEF NoRecordIsLost
<1>5. ASSUME CommitWrite
      PROVE  NoRecordIsLost'
  <2>1. /\ pending # None /\ pending \in Writes
        /\ pending' = [pending EXCEPT !.done = TRUE]
        /\ UNCHANGED <<messages, revisions, archives, nextId>>
    BY <1>5 DEF CommitWrite, TypeOK
  <2>2. pending' \in Writes /\ pending'.id = pending.id
    BY <2>1
  <2> QED
    BY <1>1, <2>1, <2>2, RewindAssumption
<1>6. ASSUME RecordWrite \/ FailWrite \/ (Crash /\ pending # None)
      PROVE  NoRecordIsLost'
  <2>1. /\ pending # None /\ pending.file \in Files
        /\ pending.content \in States
        /\ nextId' = nextId /\ UNCHANGED <<revisions, archives>>
    BY <1>6 DEF RecordWrite, FailWrite, Crash, Restart, TypeOK, States
  <2>2. PICK ok \in BOOLEAN :
           Answered("write", pending.file, pending.content, ok, 0)
    BY <1>6 DEF RecordWrite, FailWrite, Crash
  <2>3. IdsOf(messages') = IdsOf(messages) \cup {pending.id}
    BY <2>1, <2>2, IdsAnswered
  <2> QED
    BY <1>2, <2>1, <2>3
<1>7. ASSUME NEW f \in Files, NEW c \in Bytes \cup {Absent}, UserEdit(f, c)
      PROVE  NoRecordIsLost'
  <2>1. /\ pending \in Writes \cup {None}
        /\ pending' = pending \/ (pending # None
              /\ pending' = [pending EXCEPT !.stale = TRUE])
        /\ UNCHANGED <<messages, revisions, archives, nextId>>
    BY <1>7 DEF UserEdit, TypeOK
  <2>2. pending # None => pending' \in Writes /\ pending'.id = pending.id
    BY <2>1
  <2> QED
    BY <1>1, <2>1, <2>2, RewindAssumption
<1>8. ASSUME NEW c \in 0..Len(messages), PlainRewind(c) \/ ConfirmRewind
      PROVE  NoRecordIsLost'
  <2>1. PICK d, token :
           /\ BeginRewind(d, token) /\ Idle
           /\ \/ d \in 0..Len(messages)
              \/ preview # None /\ d = preview.cutoff /\ preview.base = updated
    BY <1>8, Requests
  <2>2. /\ \A a \in 1..Len(archives) : archives'[a] = archives[a]
        /\ UNCHANGED <<messages, revisions, pending, nextId>>
    BY <2>1, Begun
  <2> QED
    BY <2>2 DEF NoRecordIsLost, ScanInv
<1>9. ASSUME SaveRewound
      PROVE  NoRecordIsLost'
  <2> DEFINE n == Len(revisions) + 1
  <2>1. /\ revisions' = Append(revisions, Len(archives))
        /\ revisions \in Seq(Nat) /\ Len(archives) \in Nat
        /\ archives[Len(archives)].messages = messages
        /\ archives' = archives /\ nextId' = nextId /\ pending = None
    BY <1>9, NoWriteThen DEF SaveRewound, ScanInv, TypeOK
  <2>2. /\ Len(revisions') = n /\ revisions'[n] = Len(archives)
        /\ \A r \in 1..Len(revisions) : revisions'[r] = revisions[r]
        /\ n \in 1..Len(revisions')
        /\ 1..Len(revisions) \subseteq 1..Len(revisions')
    BY <2>1
  <2>3. \A i : i \in IdsOf(messages) \/ InArchives(i) => InArchives(i)'
    BY <2>1, <2>2
  <2> QED
    BY <2>1, <2>3 DEF NoRecordIsLost
<1>10. ASSUME \/ \E c \in 0..Len(messages) : Preview(c)
              \/ UndoNext \/ RestoreFails \/ EndScan \/ PruneEvents
              \/ BindFails
              \/ CrashInRestore \/ CrashInPrune \/ (Crash /\ pending = None)
       PROVE  NoRecordIsLost'
  <2>1. UNCHANGED <<messages, revisions, archives, nextId>>
    BY <1>10 DEF Preview, UndoNext, RestoreFails, EndScan, PruneEvents,
                 BindFails, CrashInRestore, CrashInPrune, Crash, Restart, disk
  <2>2. pending = None \/ pending' = pending
    BY <1>10, NoWriteThen
       DEF Preview, UndoNext, RestoreFails, EndScan, PruneEvents, BindFails,
           CrashInRestore, CrashInPrune
  <2> QED
    BY <1>1, <2>1, <2>2
<1>11. 0 \in 0..Len(messages)
  BY DEF TypeOK
<1> QED
  BY <1>3, <1>4, <1>5, <1>6, <1>7, <1>8, <1>9, <1>10, <1>11
     DEF Next, AgentStep, UserStep, RewindStep

\* Every step keeps NoEventIsForgotten.
LEMMA EventStep ==
    ASSUME TypeOK, RecordsInv, ScanInv, NoEventIsForgotten, Next
    PROVE  NoEventIsForgotten'
<1>1. ASSUME events \subseteq events', UNCHANGED <<archives, nextId>>
      PROVE  NoEventIsForgotten'
  BY <1>1 DEF NoEventIsForgotten
<1>2. ASSUME events' = events \cup {nextId}, nextId' = nextId + 1,
             archives' = archives
      PROVE  NoEventIsForgotten'
  <2>1. \A i \in 1..nextId'-1 : i = nextId \/ i \in 1..nextId-1
    BY <1>2 DEF TypeOK
  <2> QED
    BY <1>2, <2>1 DEF NoEventIsForgotten
<1>3. ASSUME PruneEvents \/ CrashInPrune
      PROVE  NoEventIsForgotten'
  <2>1. /\ pc # "idle" /\ UNCHANGED <<archives, nextId>>
        /\ archives \in Seq([messages : Seq(Records), events : SUBSET Ids])
    BY <1>3 DEF PruneEvents, CrashInPrune, Restart, TypeOK
  <2>2. /\ Len(archives) \in 1..Len(archives)
        /\ events \subseteq archives[Len(archives)].events
    BY <2>1 DEF ScanInv
  <2> QED
    BY <2>1, <2>2 DEF NoEventIsForgotten
<1>4. ASSUME NEW c \in 0..Len(messages), PlainRewind(c) \/ ConfirmRewind
      PROVE  NoEventIsForgotten'
  <2>1. PICK d, token :
           /\ BeginRewind(d, token) /\ Idle
           /\ \/ d \in 0..Len(messages)
              \/ preview # None /\ d = preview.cutoff /\ preview.base = updated
    BY <1>4, Requests
  <2>2. /\ \A a \in 1..Len(archives) : archives'[a] = archives[a]
        /\ Len(archives') = Len(archives) + 1
        /\ UNCHANGED <<events, nextId>>
    BY <2>1, Begun
  <2>3. 1..Len(archives) \subseteq 1..Len(archives')
    BY <2>2 DEF TypeOK
  <2> QED
    BY <2>2, <2>3 DEF NoEventIsForgotten
<1>5. ASSUME \/ \E f \in Files : Read(f) \/ (\E b \in Bytes : StartWrite(f, b))
      PROVE  NoEventIsForgotten'
  BY <1>2, <1>5 DEF Read, StartWrite
<1>6. ASSUME \/ CommitWrite \/ RecordWrite \/ FailWrite
             \/ \E f \in Files, c \in Bytes \cup {Absent} : UserEdit(f, c)
             \/ \E c \in 0..Len(messages) : Preview(c)
             \/ UndoNext \/ RestoreFails \/ EndScan \/ SaveRewound
             \/ BindFails \/ Crash \/ CrashInRestore
      PROVE  NoEventIsForgotten'
  <2>1. UNCHANGED <<events, archives, nextId>>
    BY <1>6 DEF CommitWrite, RecordWrite, FailWrite, UserEdit, Preview,
                UndoNext, RestoreFails, EndScan, SaveRewound, BindFails,
                Crash, CrashInRestore, Restart, disk
  <2> QED
    BY <1>1, <2>1
<1>7. 0 \in 0..Len(messages)
  BY DEF TypeOK
<1> QED
  BY <1>3, <1>4, <1>5, <1>6, <1>7 DEF Next, AgentStep, UserStep, RewindStep

----------------------------------------------------------------------------
(* VersionsInv: reads and the writes recorded after them.                   *)

InOrder ==
    \A j \in 1..Len(messages) : \A i \in 1..j - 1 :
        OlderThan(messages[i], messages[j])

\* Files only get newer.
LEMMA StampsGrow ==
    ASSUME TypeOK, UNCHANGED stamp \/ \E f \in Files, x \in States : Put(f, x)
    PROVE  \A f \in Files : /\ stamp[f] \in Nat /\ stamp'[f] \in Nat
                            /\ stamp[f] <= stamp'[f]
<1>1. stamp \in [Files -> Nat]
  BY DEF TypeOK
<1>2. CASE UNCHANGED stamp
  BY <1>1, <1>2
<1>3. ASSUME NEW f \in Files, NEW x \in States, Put(f, x)
      PROVE  \A g \in Files : /\ stamp[g] \in Nat /\ stamp'[g] \in Nat
                              /\ stamp[g] <= stamp'[g]
  BY <1>1, <1>3 DEF Put
<1> QED BY <1>2, <1>3

\* What is said of a read and a write holds on.
LEMMA StillOlder ==
    ASSUME NEW m \in Records, NEW w \in Records, OlderThan(m, w),
           \A f \in Files : /\ stamp[f] \in Nat /\ stamp'[f] \in Nat
                            /\ stamp[f] <= stamp'[f]
    PROVE  OlderThan(m, w)'
BY DEF OlderThan, Records

\* The order is kept where nothing is added to the ledger.
LEMMA OrderKept ==
    ASSUME TypeOK, InOrder, NEW n \in 0..Len(messages),
           Len(messages') = n, \A i \in 1..n : messages'[i] = messages[i],
           UNCHANGED stamp \/ \E f \in Files, x \in States : Put(f, x)
    PROVE  InOrder'
<1> SUFFICES ASSUME NEW j \in 1..n, NEW i \in 1..j - 1
             PROVE  OlderThan(messages[i], messages[j])'
  BY DEF InOrder
<1>1. /\ Len(messages) \in Nat
      /\ \A h \in 1..Len(messages) : messages[h] \in Records
  BY DEF TypeOK
<1>2. j \in 1..Len(messages) /\ i \in 1..Len(messages) /\ i \in 1..n
  BY <1>1
<1>3. PICK m \in Records : m = messages[i]
  BY <1>1, <1>2
<1>4. PICK w \in Records : w = messages[j]
  BY <1>1, <1>2
<1>5. OlderThan(m, w)
  BY <1>2, <1>3, <1>4 DEF InOrder
<1>6. OlderThan(m, w)'
  BY <1>5, StampsGrow, StillOlder
<1>7. messages'[i] = m /\ messages'[j] = w
  BY <1>2, <1>3, <1>4
<1> QED BY <1>6, <1>7

\* It is kept when an answer is added that is no success of a write, or one
\* that left its file newer than any read of it.
LEMMA OrderAfterAnswer ==
    ASSUME TypeOK, InOrder, NEW r \in Records,
           messages' = Append(messages, r), UNCHANGED stamp,
           r.tool = "write" /\ r.ok =>
              \A i \in 1..Len(messages) :
                  messages[i].tool = "read" /\ messages[i].file = r.file
                      => messages[i].version < stamp[r.file]
    PROVE  InOrder'
<1> SUFFICES ASSUME NEW j \in 1..Len(messages'), NEW i \in 1..j - 1
             PROVE  OlderThan(messages[i], messages[j])'
  BY DEF InOrder
<1>1. messages \in Seq(Records) /\ Len(messages) \in Nat
  BY DEF TypeOK
<1>2. /\ Len(messages') = Len(messages) + 1
      /\ \A h \in 1..Len(messages) : messages'[h] = messages[h]
      /\ messages'[Len(messages) + 1] = r
  BY <1>1, OneAppended
<1>3. i \in 1..Len(messages) /\ messages'[i] = messages[i]
  BY <1>1, <1>2
<1>4. CASE j \in 1..Len(messages)
  <2>1. messages'[j] = messages[j] /\ OlderThan(messages[i], messages[j])
    BY <1>2, <1>4 DEF InOrder
  <2> QED BY <1>3, <2>1 DEF OlderThan
<1>5. CASE j = Len(messages) + 1
  <2>1. messages'[j] = r
    BY <1>2, <1>5
  <2> QED BY <1>3, <2>1 DEF OlderThan
<1> QED BY <1>1, <1>2, <1>4, <1>5

\* Every step keeps VersionsInv.
LEMMA VersionsStep ==
    ASSUME TypeOK, RecordsInv, ScanInv, VersionsInv, Next
    PROVE  VersionsInv'
<1>0. /\ InOrder /\ messages \in Seq(Records) /\ Len(messages) \in Nat
      /\ Len(messages) \in 0..Len(messages)
  BY DEF VersionsInv, InOrder, TypeOK
<1>1. ASSUME NEW f \in Files, Read(f)
      PROVE  VersionsInv'
  <2>1. /\ stamp[f] \in Nat /\ files[f] \in States /\ pending = None
        /\ pending' = None /\ UNCHANGED stamp
    BY <1>1 DEF TypeOK, Read, Idle
  <2>2. PICK ok \in BOOLEAN : Answered("read", f, files[f], ok, stamp[f])
    BY <1>1 DEF Read
  <2>3. nextId <= MaxActions
    BY <1>1 DEF Read
  <2>4. PICK r \in Records : messages' = Append(messages, r) /\ r.tool = "read"
    BY <2>1, <2>2, <2>3, AnsweredTypes
  <2>5. InOrder'
    BY <1>0, <2>1, <2>4, OrderAfterAnswer
  <2> QED BY <2>1, <2>5 DEF VersionsInv, InOrder
<1>2. ASSUME NEW f \in Files, NEW b \in Bytes, StartWrite(f, b)
      PROVE  VersionsInv'
  <2>1. UNCHANGED <<messages, stamp>> /\ pending'.done = FALSE
    BY <1>2 DEF StartWrite
  <2>2. InOrder'
    BY <1>0, <2>1, OrderKept
  <2> QED BY <2>1, <2>2 DEF VersionsInv, InOrder
<1>3. ASSUME CommitWrite
      PROVE  VersionsInv'
  <2>1. /\ pending \in Writes /\ UNCHANGED messages
        /\ Put(pending.file, pending.content)
        /\ pending.content \in States /\ pending.file \in Files
        /\ pending'.file = pending.file
    BY <1>3 DEF CommitWrite, TypeOK, States
  <2>2. InOrder'
    BY <1>0, <2>1, OrderKept
  <2>3. ASSUME NEW i \in 1..Len(messages), messages[i].tool = "read",
               messages[i].file = pending.file
        PROVE  messages[i].version < stamp'[pending.file]
    <3>1. messages[i] \in Records /\ Current(messages[i])
      BY <1>0 DEF RecordsInv
    <3>2. messages[i].version <= stamp[pending.file]
      BY <2>3, <3>1 DEF Current
    <3>3. /\ stamp'[pending.file] = stamp[pending.file] + 1
          /\ stamp[pending.file] \in Nat
      BY <2>1 DEF Put, TypeOK
    <3>4. messages[i].version \in Nat
      BY <3>1 DEF Records
    <3> QED BY <3>2, <3>3, <3>4
  <2> QED BY <2>1, <2>2, <2>3 DEF VersionsInv, InOrder
<1>4. ASSUME \/ RecordWrite \/ FailWrite
             \/ Crash /\ pending # None
      PROVE  VersionsInv'
  <2>1. /\ pending \in Writes /\ pending # None /\ UNCHANGED stamp
        /\ pending' = None
        /\ pending.content \in States /\ pending.file \in Files
    BY <1>4 DEF RecordWrite, FailWrite, Crash, Restart, TypeOK, States
  <2>2. PICK ok \in BOOLEAN :
           /\ Answered("write", pending.file, pending.content, ok, 0)
           /\ ok => pending.done
    BY <1>4 DEF RecordWrite, FailWrite, Crash
  <2>3. PICK r \in Records :
           /\ messages' = Append(messages, r)
           /\ r.tool = "write" /\ r.file = pending.file /\ r.ok = ok
    BY <2>1, <2>2, AnsweredTypes
  <2>4. InOrder'
    BY <1>0, <2>1, <2>2, <2>3, OrderAfterAnswer DEF VersionsInv
  <2> QED BY <2>1, <2>4 DEF VersionsInv, InOrder
<1>5. ASSUME NEW f \in Files, NEW c \in Bytes \cup {Absent}, UserEdit(f, c)
      PROVE  VersionsInv'
  <2>1. /\ Put(f, c) /\ c \in States /\ UNCHANGED messages
        /\ pending' # None => pending # None
        /\ pending # None => /\ pending'.done = pending.done
                             /\ pending'.file = pending.file
    BY <1>5 DEF UserEdit, TypeOK, States
  <2>2. InOrder'
    BY <1>0, <2>1, OrderKept
  <2>3. ASSUME pending # None, pending.done, NEW i \in 1..Len(messages),
               messages[i].tool = "read", messages[i].file = pending.file
        PROVE  messages[i].version < stamp'[pending.file]
    <3>1. messages[i].version < stamp[pending.file]
      BY <2>3 DEF VersionsInv
    <3>2. messages[i] \in Records /\ pending.file \in Files
      BY <1>0, <2>3 DEF TypeOK
    <3>3. /\ stamp[pending.file] \in Nat /\ stamp'[pending.file] \in Nat
          /\ stamp[pending.file] <= stamp'[pending.file]
      BY <2>1, <3>2, StampsGrow
    <3> QED BY <3>1, <3>2, <3>3 DEF Records
  <2> QED BY <2>1, <2>2, <2>3 DEF VersionsInv, InOrder
<1>6. ASSUME \/ \E c \in 0..Len(messages) : Preview(c) \/ PlainRewind(c)
             \/ ConfirmRewind
      PROVE  VersionsInv'
  BY <1>6 DEF VersionsInv, OlderThan, Preview, PlainRewind, ConfirmRewind,
              BeginRewind, Idle, disk
<1>7. ASSUME NEW f \in Files, NEW x \in States,
             UNCHANGED messages, UNCHANGED stamp \/ Put(f, x),
             pending' = None
      PROVE  VersionsInv'
  <2>1. InOrder'
    BY <1>0, <1>7, OrderKept
  <2> QED BY <1>7, <2>1 DEF VersionsInv, InOrder
<1>8. ASSUME UndoNext \/ RestoreFails \/ CrashInRestore
      PROVE  VersionsInv'
  <2>1. /\ pc = "scan" /\ next > cutoff /\ pending' = None
        /\ UNCHANGED messages
    BY <1>8, NoWriteThen DEF UndoNext, RestoreFails, CrashInRestore, Restart
  <2>2. messages[next].file \in Files /\ Torn \in States
    BY <2>1, LookAt DEF Records, States
  <2>3. \/ UNCHANGED stamp
        \/ \E x \in States : Put(messages[next].file, x)
    BY <1>8, <2>1, <2>2, LookAt DEF UndoNext, RestoreFails, CrashInRestore
  <2> QED BY <1>7, <2>1, <2>2, <2>3
<1>9. ASSUME \/ EndScan \/ PruneEvents \/ BindFails \/ CrashInPrune
             \/ Crash /\ pending = None
      PROVE  VersionsInv'
  <2>1. pending' = None /\ UNCHANGED <<messages, stamp>>
    BY <1>9, NoWriteThen
       DEF EndScan, PruneEvents, BindFails, CrashInPrune, Crash, Restart, disk
  <2>2. InOrder'
    BY <1>0, <2>1, OrderKept
  <2> QED BY <2>1, <2>2 DEF VersionsInv, InOrder
<1>10. ASSUME SaveRewound
       PROVE  VersionsInv'
  <2>1. /\ cutoff \in 0..Len(messages) /\ cutoff \in Nat
        /\ messages' = SubSeq(messages, 1, cutoff)
        /\ pending' = None /\ UNCHANGED stamp
    BY <1>0, <1>10, NoWriteThen DEF TypeOK, ScanInv, SaveRewound, Kept
  <2>2. /\ Len(messages') = cutoff
        /\ \A i \in 1..cutoff : messages'[i] = messages[i]
    BY <1>0, <2>1, CutOff
  <2>3. InOrder'
    BY <1>0, <2>1, <2>2, OrderKept
  <2> QED BY <2>1, <2>3 DEF VersionsInv, InOrder
<1> QED
  BY <1>1, <1>2, <1>3, <1>4, <1>5, <1>6, <1>8, <1>9, <1>10
     DEF Next, AgentStep, UserStep, RewindStep

----------------------------------------------------------------------------
(* ForeseenInv: the preview and the scan.                                   *)

AheadIs ==
    \A st : \A n, c \in Nat : c <= n =>
        \A k \in 0..n - c :
            Ahead(st, n, c)[k] =
                IF k = 0 THEN st
                ELSE Look(Ahead(st, n, c)[k - 1], messages[n + 1 - k])

\* The recursion of Ahead defines it: otherwise there would be a least number
\* of messages for which it has no solution.
LEMMA AheadByRecursion == AheadIs
<1> SUFFICES ASSUME NEW st, NEW n \in Nat, NEW c \in Nat, c <= n
             PROVE  \A k \in 0..n - c :
                       Ahead(st, n, c)[k] =
                          IF k = 0 THEN st
                          ELSE Look(Ahead(st, n, c)[k - 1],
                                    messages[n + 1 - k])
  BY DEF AheadIs
<1> DEFINE Is(N, g) ==
              g = [k \in 0..N |-> IF k = 0 THEN st
                                  ELSE Look(g[k - 1], messages[n + 1 - k])]
           Bad == {N \in Nat : ~ \E g : Is(N, g)}
<1>1. Bad = {}
  <2> SUFFICES ASSUME Bad # {} PROVE FALSE
    OBVIOUS
  <2>1. PICK N \in Bad : \A M \in Bad : N <= M
    BY LeastExists, Bad \subseteq Nat
  <2>2. N # 0
    <3>1. Is(0, [k \in 0..0 |-> st])
      OBVIOUS
    <3> QED BY <2>1, <3>1
  <2>3. N - 1 \in Nat /\ ~(N <= N - 1)
    BY <2>1, <2>2
  <2>4. PICK g : Is(N - 1, g)
    BY <2>1, <2>3
  <2> DEFINE h == [k \in 0..N |->
                      IF k = N THEN Look(g[N - 1], messages[n + 1 - N])
                      ELSE g[k]]
  <2>5. ASSUME NEW k \in 0..N
        PROVE  h[k] = IF k = 0 THEN st
                      ELSE Look(h[k - 1], messages[n + 1 - k])
    <3>1. CASE k = N
      <4>1. h[k - 1] = g[N - 1]
        BY <2>3, <3>1
      <4> QED BY <2>2, <3>1, <4>1
    <3>2. CASE k # N
      <4>1. k \in 0..N - 1 /\ h[k] = g[k]
        BY <2>3, <3>2
      <4>2. k # 0 => h[k - 1] = g[k - 1]
        BY <2>3, <3>2
      <4> HIDE DEF h
      <4>3. g[k] = IF k = 0 THEN st ELSE Look(g[k - 1], messages[n + 1 - k])
        BY <2>4, <4>1
      <4> QED BY <4>1, <4>2, <4>3
    <3> QED BY <3>1, <3>2
  <2>6. Is(N, h)
    BY <2>5
  <2> QED BY <2>1, <2>6
<1>2. n - c \in Nat
  OBVIOUS
<1>3. \E g : Is(n - c, g)
  BY <1>1, <1>2
<1>4. Is(n - c, Ahead(st, n, c))
  BY <1>3 DEF Ahead
<1>5. PICK g : g = Ahead(st, n, c)
  OBVIOUS
<1>6. Is(n - c, g)
  BY <1>4, <1>5
<1>7. \A k \in 0..n - c :
         g[k] = IF k = 0 THEN st ELSE Look(g[k - 1], messages[n + 1 - k])
  BY <1>6
<1> QED BY <1>5, <1>7

\* So it does after a step.
LEMMA AheadByRecursionThen == AheadIs'
BY AheadByRecursion, PTL

\* What the scan may know: the files, the writes undone and those warned about.
Knowledge == [virtual  : [Files -> States \cup {None}],
              restored : SUBSET Records, warned : SUBSET Records]

\* Two such states that agree on a file.
SameOn(f, p, q) == /\ p.virtual[f] = q.virtual[f]
                   /\ On(f, p.restored) = On(f, q.restored)
                   /\ On(f, p.warned) = On(f, q.warned)

LookLearns ==
    \A q \in Knowledge, m \in Records :
        (m.tool = "write" /\ m.ok => snapshots[m.id].before \in States)
        => /\ Look(q, m) \in Knowledge
           /\ \A f \in Files :
                 /\ q.virtual[f] # None => Look(q, m).virtual[f] # None
                 /\ f # m.file => SameOn(f, q, Look(q, m))

\* What a message changes of what is known: its file becomes known, or stays
\* unknown, and nothing changes for the others.
LEMMA LookOnlyLearns == LookLearns
<1> SUFFICES ASSUME NEW q \in Knowledge, NEW m \in Records,
                    m.tool = "write" /\ m.ok
                       => snapshots[m.id].before \in States
             PROVE  /\ Look(q, m) \in Knowledge
                    /\ \A f \in Files :
                          /\ q.virtual[f] # None
                                => Look(q, m).virtual[f] # None
                          /\ f # m.file => SameOn(f, q, Look(q, m))
  BY DEF LookLearns
<1>1. /\ q.virtual \in [Files -> States \cup {None}] /\ m.file \in Files
      /\ q.restored \subseteq Records /\ q.warned \subseteq Records
  BY DEF Knowledge, Records
<1>2. CASE m.tool = "write" /\ Undoes(q, m)
  <2>1. PICK before \in States : before = snapshots[m.id].before
    BY <1>2 DEF Undoes
  <2>2. before # None
    BY RewindAssumption DEF States
  <2>3. Look(q, m) = [virtual  |-> [q.virtual EXCEPT ![m.file] = before],
                      restored |-> q.restored \cup {m},
                      warned   |-> q.warned]
    BY <1>2, <2>1 DEF Look
  <2>4. Look(q, m) \in Knowledge
    BY <1>1, <2>3 DEF Knowledge
  <2>5. ASSUME NEW f \in Files
        PROVE  /\ q.virtual[f] # None => Look(q, m).virtual[f] # None
               /\ f # m.file => SameOn(f, q, Look(q, m))
    BY <1>1, <2>2, <2>3 DEF SameOn, On
  <2> QED BY <2>4, <2>5
<1>3. CASE m.tool = "write" /\ ~Undoes(q, m)
  <2>1. Look(q, m) = [virtual |-> q.virtual, restored |-> q.restored,
                      warned |-> q.warned \cup {m}]
    BY <1>3 DEF Look, Knowledge
  <2> QED BY <1>1, <2>1 DEF Knowledge, SameOn, On
<1>4. CASE m.tool = "read"
  BY <1>4 DEF Look, SameOn
<1> QED BY <1>2, <1>3, <1>4 DEF Records

\* So it does after a step.
LEMMA LookOnlyLearnsThen == LookLearns'
BY LookOnlyLearns, PTL

\* The messages of the ledger are such ones.
LEMMA Undoable ==
    ASSUME TypeOK, RecordsInv, NEW i \in 1..Len(messages)
    PROVE  /\ messages[i] \in Records
           /\ messages[i].tool = "write" /\ messages[i].ok
                 => snapshots[messages[i].id].before \in States
<1>1. messages[i] \in Records
  BY DEF TypeOK
<1>2. ASSUME messages[i].tool = "write", messages[i].ok
      PROVE  snapshots[messages[i].id].before \in States
  <2>1. snapshots[messages[i].id] # None /\ messages[i].id \in Ids
    BY <1>1, <1>2 DEF RecordsInv, Traced, Records
  <2> QED BY <2>1 DEF TypeOK, Snapshots
<1> QED BY <1>1, <1>2

\* A message tells two states that agree on a file the same of it, after a step
\* that changed the file only if it was known.
LEMMA LookAgrees ==
    ASSUME UNCHANGED snapshots, NEW f \in Files, NEW m \in Records,
           NEW p \in Knowledge, NEW q \in Knowledge, SameOn(f, p, q),
           m.tool = "write" /\ m.ok => snapshots[m.id].before \in States,
           p.virtual[f] = None => files'[f] = files[f]
    PROVE  /\ SameOn(f, Look(p, m)', Look(q, m))
           /\ Look(p, m)' \in Knowledge /\ Look(q, m) \in Knowledge
           /\ p.virtual[f] # None => Look(p, m)'.virtual[f] # None
<1>1. /\ Look(q, m) \in Knowledge
      /\ f # m.file => SameOn(f, q, Look(q, m))
  BY LookOnlyLearns DEF LookLearns
<1>2. /\ Look(p, m)' \in Knowledge
      /\ p.virtual[f] # None => Look(p, m)'.virtual[f] # None
      /\ f # m.file => SameOn(f, p, Look(p, m)')
  BY LookOnlyLearnsThen DEF LookLearns
<1>3. CASE m.file = f
  <2> SUFFICES SameOn(f, Look(p, m)', Look(q, m))
    BY <1>1, <1>2
  <2>1. Holds(p, f)' = Holds(q, f)
    BY DEF Holds, SameOn
  <2>2. Undoes(p, m)' <=> Undoes(q, m)
    BY <1>3, <2>1 DEF Undoes
  <2>3. CASE m.tool = "write" /\ Undoes(q, m)
    <3>1. PICK before \in States : before = snapshots[m.id].before
      BY <2>3 DEF Undoes
    <3>2. /\ Look(p, m)' = [virtual  |-> [p.virtual EXCEPT ![f] = before],
                            restored |-> p.restored \cup {m},
                            warned   |-> p.warned]
          /\ Look(q, m) = [virtual  |-> [q.virtual EXCEPT ![f] = before],
                           restored |-> q.restored \cup {m},
                           warned   |-> q.warned]
      BY <1>3, <2>2, <2>3, <3>1 DEF Look
    <3> QED BY <3>2 DEF SameOn, On, Knowledge
  <2>4. CASE m.tool = "write" /\ ~Undoes(q, m)
    <3>1. /\ Look(p, m)' = [virtual |-> p.virtual, restored |-> p.restored,
                            warned |-> p.warned \cup {m}]
          /\ Look(q, m) = [virtual |-> q.virtual, restored |-> q.restored,
                           warned |-> q.warned \cup {m}]
      BY <2>2, <2>4 DEF Look, Knowledge
    <3> QED BY <3>1 DEF SameOn, On
  <2>5. CASE m.tool = "read"
    BY <2>5 DEF Look
  <2> QED BY <2>3, <2>4, <2>5 DEF Records
<1>4. CASE m.file # f
  BY <1>1, <1>2, <1>4 DEF SameOn
<1> QED BY <1>3, <1>4

\* A dry run that begins now with q, and one that begins d messages later, after
\* the step, with st: where st agrees on f with what the first knows by then,
\* and the step changed f only if it was known, they end in agreement on f.
LEMMA DryRunsAgree ==
    ASSUME TypeOK, RecordsInv, UNCHANGED <<messages, snapshots>>,
           NEW q \in Knowledge, NEW st \in Knowledge, NEW f \in Files,
           NEW n \in Nat, NEW c \in Nat, NEW d \in {0, 1},
           c + d <= n, n <= Len(messages),
           SameOn(f, st, IF d = 0 THEN q ELSE Look(q, messages[n])),
           st.virtual[f] = None => files'[f] = files[f]
    PROVE  /\ SameOn(f, DryRun(st, n - d, c)', DryRun(q, n, c))
           /\ st.virtual[f] # None
                 => DryRun(st, n - d, c)'.virtual[f] # None
<1>0. /\ Len(messages) \in Nat
      /\ n - d \in Nat /\ c <= n /\ c <= n - d
      /\ n - c \in Nat /\ (n - d) - c \in Nat /\ (n - d) - c + d = n - c
  BY DEF TypeOK
<1>1. PICK A : A = Ahead(q, n, c)
  OBVIOUS
<1>2. PICK B : B = Ahead(st, n - d, c)'
  OBVIOUS
<1>3. \A k \in 0..n - c :
         A[k] = IF k = 0 THEN q ELSE Look(A[k - 1], messages[n + 1 - k])
  <2>1. \A k \in 0..n - c :
           Ahead(q, n, c)[k] =
              IF k = 0 THEN q
              ELSE Look(Ahead(q, n, c)[k - 1], messages[n + 1 - k])
    BY <1>0, AheadByRecursion DEF AheadIs
  <2> QED BY <1>1, <2>1
<1>4. \A k \in 0..(n - d) - c :
         B[k] = IF k = 0 THEN st
                ELSE Look(B[k - 1], messages[(n - d) + 1 - k])'
  BY <1>0, <1>2, AheadByRecursionThen DEF AheadIs
<1> DEFINE N == (n - d) - c
           Agree(k) == /\ B[k] \in Knowledge /\ A[k + d] \in Knowledge
                       /\ SameOn(f, B[k], A[k + d])
                       /\ st.virtual[f] # None => B[k].virtual[f] # None
           Bad == {k \in 0..N : ~Agree(k)}
<1>5. Bad = {}
  <2> SUFFICES ASSUME Bad # {} PROVE FALSE
    OBVIOUS
  <2>1. PICK k \in Bad : \A j \in Bad : k <= j
    BY LeastExists, Bad \subseteq Nat
  <2>2. k # 0
    <3>1. B[0] = st
      BY <1>0, <1>4
    <3>2. A[d] \in Knowledge /\ SameOn(f, st, A[d])
      <4>1. CASE d = 0
        BY <1>0, <1>3, <4>1
      <4>2. CASE d = 1
        <5>1. n \in 1..Len(messages) /\ 1 \in 0..n - c /\ 0 \in 0..n - c
          BY <1>0, <4>2
        <5>2. A[0] = q /\ A[1] = Look(A[0], messages[n])
          BY <1>3, <5>1
        <5>3. Look(q, messages[n]) \in Knowledge
          BY <5>1, Undoable, LookOnlyLearns DEF LookLearns
        <5> QED BY <4>2, <5>2, <5>3
      <4> QED BY <4>1, <4>2
    <3>3. Agree(0)
      BY <3>1, <3>2
    <3> QED BY <2>1, <3>3
  <2>3. /\ k - 1 \in 0..N /\ ~(k <= k - 1) /\ k \in 0..N
        /\ k + d \in 0..n - c /\ k + d # 0 /\ (k + d) - 1 = (k - 1) + d
    BY <1>0, <2>1, <2>2
  <2>4. Agree(k - 1)
    BY <2>1, <2>3
  <2>5. PICK p \in Knowledge : p = B[k - 1]
    BY <2>4
  <2>6. PICK r \in Knowledge : r = A[(k - 1) + d]
    BY <2>4
  <2>7. PICK i \in 1..Len(messages) :
           i = (n - d) + 1 - k /\ i = n + 1 - (k + d)
    BY <1>0, <2>3
  <2>8. PICK m \in Records :
           /\ m = messages[i]
           /\ m.tool = "write" /\ m.ok => snapshots[m.id].before \in States
    BY Undoable
  <2>9. A[k + d] = Look(r, m)
    BY <1>3, <2>3, <2>6, <2>7, <2>8
  <2>10. B[k] = Look(p, m)'
    <3>1. B[k] = Look(B[k - 1], messages[(n - d) + 1 - k])'
      BY <1>4, <2>2, <2>3
    <3>2. messages'[(n - d) + 1 - k] = m
      BY <2>7, <2>8
    <3> QED BY <2>5, <3>1, <3>2 DEF Look, Undoes, Holds
  <2>11. SameOn(f, p, r) /\ (st.virtual[f] # None => p.virtual[f] # None)
    BY <2>4, <2>5, <2>6
  <2>12. /\ SameOn(f, Look(p, m)', Look(r, m))
         /\ Look(p, m)' \in Knowledge /\ Look(r, m) \in Knowledge
         /\ p.virtual[f] # None => Look(p, m)'.virtual[f] # None
    BY <2>8, <2>11, LookAgrees
  <2>13. Agree(k)
    BY <2>9, <2>10, <2>11, <2>12
  <2> QED BY <2>1, <2>13
<1>6. N \in 0..N
  BY <1>0
<1>7. Agree(N)
  BY <1>5, <1>6
<1>8. DryRun(q, n, c) = A[n - c] /\ DryRun(st, n - d, c)' = B[N]
  BY <1>1, <1>2 DEF DryRun
<1> QED BY <1>0, <1>7, <1>8

\* Whether a file has stale reads stays the same in a step that made it newer
\* only if it is known.
LEMMA SameStale ==
    ASSUME TypeOK, VersionsInv, UNCHANGED messages, NEW f \in Files,
           NEW c \in 0..Len(messages), NEW virt, NEW before,
           virt[f] = before[f],
           \/ stamp'[f] = stamp[f]
           \/ virt[f] # None /\ stamp'[f] = stamp[f] + 1
    PROVE  f \in StaleReads(c, virt)' <=> f \in StaleReads(c, before)
<1>1. ASSUME NEW i \in 1..c, messages[i].file = f
      PROVE  StaleRead(i, c, virt)' <=> StaleRead(i, c, before)
  <2>1. PICK m \in Records : m = messages[i] /\ m = messages'[i]
    BY <1>1 DEF TypeOK
  <2>2. m.file = f /\ m.version \in Nat /\ stamp[f] \in Nat
    BY <1>1, <2>1 DEF TypeOK, Records
  <2>3. WrittenLater(i, c)' <=> WrittenLater(i, c)
    BY DEF WrittenLater
  <2>4. m.tool = "read" /\ WrittenLater(i, c) => m.version < stamp[f]
    <3> SUFFICES ASSUME m.tool = "read", WrittenLater(i, c)
                 PROVE  m.version < stamp[f]
      OBVIOUS
    <3>1. PICK j \in i + 1..c :
             /\ messages[j].tool = "write" /\ messages[j].ok
             /\ messages[j].file = m.file
      BY <2>1 DEF WrittenLater
    <3>2. j \in 1..Len(messages) /\ i \in 1..j - 1
      BY DEF TypeOK
    <3> QED BY <2>1, <2>2, <3>1, <3>2 DEF VersionsInv, OlderThan
  <2>5. CASE stamp'[f] = stamp[f]
    BY <2>1, <2>2, <2>3, <2>5 DEF StaleRead
  <2>6. CASE virt[f] # None /\ stamp'[f] = stamp[f] + 1
    <3>1. CASE WrittenLater(i, c)
      <4>1. m.tool = "read" => m.version # stamp[f]
                               /\ m.version # stamp[f] + 1
        BY <2>2, <2>4, <3>1
      <4> QED BY <2>1, <2>2, <2>3, <2>6, <3>1, <4>1 DEF StaleRead
    <3>2. CASE ~WrittenLater(i, c)
      BY <2>1, <2>2, <2>3, <2>6, <3>2 DEF StaleRead
    <3> QED BY <3>1, <3>2
  <2> QED BY <2>5, <2>6
<1> QED BY <1>1 DEF StaleReads

\* Together: what is foretold of the file stays the same.
LEMMA ForetoldAgrees ==
    ASSUME TypeOK, RecordsInv, VersionsInv,
           UNCHANGED <<messages, snapshots>>,
           NEW q \in Knowledge, NEW st \in Knowledge, NEW f \in Files,
           NEW n \in Nat, NEW c \in Nat, NEW d \in {0, 1},
           c + d <= n, n <= Len(messages),
           SameOn(f, st, IF d = 0 THEN q ELSE Look(q, messages[n])),
           \/ files'[f] = files[f] /\ stamp'[f] = stamp[f]
           \/ st.virtual[f] # None /\ stamp'[f] = stamp[f] + 1
    PROVE  About(f, Foretold(st, n - d, c)') = About(f, Foretold(q, n, c))
<1>1. PICK end : end = DryRun(q, n, c)
  OBVIOUS
<1>2. PICK later : later = DryRun(st, n - d, c)'
  OBVIOUS
<1>3. /\ SameOn(f, later, end)
      /\ st.virtual[f] # None => later.virtual[f] # None
  BY <1>1, <1>2, DryRunsAgree
<1>4. PICK virt : virt = later.virtual
  OBVIOUS
<1>5. PICK before : before = end.virtual
  OBVIOUS
<1>6. c \in 0..Len(messages)
  BY DEF TypeOK
<1>7. f \in StaleReads(c, virt)' <=> f \in StaleReads(c, before)
  <2>1. virt[f] = before[f] /\ (st.virtual[f] # None => virt[f] # None)
    BY <1>3, <1>4, <1>5 DEF SameOn
  <2> QED BY <1>6, <2>1, SameStale
<1>8. Foretold(q, n, c) =
         [restored |-> end.restored, warned |-> end.warned,
          issues |-> StaleReads(c, before)]
  BY <1>1, <1>5 DEF Foretold
<1>9. Foretold(st, n - d, c)' =
         [restored |-> later.restored, warned |-> later.warned,
          issues |-> StaleReads(c, virt)']
  BY <1>2, <1>4 DEF Foretold, StaleReads, StaleRead, WrittenLater
<1> QED BY <1>3, <1>7, <1>8, <1>9 DEF About, SameOn

\* Every step keeps ForeseenInv.
LEMMA ForeseenStep ==
    ASSUME TypeOK, RecordsInv, ScanInv, VersionsInv, ForeseenInv, Next
    PROVE  ForeseenInv'
<1>1. ASSUME ConfirmRewind
      PROVE  ForeseenInv'
  <2>1. /\ preview # None /\ preview.cutoff \in Nat
        /\ preview.cutoff <= Len(messages) /\ Len(messages) \in Nat
        /\ preview.token = Token(preview.cutoff)
        /\ BeginRewind(preview.cutoff, preview.token)
    BY <1>1 DEF ConfirmRewind, TypeOK, RecordsInv
  <2>2. PICK n \in Nat : n = Len(messages)
    BY <2>1
  <2>3. PICK c \in Nat : c = preview.cutoff
    BY <2>1
  <2>4. PICK q \in Knowledge : q = AtFirst
    BY DEF AtFirst, Unseen, Knowledge
  <2>5. /\ pc' = "scan" /\ cutoff' = c /\ next' = n /\ Known' = q
        /\ promised' = Foretold(q, n, c)
        /\ UNCHANGED <<messages, snapshots, files, stamp>>
    BY <2>1, <2>2, <2>3, <2>4 DEF BeginRewind, Known, AtFirst, Token, Unseen
  <2>6. PICK d \in {0, 1} : d = 0
    OBVIOUS
  <2>7. ASSUME NEW f \in Files
        PROVE  About(f, Foretold(q, n - d, c)') = About(f, Foretold(q, n, c))
    <3>1. SameOn(f, q, IF d = 0 THEN q ELSE Look(q, messages[n]))
      BY <2>6 DEF SameOn
    <3> QED BY <2>1, <2>2, <2>3, <2>5, <2>6, <3>1, ForetoldAgrees
  <2>8. n - d = n
    BY <2>6
  <2>9. Foretold(Known, next, cutoff)' = Foretold(q, n, c)'
    BY <2>5 DEF Foretold, DryRun, Ahead
  <2> QED BY <2>5, <2>7, <2>8, <2>9 DEF ForeseenInv
<1>2. ASSUME UndoNext \/ RestoreFails, promised # None
      PROVE  ForeseenInv'
  <2>1. /\ pc = "scan" /\ pc' = "scan" /\ next > cutoff /\ next' = next - 1
        /\ UNCHANGED <<messages, snapshots, cutoff, promised>>
        /\ next \in Nat /\ cutoff \in Nat /\ next <= Len(messages)
        /\ next \in 1..Len(messages)
        /\ failed \subseteq failed' /\ warned \subseteq warned'
    BY <1>2, LookAt, UndoWarns DEF UndoNext, RestoreFails, TypeOK, ScanInv
  <2>2. PICK n \in Nat : n = next
    BY <2>1
  <2>3. PICK c \in Nat : c = cutoff
    BY <2>1
  <2>4. PICK q \in Knowledge : q = Known
    BY DEF Known, TypeOK, Knowledge
  <2>5. PICK m \in Records :
           /\ m = messages[n]
           /\ m.tool = "write" /\ m.ok => snapshots[m.id].before \in States
    BY <2>1, <2>2, Undoable
  <2>6. /\ Look(q, m) \in Knowledge
        /\ \A f \in Files : f # m.file => SameOn(f, q, Look(q, m))
    BY <2>5, LookOnlyLearns DEF LookLearns
  <2>7. PICK d \in {0, 1} : d = 1
    OBVIOUS
  <2>8. c + d <= n /\ n <= Len(messages)
    BY <2>1, <2>2, <2>3, <2>7
  <2>9. ASSUME NEW st \in Knowledge, st = Known', NEW f \in Files, ~ToldOf(f)',
               SameOn(f, st, Look(q, m)),
               \/ files'[f] = files[f] /\ stamp'[f] = stamp[f]
               \/ st.virtual[f] # None /\ stamp'[f] = stamp[f] + 1
        PROVE  About(f, promised') = About(f, Foretold(Known, next, cutoff)')
    <3>1. ~ToldOf(f)
      BY <2>1, <2>9, ToldStays
    <3>2. About(f, promised) = About(f, Foretold(q, n, c))
      BY <1>2, <2>1, <2>2, <2>3, <2>4, <3>1 DEF ForeseenInv
    <3>3. About(f, Foretold(st, n - d, c)') = About(f, Foretold(q, n, c))
      <4>1. SameOn(f, st, IF d = 0 THEN q ELSE Look(q, messages[n]))
        BY <2>5, <2>7, <2>9
      <4> QED BY <2>1, <2>8, <2>9, <4>1, ForetoldAgrees
    <3>4. Foretold(Known, next, cutoff)' = Foretold(st, n - d, c)'
      BY <2>1, <2>2, <2>3, <2>7, <2>9 DEF Foretold, DryRun, Ahead
    <3> QED BY <2>1, <3>2, <3>3, <3>4
  <2>10. CASE UndoNext
    <3>1. PICK st \in Knowledge : st = Look(q, m)
      BY <2>6
    <3>2. st = Known'
      <4>1. /\ virtual' = st.virtual /\ restored' = st.restored
            /\ warned' = st.warned
        BY <2>2, <2>4, <2>5, <2>10, <3>1 DEF UndoNext
      <4> QED BY <4>1 DEF Known, Knowledge
    <3>3. ASSUME NEW f \in Files
          PROVE  \/ files'[f] = files[f] /\ stamp'[f] = stamp[f]
                 \/ st.virtual[f] # None /\ stamp'[f] = stamp[f] + 1
      <4>1. CASE m.tool = "write" /\ Undoes(q, m)
        <5>1. /\ snapshots[m.id].before \in States
              /\ st.virtual = [virtual EXCEPT ![m.file] =
                                  snapshots[m.id].before]
          BY <2>4, <2>5, <3>1, <4>1 DEF Look, Known, Undoes
        <5>2. m.file \in Files /\ snapshots[m.id].before # None
          BY <5>1, RewindAssumption DEF States, Records
        <5>3. st.virtual[m.file] # None
          BY <5>1, <5>2 DEF TypeOK
        <5>4. Put(m.file, snapshots[m.id].before)
          BY <2>2, <2>4, <2>5, <2>10, <4>1 DEF UndoNext
        <5> QED BY <5>2, <5>3, <5>4 DEF Put, TypeOK
      <4>2. CASE ~(m.tool = "write" /\ Undoes(q, m))
        BY <2>2, <2>4, <2>5, <2>10, <4>2 DEF UndoNext
      <4> QED BY <4>1, <4>2
    <3>4. \A f \in Files : SameOn(f, st, Look(q, m))
      BY <3>1 DEF SameOn
    <3> QED BY <2>1, <2>9, <3>2, <3>3, <3>4 DEF ForeseenInv
  <2>11. CASE RestoreFails
    <3>1. /\ UNCHANGED <<virtual, restored>>
          /\ warned' = warned \cup {m} /\ failed' = failed \cup {m}
          /\ UNCHANGED <<files, stamp>> \/ Put(m.file, Torn)
      BY <2>2, <2>5, <2>11 DEF RestoreFails
    <3>2. PICK st : st = [virtual |-> q.virtual, restored |-> q.restored,
                          warned |-> q.warned \cup {m}]
      OBVIOUS
    <3>3. st = Known' /\ st \in Knowledge
      BY <2>4, <3>1, <3>2 DEF Known, Knowledge
    <3>4. ASSUME NEW f \in Files, ~ToldOf(f)'
          PROVE  /\ SameOn(f, st, Look(q, m))
                 /\ files'[f] = files[f] /\ stamp'[f] = stamp[f]
      <4>1. f # m.file
        BY <3>1, <3>4 DEF ToldOf
      <4>2. SameOn(f, st, q)
        BY <3>2, <4>1 DEF SameOn, On
      <4>3. SameOn(f, q, Look(q, m))
        BY <2>6, <4>1
      <4>4. files'[f] = files[f] /\ stamp'[f] = stamp[f]
        BY <3>1, <4>1 DEF Put, TypeOK
      <4> QED BY <4>2, <4>3, <4>4 DEF SameOn
    <3> QED BY <2>1, <2>9, <3>3, <3>4 DEF ForeseenInv
  <2> QED BY <1>2, <2>10, <2>11
<1>3. ASSUME EndScan, promised # None
      PROVE  ForeseenInv'
  <2>1. /\ pc = "scan" /\ pc' = "prune" /\ next = cutoff /\ cutoff \in Nat
        /\ issues' = StaleReads(cutoff, virtual)
        /\ UNCHANGED <<restored, warned, failed, promised>>
    BY <1>3 DEF EndScan, TypeOK
  <2>2. Ahead(Known, cutoff, cutoff)[0] = Known
    <3>1. 0 \in 0..cutoff - cutoff /\ cutoff <= cutoff
      BY <2>1
    <3> QED BY <2>1, <3>1, AheadByRecursion DEF AheadIs
  <2>3. DryRun(Known, next, cutoff) = Known
    BY <2>1, <2>2 DEF DryRun
  <2>4. Foretold(Known, next, cutoff) =
           [restored |-> restored, warned |-> warned,
            issues |-> StaleReads(cutoff, virtual)]
    BY <2>3 DEF Foretold, Known
  <2>5. Found' = Foretold(Known, next, cutoff)
    BY <2>1, <2>4 DEF Found
  <2> QED BY <1>3, <2>1, <2>5 DEF ForeseenInv, ToldOf
<1>4. ASSUME PruneEvents
      PROVE  ForeseenInv'
  BY <1>4 DEF ForeseenInv, PruneEvents, scan, Found, ToldOf
<1>5. ASSUME NEW c \in 0..Len(messages), PlainRewind(c)
      PROVE  ForeseenInv'
  BY <1>5 DEF PlainRewind, BeginRewind, ForeseenInv
<1>6. ASSUME \/ AgentStep \/ SaveRewound \/ BindFails
             \/ Crash \/ CrashInRestore \/ CrashInPrune
             \/ \E f \in Files, c \in Bytes \cup {Absent} : UserEdit(f, c)
             \/ \E c \in 0..Len(messages) : Preview(c)
      PROVE  ForeseenInv'
  <2>1. pc' = "idle"
    BY <1>6, AgentIdle
       DEF SaveRewound, BindFails, Crash, CrashInRestore, CrashInPrune,
           Restart, Leave, UserEdit, Preview, Idle
  <2> QED BY <2>1 DEF ForeseenInv
<1>7. ASSUME UndoNext \/ RestoreFails \/ EndScan, promised = None
      PROVE  ForeseenInv'
  BY <1>7 DEF UndoNext, RestoreFails, EndScan, ForeseenInv
<1> QED
  BY <1>1, <1>2, <1>3, <1>4, <1>5, <1>6, <1>7
     DEF Next, UserStep, RewindStep

\* So does a stutter.
LEMMA ForeseenStutter ==
    ASSUME TypeOK, RecordsInv, ScanInv, VersionsInv, ForeseenInv,
           UNCHANGED vars
    PROVE  ForeseenInv'
<1>1. UNCHANGED <<files, stamp, snapshots, messages, pc, cutoff, next,
                  virtual, restored, warned, failed, issues, promised>>
  BY DEF vars, disk, scan
<1>2. CASE pc = "scan" /\ promised # None
  <2>1. /\ next \in Nat /\ cutoff \in Nat /\ cutoff <= next
        /\ next <= Len(messages)
    BY <1>2 DEF TypeOK, ScanInv
  <2>2. PICK n \in Nat : n = next
    BY <2>1
  <2>3. PICK c \in Nat : c = cutoff
    BY <2>1
  <2>4. PICK q \in Knowledge : q = Known
    BY DEF Known, TypeOK, Knowledge
  <2>5. PICK d \in {0, 1} : d = 0
    OBVIOUS
  <2>6. Known' = q
    BY <1>1, <2>4 DEF Known
  <2>7. ASSUME NEW f \in Files
        PROVE  About(f, Foretold(q, n - d, c)') = About(f, Foretold(q, n, c))
    <3>1. SameOn(f, q, IF d = 0 THEN q ELSE Look(q, messages[n]))
      BY <2>5 DEF SameOn
    <3>2. c + d <= n /\ n <= Len(messages)
      BY <2>1, <2>2, <2>3, <2>5
    <3> QED BY <1>1, <3>1, <3>2, ForetoldAgrees
  <2>8. n - d = n
    BY <2>5
  <2>9. Foretold(Known, next, cutoff)' = Foretold(q, n, c)'
    BY <1>1, <2>2, <2>3, <2>6 DEF Foretold, DryRun, Ahead
  <2>10. \A f \in Files : ~ToldOf(f) =>
            About(f, promised) = About(f, Foretold(q, n, c))
    BY <1>2, <2>2, <2>3, <2>4 DEF ForeseenInv
  <2>11. \A f \in Files : ToldOf(f)' <=> ToldOf(f)
    BY <1>1 DEF ToldOf
  <2> QED
    BY <1>1, <1>2, <2>7, <2>8, <2>9, <2>10, <2>11 DEF ForeseenInv
<1>3. CASE ~(pc = "scan" /\ promised # None)
  BY <1>1, <1>3 DEF ForeseenInv, Found, ToldOf
<1> QED BY <1>2, <1>3

----------------------------------------------------------------------------
(* The theorems.                                                            *)

\* The initial states satisfy the invariant.
LEMMA InitInv == Init => RewindInv
<1> SUFFICES ASSUME Init PROVE RewindInv
  OBVIOUS
<1>1. TypeOK
  BY InitTypes
<1>2. RecordsInv
  BY DEF Init, RecordsInv
<1>3. ScanInv /\ ProgressInv /\ StaleEvidenceIsFlagged
  BY DEF Init, ScanInv, ProgressInv, StaleEvidenceIsFlagged
<1>4. UserWorkIsKept
  BY DEF Init, UserWorkIsKept
<1>5. NoRecordIsLost /\ NoEventIsForgotten
  BY DEF Init, NoRecordIsLost, NoEventIsForgotten
<1>6. VersionsInv /\ ForeseenInv
  BY DEF Init, VersionsInv, ForeseenInv
<1> QED
  BY <1>1, <1>2, <1>3, <1>4, <1>5, <1>6 DEF RewindInv

\* Every step keeps the invariant.
LEMMA NextInv == RewindInv /\ [Next]_vars => RewindInv'
<1>1. ASSUME RewindInv, Next
      PROVE  RewindInv'
  <2>1. TypeOK'
    BY <1>1, AgentTypes, UserTypes, RewindTypes DEF RewindInv, Next
  <2>2. RecordsInv'
    BY <1>1, AgentRecords, UserRecords, RewindRecords DEF RewindInv, Next
  <2>3. ScanInv' /\ ProgressInv'
    BY <1>1, ScanStep, ProgressStep DEF RewindInv
  <2>4. UserWorkIsKept' /\ StaleEvidenceIsFlagged'
    BY <1>1, WorkStep, StaleStep DEF RewindInv
  <2>5. NoRecordIsLost' /\ NoEventIsForgotten'
    BY <1>1, RecordStep, EventStep DEF RewindInv
  <2>6. VersionsInv' /\ ForeseenInv'
    BY <1>1, VersionsStep, ForeseenStep DEF RewindInv
  <2> QED
    BY <2>1, <2>2, <2>3, <2>4, <2>5, <2>6 DEF RewindInv
<1>2. ASSUME RewindInv, UNCHANGED vars
      PROVE  RewindInv'
  <2>1. TypeOK'
    BY <1>2, StutterTypes DEF RewindInv
  <2>2. UNCHANGED <<files, stamp, snapshots, messages, revisions, updated,
                    events, archives, pending, pc, cutoff, next, virtual,
                    warned, failed, issues, preview, started, typed, written,
                    nextId>>
    BY <1>2 DEF vars, disk, scan
  <2>3. RecordsInv'
    BY <1>2, <2>2 DEF RewindInv, RecordsInv, Traced, Current, Distinct
  <2>4. ScanInv' /\ UserWorkIsKept' /\ StaleEvidenceIsFlagged'
        /\ NoRecordIsLost' /\ NoEventIsForgotten'
    BY <1>2, <2>2 DEF RewindInv, ScanInv, UserWorkIsKept,
          StaleEvidenceIsFlagged, NoRecordIsLost, NoEventIsForgotten, ToldOf
  <2>5. ProgressInv'
    BY <1>2, <2>2 DEF RewindInv, ProgressInv, Undisturbed, OnTheWay, BackTo,
                      Discarded, IsFirst, Before, ToldOf
  <2>6. VersionsInv' /\ ForeseenInv'
    BY <1>2, <2>2, ForeseenStutter
       DEF RewindInv, VersionsInv, OlderThan
  <2> QED
    BY <2>1, <2>3, <2>4, <2>5, <2>6 DEF RewindInv
<1> QED
  BY <1>1, <1>2

\* RewindInv holds in every reachable state: types, the soundness of records
\* and versions, where a scan stands, and the properties named in it.
THEOREM RewindInvariant == Spec => []RewindInv
BY InitInv, NextInv, PTL DEF Spec

\* A scan that got to its end has taken the files back to the boundary, from
\* wherever an earlier attempt had left them; a file a restore failed for is
\* half-written or in a state it had meanwhile, and the user is told.
THEOREM BoundaryIsReached == Spec => []RewindReachesTheBoundary
<1>1. RewindInv => RewindReachesTheBoundary
  <2> SUFFICES ASSUME RewindInv, pc = "prune", NEW f \in Files \ Outside,
                      Undisturbed(f), OnTheWay(f, started[f]),
                      ~(ToldOf(f) /\ (files[f] = Torn
                                      \/ OnTheWay(f, files[f]))),
                      NEW i \in Discarded(f), IsFirst(i, f)
               PROVE  files[f] = Before(i)
    BY DEF RewindReachesTheBoundary
  <2>1. BackTo(f, cutoff)
    BY DEF RewindInv, ProgressInv
  <2>2. \A j \in Discarded(f) : j \in Nat /\ j > cutoff
    BY DEF Discarded, RewindInv, TypeOK
  <2>3. PICK j \in Discarded(f) : IsFirst(j, f) /\ files[f] = Before(j)
    BY <2>1, <2>2 DEF BackTo, RewindInv, TypeOK
  <2>4. i = j
    BY <2>2, <2>3 DEF IsFirst
  <2> QED
    BY <2>3, <2>4
<1> QED
  BY <1>1, RewindInvariant, PTL

\* Neither writes, rewinds nor deaths destroy what the user put into a file.
THEOREM UserWorkSurvives == Spec => []UserWorkIsKept
<1>1. RewindInv => UserWorkIsKept
  BY DEF RewindInv
<1> QED
  BY <1>1, RewindInvariant, PTL

\* The kept branch never rests on a stale read the model is not told of, but
\* for a file that a failing restore left half-written: the user is warned.
THEOREM StaleReadsAreFlagged == Spec => []StaleEvidenceIsFlagged
<1>1. RewindInv => StaleEvidenceIsFlagged
  BY DEF RewindInv
<1> QED
  BY <1>1, RewindInvariant, PTL

\* Every answered action is in the ledger or in an archive it names.
THEOREM RecordsAreKept == Spec => []NoRecordIsLost
<1>1. RewindInv => NoRecordIsLost
  BY DEF RewindInv
<1> QED
  BY <1>1, RewindInvariant, PTL

\* The events of every action are in the log or in some archive.
THEOREM EventsAreKept == Spec => []NoEventIsForgotten
<1>1. RewindInv => NoEventIsForgotten
  BY DEF RewindInv
<1> QED
  BY <1>1, RewindInvariant, PTL

\* A rewind that was confirmed undoes, warns about and calls stale what its
\* preview said of every file no restore failed for: files edited in between
\* make the confirmation fail.
THEOREM PreviewsAreKept == Spec => []ConfirmedAsPreviewed
<1>1. RewindInv => ConfirmedAsPreviewed
  BY DEF RewindInv, ForeseenInv, ConfirmedAsPreviewed
<1> QED
  BY <1>1, RewindInvariant, PTL
=============================================================================
