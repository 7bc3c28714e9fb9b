------------------------------- MODULE Rewind -------------------------------
(***************************************************************************)
(* Going back to an earlier step of a topic.                               *)
(*                                                                         *)
(* The agent's writes replace files of the workspace, each after a         *)
(* before-image was stored (tools/artifacts.py, storage/snapshots.py).     *)
(* A rewind cuts the ledger at a boundary and undoes the writes behind it, *)
(* newest first, but only where the file still holds what the agent wrote  *)
(* (webapp.py, _rollback_discarded_effects).  A preview says beforehand    *)
(* what will happen, and the confirmation carries its token.  All of this  *)
(* runs against a user who edits the same files, and a process that dies.  *)
(*                                                                         *)
(* A rewind is one stretch of synchronous code; its steps are told apart   *)
(* since the process may die between any two of them, and since undoing a  *)
(* write may fail while the rest goes on.  That the user changes a file    *)
(* inside the few milliseconds of that scan, or between the last check and *)
(* the replacement of a write, is left out.                                *)
(***************************************************************************)
EXTENDS Naturals, Sequences

CONSTANTS
    Files,        \* files the agent writes and the user edits
    Outside,      \* those outside the workspace: their writes are not undone
    Bytes,        \* what a file may hold
    Absent,       \* the file does not exist
    Torn,         \* what a restore leaves that is cut short or fails half-way
    None,         \* nothing
    MaxActions,   \* bound: actions of the agent
    MaxEdits,     \* bound: edits of the user
    MaxRewinds,   \* bound: attempts at a rewind
    MaxCrashes    \* bound: deaths of the process

States == Bytes \cup {Absent, Torn}       \* of a file

Ids == 1..MaxActions                      \* of the agent's actions

Snapshots == [file : Files, before : States]

\* A write under way: whether its target has changed since the tool looked at
\* it, and whether the file has been replaced.
Writes == [id : Ids, file : Files, content : Bytes,
           stale : BOOLEAN, done : BOOLEAN]

ASSUME RewindAssumption ==
    /\ Outside \subseteq Files
    /\ Absent \notin Bytes /\ Torn \notin Bytes /\ None \notin Bytes
    /\ Absent # Torn /\ Absent # None /\ Torn # None
    /\ None \notin Snapshots /\ None \notin Writes
    /\ MaxActions \in Nat /\ MaxEdits \in Nat
    /\ MaxRewinds \in Nat /\ MaxCrashes \in Nat

\* A tool message with the action it answers.  For a write, content is what
\* it put there (content_sha256); for a read, what it returned, and version
\* the file's modification time and size.
Records == [id : Ids, tool : {"read", "write"}, file : Files,
            content : States, ok : BOOLEAN, version : Nat]

VARIABLES
    \* the disk
    files,        \* what each file holds
    stamp,        \* its modification time
    snapshots,    \* the before-images: for each write, the file's state
    messages,     \* the ledger as saved
    revisions,    \* Run.workflow_revisions as saved
    updated,      \* Run.updated_at, a count of saves
    events,       \* actions the event log has lines of
    archives,     \* the archived branches, by the order of their creation
    \* the process
    pending,      \* the write under way, None when the topic is idle
    pc,           \* where the rewind stands
    cutoff,       \* messages kept
    next,         \* the discarded message to be looked at
    virtual,      \* virtual_files: what the scan knows files to hold
    restored,     \* writes undone
    warned,       \* discarded writes warned about
    failed,       \* those of them whose undoing raised an error
    issues,       \* files whose retained reads are stale
    \* the browser
    preview,      \* the preview on display
    promised,     \* the preview being confirmed
    \* history
    started,      \* the files when the rewind began
    typed,        \* the last thing the user put into a file
    written,      \* what the agent ever put into a file
    nextId, edits, crashes

disk == <<files, stamp, snapshots, messages, revisions, updated, events,
          archives>>
scan == <<cutoff, next, virtual, restored, warned, failed, issues>>
vars == <<disk, pending, pc, scan, preview, promised, started, typed, written,
          nextId, edits, crashes>>

IdsOf(ms) == {ms[i].id : i \in 1..Len(ms)}

Unseen == [f \in Files |-> None]

Nowhere == [f \in Files |-> Absent]

Init ==
    /\ files \in [Files -> Bytes \cup {Absent}]
    /\ stamp = [f \in Files |-> 0]
    /\ snapshots = [i \in Ids |-> None]
    /\ messages = <<>> /\ revisions = <<>> /\ updated = 0
    /\ events = {} /\ archives = <<>>
    /\ pending = None
    /\ pc = "idle" /\ cutoff = 0 /\ next = 0 /\ virtual = Unseen
    /\ restored = {} /\ warned = {} /\ failed = {} /\ issues = {}
    /\ preview = None /\ promised = None
    /\ started = Nowhere
    /\ typed = [f \in Files |-> IF files[f] = Absent THEN None ELSE files[f]]
    /\ written = {}
    /\ nextId = 1 /\ edits = 0 /\ crashes = 0

----------------------------------------------------------------------------
(* The agent's tools and the user's editor.                                 *)

Put(f, c) ==
    /\ files' = [files EXCEPT ![f] = c]
    /\ stamp' = [stamp EXCEPT ![f] = @ + 1]

Answered(tool, f, c, ok, v) ==
    /\ messages' = Append(messages,
         [id |-> IF pending = None THEN nextId ELSE pending.id, tool |-> tool,
          file |-> f, content |-> c, ok |-> ok, version |-> v])
    /\ updated' = updated + 1

Idle == pc = "idle" /\ pending = None

\* read_file returns the whole text, with the version it was read at.
Read(f) ==
    /\ Idle /\ nextId <= MaxActions /\ files[f] # Absent
    /\ Answered("read", f, files[f], TRUE, stamp[f])
    /\ events' = events \cup {nextId}
    /\ nextId' = nextId + 1
    /\ UNCHANGED <<files, stamp, snapshots, revisions, archives, pending, pc,
                   scan, preview, promised, started, typed, written, edits,
                   crashes>>

\* A write tool takes the version of its target, then renders.
StartWrite(f, b) ==
    /\ Idle /\ nextId <= MaxActions
    /\ pending' = [id |-> nextId, file |-> f, content |-> b,
                   stale |-> FALSE, done |-> FALSE]
    /\ events' = events \cup {nextId}
    /\ nextId' = nextId + 1
    /\ UNCHANGED <<files, stamp, snapshots, messages, revisions, updated,
                   archives, pc, scan, preview, promised, started, typed,
                   written, edits, crashes>>

\* A replacement without a before-image.
Faulty_CommitWrite_NoSnapshot ==
    /\ pending # None /\ ~pending.done /\ ~pending.stale
    /\ Put(pending.file, pending.content)
    /\ written' = written \cup {<<pending.file, pending.content>>}
    /\ pending' = [pending EXCEPT !.done = TRUE]
    /\ UNCHANGED <<snapshots, messages, revisions, updated, events, archives,
                   pc, scan, preview, promised, started, typed, nextId, edits,
                   crashes>>

\* save_artifact: the version is still the one taken, the before-image is
\* stored, the file is replaced atomically.
CommitWrite ==
    /\ pending # None /\ ~pending.done /\ ~pending.stale
    /\ snapshots' = [snapshots EXCEPT ![pending.id] =
                        [file |-> pending.file, before |-> files[pending.file]]]
    /\ Put(pending.file, pending.content)
    /\ written' = written \cup {<<pending.file, pending.content>>}
    /\ pending' = [pending EXCEPT !.done = TRUE]
    /\ UNCHANGED <<messages, revisions, updated, events, archives, pc, scan,
                   preview, promised, started, typed, nextId, edits, crashes>>

\* The result, with snapshot_id and content_sha256, is saved.
RecordWrite ==
    /\ pending # None /\ pending.done
    /\ Answered("write", pending.file, pending.content, TRUE, 0)
    /\ pending' = None
    /\ UNCHANGED <<files, stamp, snapshots, revisions, events, archives, pc,
                   scan, preview, promised, started, typed, written, nextId,
                   edits, crashes>>

\* The target changed while the tool was rendering, or the task is cancelled.
FailWrite ==
    /\ pending # None /\ ~pending.done
    /\ Answered("write", pending.file, pending.content, FALSE, 0)
    /\ pending' = None
    /\ UNCHANGED <<files, stamp, snapshots, revisions, events, archives, pc,
                   scan, preview, promised, started, typed, written, nextId,
                   edits, crashes>>

\* The user changes, creates or deletes a file with another program.
UserEdit(f, c) ==
    /\ pc = "idle" /\ edits < MaxEdits /\ c # files[f]
    /\ Put(f, c)
    /\ typed' = [typed EXCEPT ![f] = IF c = Absent THEN None ELSE c]
    /\ pending' = IF pending # None /\ pending.file = f
                  THEN [pending EXCEPT !.stale = TRUE] ELSE pending
    /\ edits' = edits + 1
    /\ UNCHANGED <<snapshots, messages, revisions, updated, events, archives,
                   pc, scan, preview, promised, started, written, nextId,
                   crashes>>

----------------------------------------------------------------------------
(* What a rewind does to the files, and the preview of it.                  *)

\* One discarded message: a write is undone where the file holds what it put
\* there, as far as the scan knows (virtual_files before the disk).
Holds(st, f) == IF st.virtual[f] # None THEN st.virtual[f] ELSE files[f]

\* Undoing without a look at the file.
Faulty_Undoes_AnyContent(st, m) == m.ok /\ m.file \notin Outside

Undoes(st, m) == m.ok /\ m.file \notin Outside /\ Holds(st, m.file) = m.content

Look(st, m) ==
    IF m.tool = "read" THEN st
    ELSE IF Undoes(st, m)
         THEN [virtual  |-> [st.virtual EXCEPT ![m.file] =
                                snapshots[m.id].before],
               restored |-> st.restored \cup {m},
               warned   |-> st.warned]
         ELSE [st EXCEPT !.warned = @ \cup {m}]

\* _retained_file_read_issues: files that a kept message read and that are,
\* or will be, something else.
WrittenLater(i, c) ==
    \E j \in i+1..c : messages[j].tool = "write" /\ messages[j].ok
                      /\ messages[j].file = messages[i].file

\* Only files the rewind itself changes are looked at.
Faulty_StaleRead_RestoredOnly(i, c, virt) ==
    LET m == messages[i] IN
    m.tool = "read" /\ virt[m.file] # None /\ m.content # virt[m.file]

StaleRead(i, c, virt) ==
    LET m == messages[i] IN
    /\ m.tool = "read"
    /\ IF virt[m.file] # None /\ ~WrittenLater(i, c)
       THEN m.content # virt[m.file]
       ELSE m.version # stamp[m.file]

StaleReads(c, virt) ==
    {f \in Files : \E i \in 1..c : messages[i].file = f /\ StaleRead(i, c, virt)}

\* What the scan knows after each of the messages n, n - 1, ..., c + 1 while
\* nothing is restored, if it knew st before.
Ahead(st, n, c) ==
    LET known[k \in 0..n - c] ==
            IF k = 0 THEN st ELSE Look(known[k - 1], messages[n + 1 - k])
    IN  known

\* _rollback_discarded_effects with dry_run, from message n.
DryRun(st, n, c) == Ahead(st, n, c)[n - c]

Foretold(st, n, c) ==
    LET end == DryRun(st, n, c) IN
    [restored |-> end.restored, warned |-> end.warned,
     issues |-> StaleReads(c, end.virtual)]

AtFirst == [virtual |-> Unseen, restored |-> {}, warned |-> {}]

\* _rewind_preview_token
Token(c) == Foretold(AtFirst, Len(messages), c)

\* GET rewind-preview, for any of the boundaries the topic has.
Preview(c) ==
    /\ Idle
    /\ preview' = [cutoff |-> c, base |-> updated, token |-> Token(c)]
    /\ UNCHANGED <<disk, pending, pc, scan, promised, started, typed, written,
                   nextId, edits, crashes>>

----------------------------------------------------------------------------
(* start_run with a rewind: the steps of one handler.                       *)

\* An archive that is taken of what the events will be after pruning.
Faulty_BeginRewind_PrunedArchive(c, token) ==
    /\ Len(archives) < MaxRewinds
    /\ archives' = Append(archives, [messages |-> messages,
                       events |-> events \cap IdsOf(SubSeq(messages, 1, c))])
    /\ pc' = "scan" /\ cutoff' = c /\ next' = Len(messages)
    /\ virtual' = Unseen /\ restored' = {} /\ warned' = {} /\ failed' = {}
    /\ issues' = {} /\ started' = files
    /\ promised' = token /\ preview' = None
    /\ UNCHANGED <<files, stamp, snapshots, messages, revisions, updated,
                   events, pending, typed, written, nextId, edits, crashes>>

\* Both checks passed, or nothing was to be checked; then the branch is
\* archived.
BeginRewind(c, token) ==
    /\ Len(archives) < MaxRewinds
    /\ archives' = Append(archives, [messages |-> messages, events |-> events])
    /\ pc' = "scan" /\ cutoff' = c /\ next' = Len(messages)
    /\ virtual' = Unseen /\ restored' = {} /\ warned' = {} /\ failed' = {}
    /\ issues' = {} /\ started' = files
    /\ promised' = token /\ preview' = None
    /\ UNCHANGED <<files, stamp, snapshots, messages, revisions, updated,
                   events, pending, typed, written, nextId, edits, crashes>>

\* A confirmation that is only bound to the topic, not to its files.
Faulty_ConfirmRewind_BaseOnly ==
    /\ Idle /\ preview # None
    /\ preview.base = updated
    /\ BeginRewind(preview.cutoff, preview.token)

\* The page confirms the preview on display.  A 409 changes nothing.
ConfirmRewind ==
    /\ Idle /\ preview # None
    /\ preview.base = updated
    /\ preview.token = Token(preview.cutoff)
    /\ BeginRewind(preview.cutoff, preview.token)

\* A request without a token, as the one for a single action.
PlainRewind(c) == Idle /\ BeginRewind(c, None)

Known == [virtual |-> virtual, restored |-> restored, warned |-> warned]

\* A scan that gives up at the first file that is not as it was left.
Faulty_UndoNext_StopsAtMismatch ==
    LET m == messages[next]
        st == Look(Known, m)
        undo == m.tool = "write" /\ Undoes(Known, m)
    IN /\ pc = "scan" /\ next > cutoff
       /\ IF undo THEN Put(m.file, snapshots[m.id].before)
          ELSE UNCHANGED <<files, stamp>>
       /\ virtual' = st.virtual /\ restored' = st.restored
       /\ warned' = st.warned
       /\ next' = IF undo \/ m.tool = "read" THEN next - 1 ELSE cutoff
       /\ UNCHANGED <<snapshots, messages, revisions, updated, events,
                      archives, pending, pc, cutoff, failed, issues, preview,
                      promised, started, typed, written, nextId, edits,
                      crashes>>

UndoNext ==
    LET m == messages[next]
        st == Look(Known, m)
    IN /\ pc = "scan" /\ next > cutoff
       /\ IF m.tool = "write" /\ Undoes(Known, m)
          THEN Put(m.file, snapshots[m.id].before)
          ELSE UNCHANGED <<files, stamp>>
       /\ virtual' = st.virtual /\ restored' = st.restored
       /\ warned' = st.warned /\ next' = next - 1
       /\ UNCHANGED <<snapshots, messages, revisions, updated, events,
                      archives, pending, pc, cutoff, failed, issues, preview,
                      promised, started, typed, written, nextId, edits,
                      crashes>>

\* A write that is counted as undone before it is, so that an error is silent.
Faulty_RestoreFails_CountedBefore ==
    LET m == messages[next]
        st == Look(Known, m)
    IN /\ pc = "scan" /\ next > cutoff
       /\ m.tool = "write" /\ Undoes(Known, m)
       /\ virtual' = st.virtual /\ restored' = st.restored
       /\ failed' = failed \cup {m} /\ next' = next - 1
       /\ UNCHANGED <<disk, pending, pc, cutoff, warned, issues, preview,
                      promised, started, typed, written, nextId, edits,
                      crashes>>

\* restore raises an error: the file is locked, say, or the disk is full, and
\* write_bytes has truncated the file by then.  The user is warned, the scan
\* knows no more than before, and it goes on.
RestoreFails ==
    LET m == messages[next]
    IN /\ pc = "scan" /\ next > cutoff
       /\ m.tool = "write" /\ Undoes(Known, m)
       /\ \/ UNCHANGED <<files, stamp>>
          \/ snapshots[m.id].before # Absent /\ Put(m.file, Torn)
       /\ warned' = warned \cup {m} /\ failed' = failed \cup {m}
       /\ next' = next - 1
       /\ UNCHANGED <<snapshots, messages, revisions, updated, events,
                      archives, pending, pc, cutoff, virtual, restored,
                      issues, preview, promised, started, typed, written,
                      nextId, edits, crashes>>

EndScan ==
    /\ pc = "scan" /\ next = cutoff
    /\ issues' = StaleReads(cutoff, virtual)
    /\ pc' = "prune"
    /\ UNCHANGED <<disk, pending, cutoff, next, virtual, restored, warned,
                   failed, preview, promised, started, typed, written, nextId,
                   edits, crashes>>

Kept == SubSeq(messages, 1, cutoff)

\* prune_events_to_actions
PruneEvents ==
    /\ pc = "prune" /\ pc' = "save"
    /\ events' = events \cap IdsOf(Kept)
    /\ UNCHANGED <<files, stamp, snapshots, messages, revisions, updated,
                   archives, pending, scan, preview, promised, started, typed,
                   written, nextId, edits, crashes>>

\* The handler returns, and its variables are gone.
Leave ==
    /\ pc' = "idle" /\ cutoff' = 0 /\ next' = 0 /\ virtual' = Unseen
    /\ restored' = {} /\ warned' = {} /\ failed' = {} /\ issues' = {}
    /\ promised' = None /\ started' = Nowhere

\* The trimmed run is saved without the revision that names its archive.
Faulty_SaveRewound_NoRevision ==
    /\ pc = "save"
    /\ messages' = Kept
    /\ updated' = updated + 1
    /\ Leave
    /\ UNCHANGED <<files, stamp, snapshots, revisions, events, archives,
                   pending, preview, typed, written, nextId, edits, crashes>>

SaveRewound ==
    /\ pc = "save"
    /\ messages' = Kept
    /\ revisions' = Append(revisions, Len(archives))
    /\ updated' = updated + 1
    /\ Leave
    /\ UNCHANGED <<files, stamp, snapshots, events, archives, pending, preview,
                   typed, written, nextId, edits, crashes>>

\* The browser session is gone or in use: a 409 instead of the save.
BindFails ==
    /\ pc = "save"
    /\ Leave
    /\ UNCHANGED <<disk, pending, preview, typed, written, nextId, edits,
                   crashes>>

----------------------------------------------------------------------------
(* The process dies; the next start closes the write that was under way.   *)

Restart ==
    /\ crashes < MaxCrashes /\ crashes' = crashes + 1
    /\ Leave
    /\ pending' = None
    /\ UNCHANGED <<snapshots, revisions, archives, preview, typed, written,
                   nextId, edits>>

\* _interrupt_incomplete_runs gives the call an answer "interrupted".  When
\* nothing is under way a death changes nothing.
Crash ==
    /\ ~Idle
    /\ Restart
    /\ IF pending = None THEN UNCHANGED <<messages, updated>>
       ELSE Answered("write", pending.file, pending.content, FALSE, 0)
    /\ UNCHANGED <<files, stamp, events>>

\* write_bytes truncates the file first.
CrashInRestore ==
    LET m == messages[next] IN
    /\ pc = "scan" /\ next > cutoff
    /\ m.tool = "write" /\ Undoes(Known, m)
    /\ snapshots[m.id].before # Absent
    /\ Put(m.file, Torn)
    /\ Restart
    /\ UNCHANGED <<messages, updated, events>>

\* So does the write_text of the event log.
CrashInPrune ==
    /\ pc = "prune"
    /\ events' = {}
    /\ Restart
    /\ UNCHANGED <<files, stamp, messages, updated>>

----------------------------------------------------------------------------

AgentStep ==
    \/ \E f \in Files : Read(f) \/ (\E b \in Bytes : StartWrite(f, b))
    \/ CommitWrite \/ RecordWrite \/ FailWrite

UserStep ==
    \/ \E f \in Files, c \in Bytes \cup {Absent} : UserEdit(f, c)
    \/ \E c \in 0..Len(messages) : Preview(c) \/ PlainRewind(c)
    \/ ConfirmRewind

RewindStep == UndoNext \/ RestoreFails \/ EndScan
              \/ PruneEvents \/ SaveRewound \/ BindFails

Next == AgentStep \/ UserStep \/ RewindStep
        \/ Crash \/ CrashInRestore \/ CrashInPrune

Spec == Init /\ [][Next]_vars

----------------------------------------------------------------------------
(* Properties.                                                              *)

\* A preview's token is only ever compared, so nothing is said of its type.
TypeOK ==
    /\ files \in [Files -> States]
    /\ stamp \in [Files -> Nat]
    /\ snapshots \in [Ids -> Snapshots \cup {None}]
    /\ messages \in Seq(Records)
    /\ revisions \in Seq(Nat)
    /\ updated \in Nat
    /\ events \subseteq Ids
    /\ archives \in Seq([messages : Seq(Records), events : SUBSET Ids])
    /\ pending \in Writes \cup {None}
    /\ pc \in {"idle", "scan", "prune", "save"}
    /\ cutoff \in Nat /\ next \in Nat
    /\ virtual \in [Files -> States \cup {None}]
    /\ restored \subseteq Records /\ warned \subseteq Records
    /\ failed \subseteq Records /\ issues \subseteq Files
    /\ preview = None \/ (preview.cutoff \in Nat /\ preview.base \in Nat)
    /\ started \in [Files -> States]
    /\ typed \in [Files -> Bytes \cup {None}]
    /\ written \subseteq (Files \X Bytes)
    /\ nextId \in 1..MaxActions + 1
    /\ edits \in 0..MaxEdits /\ crashes \in 0..MaxCrashes

\* Whatever the user last put into a file is still there, or a before-image
\* holds it, or the agent wrote the same bytes itself: neither a write nor a
\* rewind, nor a death in the middle of one, destroys the user's work.
UserWorkIsKept ==
    \A f \in Files : typed[f] # None =>
        \/ files[f] = typed[f]
        \/ \E i \in Ids : snapshots[i] = [file |-> f, before |-> typed[f]]
        \/ <<f, typed[f]>> \in written

\* The discarded writes to f whose results were recorded.
Discarded(f) ==
    {i \in cutoff+1..Len(messages) :
        messages[i].tool = "write" /\ messages[i].ok /\ messages[i].file = f}

Before(i) == snapshots[messages[i].id].before

IsFirst(i, f) == i \in Discarded(f) /\ \A j \in Discarded(f) : i <= j

\* Each of these writes but the first found f as an earlier one had left it.
Undisturbed(f) ==
    \A j \in Discarded(f) :
        IsFirst(j, f)
        \/ \E i \in Discarded(f) : i < j /\ Before(j) = messages[i].content

\* A state f had while these writes went on.
OnTheWay(f, c) ==
    \E i \in Discarded(f) : c = messages[i].content
                            \/ (IsFirst(i, f) /\ c = Before(i))

\* The user is warned that undoing a write to f failed.
ToldOf(f) == \E m \in failed \cap warned : m.file = f

\* A scan that got to its end has taken each file back to what it was at the
\* boundary, if only the agent changed it since and the file was, when the
\* rewind began, in any state it had meanwhile.  The last is more than the
\* state after the newest write: an attempt that was cut short between two
\* restores is completed by the next one, from wherever it got to.  Where a
\* restore failed the user is told so, and the file is half-written or in one
\* of those states, nothing else.
RewindReachesTheBoundary ==
    pc = "prune" =>
        \A f \in Files \ Outside :
            Undisturbed(f) /\ OnTheWay(f, started[f])
                => \/ \A i \in Discarded(f) :
                         IsFirst(i, f) => files[f] = Before(i)
                   \/ ToldOf(f) /\ (files[f] = Torn \/ OnTheWay(f, files[f]))

\* What a token or a scan says of one file.
On(f, ms) == {m \in ms : m.file = f}

About(f, x) == [restored |-> On(f, x.restored), warned |-> On(f, x.warned),
                stale |-> f \in x.issues]

Found == [restored |-> restored, warned |-> warned, issues |-> issues]

\* A confirmed rewind undoes the writes the preview listed, warns about those
\* it warned about, and finds the sources stale it called stale, although the
\* preview only simulated the restores and the user may have edited files in
\* between.  A file can only fare otherwise where undoing one of its writes
\* failed, of which the user is told; the other files are not affected.
ConfirmedAsPreviewed ==
    pc = "save" /\ promised # None =>
        \A f \in Files : ToldOf(f) \/ About(f, promised) = About(f, Found)

\* When a rewind goes on with the kept messages, the model is told of every
\* file that one of them read and that holds something else now.  Of a file
\* that a failing restore left half-written there is at least the warning.
StaleEvidenceIsFlagged ==
    pc \in {"prune", "save"} =>
        \A i \in 1..cutoff :
            LET m == messages[i] IN
            m.tool = "read" /\ files[m.file] # m.content
                => m.file \in issues \/ (files[m.file] = Torn /\ ToldOf(m.file))

\* Every action that was answered is in the ledger or in an archive that a
\* revision of the ledger names, through retries and deaths.
NoRecordIsLost ==
    \A i \in 1..nextId-1 :
        \/ i \in IdsOf(messages)
        \/ pending # None /\ pending.id = i
        \/ \E r \in 1..Len(revisions) :
               i \in IdsOf(archives[revisions[r]].messages)

\* The events of every action are in the log or in some archive, even where
\* the process dies while the log is rewritten.
NoEventIsForgotten ==
    \A i \in 1..nextId-1 :
        i \in events \/ \E a \in 1..Len(archives) : i \in archives[a].events

\* What the proofs of these properties rest on.  A recorded write has its
\* before-image, and its content is accounted for.
Traced(m) ==
    m.tool = "write" /\ m.ok =>
        snapshots[m.id] # None /\ <<m.file, m.content>> \in written

\* A recorded read is of the file's present state as long as the version is
\* the same.
Current(m) ==
    m.tool = "read" =>
        /\ m.version <= stamp[m.file]
        /\ m.version = stamp[m.file] => files[m.file] = m.content

Distinct(m) == m.id < nextId /\ (pending # None => m.id # pending.id)

RecordsInv ==
    /\ \A i \in 1..Len(messages) :
          Traced(messages[i]) /\ Current(messages[i]) /\ Distinct(messages[i])
    /\ pending # None =>
          /\ pc = "idle"
          /\ pending.id < nextId
          /\ IF pending.done
             THEN /\ snapshots[pending.id] # None
                  /\ <<pending.file, pending.content>> \in written
             ELSE snapshots[pending.id] = None
    /\ \A i \in Ids : i >= nextId => snapshots[i] = None
    \* A boundary is only good for the ledger it was shown for.
    /\ preview # None => /\ preview.base <= updated
                         /\ preview.base = updated
                               => preview.cutoff <= Len(messages)

\* While a rewind runs, its archive is the whole branch, and what the scan
\* knows of a file is what the file holds, unless a restore failed half-way.
ScanInv ==
    /\ \A r \in 1..Len(revisions) : revisions[r] \in 1..Len(archives)
    /\ pc # "idle" => /\ archives # <<>>
                      /\ archives[Len(archives)].messages = messages
                      /\ events \subseteq archives[Len(archives)].events
    /\ pc # "idle" => cutoff <= next /\ next <= Len(messages)
    /\ pc \in {"prune", "save"} => next = cutoff
    /\ pc # "idle" =>
          \A f \in Files : \/ virtual[f] \in {None, files[f]}
                           \/ files[f] = Torn /\ ToldOf(f)

\* How far back the scan has brought f: to a state it had up to the message
\* that is next, or to where it is going.
BackTo(f, n) ==
    \E i \in Discarded(f) : (i <= n /\ files[f] = messages[i].content)
                            \/ (IsFirst(i, f) /\ files[f] = Before(i))

ProgressInv ==
    pc \in {"scan", "prune"} =>
        \A f \in Files \ Outside :
            Undisturbed(f) /\ OnTheWay(f, started[f])
                => \/ BackTo(f, IF pc = "scan" THEN next ELSE cutoff)
                   \/ ToldOf(f) /\ (files[f] = Torn \/ OnTheWay(f, files[f]))

\* A successful write left its file newer than any read recorded before it, so
\* the two ways of telling a stale read agree where a kept write followed it.
OlderThan(m, w) ==
    m.tool = "read" /\ w.tool = "write" /\ w.ok /\ m.file = w.file
        => m.version < stamp[m.file]

VersionsInv ==
    /\ \A j \in 1..Len(messages) : \A i \in 1..j - 1 :
           OlderThan(messages[i], messages[j])
    /\ pending # None /\ pending.done =>
           \A i \in 1..Len(messages) :
               messages[i].tool = "read" /\ messages[i].file = pending.file
                   => messages[i].version < stamp[pending.file]

\* What was promised of a file is what a dry run of the rest of the scan would
\* find, and in the end what the scan found, unless a restore of it failed.
ForeseenInv ==
    promised # None =>
        \A f \in Files : ~ToldOf(f) =>
            /\ pc = "scan" =>
                  About(f, promised) = About(f, Foretold(Known, next, cutoff))
            /\ pc \in {"prune", "save"} =>
                  About(f, promised) = About(f, Found)

RewindInv ==
    /\ TypeOK /\ RecordsInv /\ ScanInv /\ ProgressInv
    /\ VersionsInv /\ ForeseenInv
    /\ UserWorkIsKept /\ StaleEvidenceIsFlagged
    /\ NoRecordIsLost /\ NoEventIsForgotten

\* docs/IMPROVEMENTS.md:232 says that a file is only restored while it holds
\* what the agent wrote last, and stays as it is if the user changed it later;
\* so does the docstring of _rollback_discarded_effects.
EditedFilesAreLeftAlone ==
    pc \in {"scan", "prune"} =>
        \A f \in Files : files[f] \notin {started[f], Torn} =>
            \E i \in Discarded(f) : started[f] = messages[i].content
                                    /\ \A j \in Discarded(f) : j <= i

\* docs/IMPROVEMENTS.md:228 and RunStore.save_revision_archive say that the
\* archive a revision offers holds the complete branch with its events.
ArchivedBranchIsComplete ==
    \A r \in 1..Len(revisions) :
        LET a == archives[revisions[r]] IN IdsOf(a.messages) \subseteq a.events
=============================================================================
