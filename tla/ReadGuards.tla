----------------------------- MODULE ReadGuards -----------------------------
(***************************************************************************)
(* Which calls of a turn really reach a file or the web, and which are     *)
(* answered from what the run already holds: AgentRunner's guard on        *)
(* read-only actions, the tools that read local files, and the request's   *)
(* view of the log, while the user edits the same files.                   *)
(*                                                                         *)
(* A file's content and its mtime:size are one version number; 0 means     *)
(* that there is no such file.  A directory is a path with a version of    *)
(* its own.  What the call loop does besides (approval gate, events,       *)
(* limits) is in AgentRunner; here a call that the guard lets pass is run  *)
(* to its answer.                                                          *)
(***************************************************************************)
EXTENDS Policy, Context

CONSTANTS
    Files,       \* files of the workspace
    Dir,         \* the directory they are in
    Length,      \* the length of a file's text
    Alike,       \* pairs of queries that are nearly the same
    Requests,    \* what a user's message may ask for
    Calls,       \* bound: the calls proposed in a turn, by its request
    Policies,    \* what the user may allow
    MaxLog,      \* bound: entries of the log
    MaxGroup,    \* bound: calls in one assistant message
    MaxClock,    \* bound: changes of files
    MaxTurns     \* bound: user's messages sent

ReadTools == {"read_file", "read_pdf"}
Versioned == ReadTools \cup {"list_files"}
Paths == Files \cup {Dir}

Modes == {"local_only", "local_first", "mixed", "research", "balanced"}

\* ResearchStrategy, as classify_research_strategy builds it; a research turn
\* has no total.
StreakLimit == [m \in Modes |-> CASE m = "local_only" -> 0
                                  [] m = "local_first" -> 2
                                  [] m = "mixed" -> 4
                                  [] m = "research" -> 5
                                  [] m = "balanced" -> 3]
TotalLimit == [m \in Modes \ {"research"} |-> CASE m = "local_only" -> 0
                                                [] m = "local_first" -> 2
                                                [] m = "mixed" -> 8
                                                [] m = "balanced" -> 6]

\* What the latest message says: the strategy, the files attached to it, and
\* whether it speaks of attachments, of files, or asks to read again.
TurnRequests == [mode : Modes, needsLocal : BOOLEAN, attached : SUBSET Files,
                 mentions : BOOLEAN, asksFiles : BOOLEAN, reread : BOOLEAN]

AllCalls == UNION {Calls[r] : r \in Requests}

\* A call is one the policy knows; a read names a file and the part of it that
\* it asks for.
ASSUME GuardAssumption ==
    /\ Dir \notin Files
    /\ Length \in Nat \ {0}
    /\ MaxClock \in Nat \ {0}
    /\ Requests \subseteq TurnRequests
    /\ Policies \subseteq UserPolicies
    /\ \A c \in AllCalls :
          /\ [tool |-> c.tool, aspect |-> c.aspect] \in ToolCalls
          /\ c.lo \in Nat /\ c.hi \in Nat
          /\ c.tool \in ReadTools \cup FileWrites => c.target \in Files
          /\ c.tool = "list_files" => c.target = Dir

VARIABLES
    log,       \* run.messages: the user's messages, and calls with answers
    disk,      \* the version of each path
    clock,     \* the latest version given
    policy,    \* run.policy
    phase,     \* where the turn stands
    work,      \* the call at work and what its tool has seen
    view       \* what the latest request showed

vars == <<log, disk, clock, policy, phase, work, view>>

Nothing == [fits |-> TRUE, kept |-> {}, intact |-> {}]
NoWork == [head |-> 0, call |-> [tool |-> "none"], asked |-> FALSE,
           seen |-> 0, source |-> 0]

Truncated(e) == e.hi < Length
EndOf(e) == IF Truncated(e) THEN e.hi ELSE Length

UserEntry(r, rewound, at) ==
    [tool |-> "user", target |-> "", status |-> "", reason |-> "", head |-> at,
     units |-> 1, turn |-> r, rewound |-> rewound]

\* An answered call: `version` is the one its signature names (0 if it has
\* none), `shown` that of the content it quotes, `live` the path's when it was
\* answered, `from` the entry it repeats, `asked` whether the user approved it.
Entry(c, status, reason, units) ==
    [tool |-> c.tool, target |-> c.target, lo |-> c.lo, hi |-> c.hi,
     status |-> status, reason |-> reason, units |-> units,
     head |-> 0, version |-> 0, shown |-> 0,
     live |-> IF c.target \in Paths THEN disk[c.target] ELSE 0,
     from |-> 0, asked |-> FALSE]

\* The size of an answer: a file's text, or little.
Units(c) == IF c.tool \in ReadTools THEN 1 + EndOf(c) - c.lo ELSE 1

----------------------------------------------------------------------------
(* What the guard asks of the log.                                          *)

Turn == LastOf(UserEntries(log))
Request == log[Turn].turn
ThisTurn == Turn + 1 .. Len(log)

\* _rewind_reusable_action_ids: the calls kept by the rewind that began the
\* turn, unless its feedback asks to read again.
Reusable == IF log[Turn].rewound /\ ~Request.reread
            THEN (1 .. Turn) \ UserEntries(log) ELSE {}

\* _retained_read_is_current.
IsCurrent(e) == e.version # 0 /\ disk[e.target] = e.version

\* Earlier answers a call may be answered from.
Usable(i) ==
    /\ log[i].status = "succeeded"
    /\ \/ i \in ThisTurn
       \/ i \in Reusable /\ log[i].tool \in ReadTools /\ IsCurrent(log[i])

\* _read_only_signature: the same operation on the same version.
SameSignature(e, c) ==
    /\ e.tool = c.tool /\ e.target = c.target /\ e.lo = c.lo /\ e.hi = c.hi
    /\ \/ c.tool \in WebReads
       \/ c.tool \in Versioned /\ IsCurrent(e)

Signed(i) == /\ log[i].status = "succeeded"
             /\ log[i].tool \in WebReads \/ log[i].version # 0

Duplicates(c) == {i \in DOMAIN log : /\ log[i].tool # "user"
                                     /\ SameSignature(log[i], c)
                                     /\ Usable(i) /\ Signed(i)}

\* _completed_read_only_signatures: a write takes back what was read of its
\* file, and what was listed of the directory.
Written(i) == \E j \in ThisTurn :
    /\ j > i
    /\ log[j].tool \in FileWrites /\ log[j].status = "succeeded"
    /\ log[i].target \in {log[j].target, Dir}

\* Coverage that takes any earlier read that begins no later.
Faulty_Covering_IgnoresEnd(c) ==
    {i \in TextReads(log) :
        /\ c.tool = "read_file"
        /\ Usable(i) /\ Signed(i)
        /\ log[i].target = c.target /\ IsCurrent(log[i])
        /\ log[i].lo <= c.lo}

\* _covered_read_file_result: earlier reads whose range contains c's.
Covering(c) ==
    {i \in TextReads(log) :
        /\ c.tool = "read_file"
        /\ Usable(i) /\ Signed(i)
        /\ log[i].target = c.target /\ IsCurrent(log[i])
        /\ log[i].lo <= c.lo
        /\ \/ EndOf(log[i]) >= c.hi
           \/ ~Truncated(log[i]) /\ c.lo <= EndOf(log[i])}

\* A count that begins at the latest message instead of at the user's.
Faulty_Searches_LatestMessage ==
    {i \in ThisTurn : log[i].tool = "web_search" /\ i >= LastOf(CallHeads(log))}

Searches == {i \in ThisTurn : log[i].tool = "web_search"}
Found == {i \in Searches : log[i].status = "succeeded"}

\* _similar_search_result.
Similar(c) == {i \in Found : /\ c.tool = "web_search"
                             /\ <<log[i].target, c.target>> \in Alike}

\* _search_streak: searches since the last page that was opened.
Streak ==
    LET opened == {i \in ThisTurn : /\ log[i].tool = "fetch_url"
                                    /\ log[i].status = "succeeded"}
    IN  Cardinality({i \in Searches :
            /\ i > LastOf(opened)
            /\ \/ log[i].status = "succeeded"
               \/ /\ log[i].status = "skipped"
                  /\ log[i].reason \notin
                         {"local_first", "local_only", "search_budget"}})

\* _search_provider_unavailable.
SearchUnavailable ==
    LET tried == {i \in Searches : log[i].status # "skipped"}
    IN  tried # {} /\ log[Max(tried)].reason = "all_providers"

BudgetSpent == /\ Request.mode # "research"
               /\ Cardinality(Found) >= TotalLimit[Request.mode]
StreakSpent == Streak >= StreakLimit[Request.mode]

\* _failed_read_seen: it failed, and the file was then as it is now.
FailedBefore(c) == \E i \in ThisTurn :
    /\ log[i].tool = c.tool /\ log[i].target = c.target
    /\ log[i].lo = c.lo /\ log[i].hi = c.hi
    /\ log[i].reason = "invalid" /\ log[i].version = disk[c.target]

FetchFailed(c) == \E i \in ThisTurn :
    /\ log[i].tool = "fetch_url" /\ log[i].status = "failed"
    /\ log[i].target = c.target

\* The files a source must come from: those attached now, or attached before
\* if the message speaks of them.
Attached == IF Request.attached # {} \/ ~Request.mentions THEN Request.attached
            ELSE UNION {log[i].turn.attached : i \in UserEntries(log)}

\* Evidence without a look at the file as it is now.
Faulty_EvidenceSeen_AnyVersion ==
    LET names == IF Attached # {} \/ Request.asksFiles THEN ReadTools
                 ELSE Versioned
        first == IF Request.attached # {} THEN Turn + 1 ELSE 1
    IN  \E i \in first .. Len(log) :
            /\ log[i].tool \in names /\ log[i].status = "succeeded"
            /\ Attached # {} => log[i].target \in Attached

\* _local_evidence_seen: a newly attached file must be read in this turn,
\* anything else once, and the version read must still be there.
EvidenceSeen ==
    LET names == IF Attached # {} \/ Request.asksFiles THEN ReadTools
                 ELSE Versioned
        first == IF Request.attached # {} THEN Turn + 1 ELSE 1
    IN  \E i \in first .. Len(log) :
            /\ log[i].tool \in names /\ log[i].status = "succeeded"
            /\ Attached # {} => log[i].target \in Attached
            /\ log[i].tool \in ReadTools => IsCurrent(log[i])

\* _guard_read_only_action, in its order.
Reasons == <<"local_only", "local_first", "search_unavailable", "failed_read",
             "failed_fetch", "duplicate_read", "similar_search",
             "search_budget", "search_streak", "covered_read">>

Applies(reason, c) ==
    CASE reason = "local_only" ->
             /\ c.tool \in WebReads \cup {"computer_use", "execute_command"}
             /\ Request.mode = "local_only"
      [] reason = "local_first" ->
             /\ c.tool \in WebReads \cup {"computer_use"}
             /\ Request.needsLocal /\ ~EvidenceSeen
      [] reason = "search_unavailable" ->
             c.tool = "web_search" /\ SearchUnavailable
      [] reason = "failed_read" -> c.tool \in ReadTools /\ FailedBefore(c)
      [] reason = "failed_fetch" -> c.tool = "fetch_url" /\ FetchFailed(c)
      [] reason = "duplicate_read" -> \E i \in Duplicates(c) : ~Written(i)
      [] reason = "similar_search" -> Similar(c) # {}
      [] reason = "search_budget" -> c.tool = "web_search" /\ BudgetSpent
      [] reason = "search_streak" -> c.tool = "web_search" /\ StreakSpent
      [] reason = "covered_read" -> Covering(c) # {}

Guard(c) ==
    LET hits == {n \in DOMAIN Reasons : Applies(Reasons[n], c)}
    IN  IF hits = {} THEN "none" ELSE Reasons[Min(hits)]

Reuse == {"duplicate_read", "similar_search", "covered_read"}

\* The answer a reuse repeats, the latest one that fits.
Source(reason, c) ==
    LastOf(CASE reason = "duplicate_read" -> Duplicates(c)
             [] reason = "similar_search" -> Similar(c)
             [] reason = "covered_read" -> Covering(c))

\* _web_tool_offered, with `browser` for computer_use_available: whether the
\* topic has an open browser session.
WebTools == WebReads \cup {"computer_use", "execute_command"}

WebOffered(t, browser) ==
    /\ Offered(t, policy)
    /\ Request.mode # "local_only"
    /\ t # "execute_command" /\ Request.needsLocal => EvidenceSeen
    /\ t = "web_search" => ~(SearchUnavailable \/ StreakSpent \/ BudgetSpent)
    /\ t = "computer_use" => browser
----------------------------------------------------------------------------
(* The turns.                                                               *)

Init ==
    /\ log = <<>>
    /\ disk = [p \in Paths |-> 1]
    /\ clock = 1
    /\ policy \in Policies
    /\ phase = "idle"
    /\ work = NoWork
    /\ view = Nothing

\* The files in P, and the directory they are in, get a new version.
Changed(P) == [p \in Paths |-> IF p \in P \cup {Dir} THEN clock + 1 ELSE disk[p]]

\* execute_run: a first message or a follow-up, which may come with another
\* autonomy threshold.
NewTurn(r, p) ==
    /\ phase = "idle"
    /\ Cardinality(UserEntries(log)) < MaxTurns /\ Len(log) < MaxLog
    /\ [p EXCEPT !.threshold = policy.threshold] = policy
    /\ policy' = p
    /\ log' = Append(log, UserEntry(r, FALSE, Len(log) + 1))
    /\ phase' = "build"
    /\ UNCHANGED <<disk, clock, work, view>>

\* execute_run with a step to go back to: everything from its group on is cut,
\* the files written there get back what the first of those writes replaced.
RewindTurn(r, h) ==
    LET gone == {i \in h .. Len(log) : /\ log[i].tool \in FileWrites
                                       /\ log[i].status = "succeeded"}
        first(f) == Min({i \in gone : log[i].target = f})
        files == {log[i].target : i \in gone}
    IN  /\ phase = "idle"
        /\ Cardinality(UserEntries(SubSeq(log, 1, h - 1))) < MaxTurns
        /\ clock < MaxClock
        /\ log' = Append(SubSeq(log, 1, h - 1), UserEntry(r, TRUE, h))
        /\ clock' = IF gone = {} THEN clock ELSE clock + 1
        /\ disk' = [p \in Paths |->
                       IF p \in files /\ log[first(p)].shown = 0 THEN 0
                       ELSE IF gone = {} THEN disk[p] ELSE Changed(files)[p]]
        /\ phase' = "build"
        /\ UNCHANGED <<policy, work, view>>

\* A request, or the end of the turn with a ContextBudgetError.
BuildRequest ==
    /\ phase = "build"
    /\ LET built == Build(log)
       IN  IF built.fits
           THEN /\ view' = built
                /\ work' = [NoWork EXCEPT !.head = Len(log) + 1]
                /\ phase' = "calls"
           ELSE phase' = "idle" /\ UNCHANGED <<work, view>>
    /\ UNCHANGED <<log, disk, clock, policy>>

\* The model answers without a call.
EndTurn ==
    /\ phase = "calls"
    /\ Len(log) < work.head
    /\ phase' = "idle"
    /\ work' = NoWork /\ view' = Nothing
    /\ UNCHANGED <<log, disk, clock, policy>>

EndGroup ==
    /\ phase = "calls"
    /\ Len(log) >= work.head
    /\ phase' = "build"
    /\ work' = NoWork /\ view' = Nothing
    /\ UNCHANGED <<log, disk, clock, policy>>

\* What becomes of a call: "deny", a reason to skip it, "allow" or "ask".  What
\* must be approved is not answered from earlier results, and is then not held
\* back for the reasons after those either.
Outcome(c) ==
    LET decision == Decide(c, policy)
        guard == Guard(c)
    IN  IF decision = "deny" \/ guard = "none" THEN decision
        ELSE IF decision = "ask" /\ guard \in Reuse THEN decision
        ELSE guard

Answer(e) ==
    /\ log' = Append(log, [e EXCEPT !.head = work.head])
    /\ work' = [NoWork EXCEPT !.head = work.head]
    /\ phase' = "calls"

Deny(c) == Answer(Entry(c, "denied", "policy", 1))

\* A call the guard holds back, answered from an earlier one if it repeats it;
\* in full unless the request shows that one whole.
Skip(c, reason) ==
    LET from == IF reason \in Reuse THEN Source(reason, c) ELSE 0
        full == from # 0 /\ from \notin view.intact
    IN  Answer([Entry(c, "skipped", reason, IF full THEN Units(c) ELSE 1)
                   EXCEPT !.from = from,
                          !.shown = IF from = 0 THEN 0 ELSE log[from].shown])

\* A call that is run: its tool opens what it works on.
Open(c, asked) ==
    /\ work' = [head |-> work.head, call |-> c, asked |-> asked,
                seen |-> IF c.target \in Paths THEN disk[c.target] ELSE 0,
                source |-> 0]
    /\ phase' = "tool"
    /\ UNCHANGED log

AskUser(c) ==
    /\ work' = [work EXCEPT !.call = c]
    /\ phase' = "approve"
    /\ UNCHANGED log

Propose(c) ==
    LET outcome == Outcome(c)
    IN  /\ phase = "calls"
        /\ Len(log) < MaxLog /\ Len(log) < work.head + MaxGroup - 1
        /\ \/ outcome = "deny" /\ Deny(c)
           \/ \E n \in DOMAIN Reasons : Reasons[n] = outcome /\ Skip(c, outcome)
           \/ outcome = "allow" /\ Open(c, FALSE)
           \/ outcome = "ask" /\ AskUser(c)
        /\ UNCHANGED <<disk, clock, policy, view>>

Approve ==
    /\ phase = "approve"
    /\ Open(work.call, TRUE)
    /\ UNCHANGED <<disk, clock, policy, view>>

Decline ==
    /\ phase = "approve"
    /\ Answer(Entry(work.call, "denied", "user_declined", 1))
    /\ UNCHANGED <<disk, clock, policy, view>>

\* The tools that read: the source's version is that of a file that was the
\* same before and after.
Return ==
    /\ phase = "tool"
    /\ work.call.tool \in ReadTools
    /\ work.seen # 0
    /\ work' = [work EXCEPT !.source = IF disk[work.call.target] = work.seen
                                      THEN work.seen ELSE 0]
    /\ phase' = "returned"
    /\ UNCHANGED <<log, disk, clock, policy, view>>

\* The runner files a read under the version it finds now, if that is the
\* source's.
RecordRead ==
    LET c == work.call
        version == IF work.source = disk[c.target] THEN work.source ELSE 0
    IN  /\ phase = "returned"
        /\ Answer([Entry(c, "succeeded", "", Units(c)) EXCEPT
                       !.version = version, !.shown = work.seen,
                       !.asked = work.asked])
        /\ UNCHANGED <<disk, clock, policy, view>>

\* A read that fails.  Only what the tool finds invalid, a missing file or what
\* is in it, is filed under a version, the one found when the failure is
\* handled; a timeout or an error of the disk is not.
FailRead ==
    LET c == work.call
    IN  /\ c.tool \in ReadTools
        /\ phase = "tool"
        /\ \E reason \in {"invalid", "error"} :
              Answer([Entry(c, "failed", reason, 1) EXCEPT
                         !.version = IF reason = "invalid" THEN disk[c.target]
                                                           ELSE 0,
                         !.asked = work.asked])
        /\ UNCHANGED <<disk, clock, policy, view>>

\* list_files has no version of its own: the listing is filed under the one
\* the directory has afterwards.
RecordList ==
    LET c == work.call
    IN  /\ phase = "tool" /\ c.tool = "list_files"
        /\ Answer([Entry(c, "succeeded", "", 1) EXCEPT
                       !.version = disk[Dir], !.shown = work.seen,
                       !.asked = work.asked])
        /\ UNCHANGED <<disk, clock, policy, view>>

\* `shown` of a write is what it replaced.
RecordWrite ==
    LET c == work.call
    IN  /\ phase = "tool" /\ c.tool \in FileWrites
        /\ clock < MaxClock
        /\ clock' = clock + 1
        /\ disk' = Changed({c.target})
        /\ Answer([Entry(c, "succeeded", "", 1) EXCEPT
                       !.shown = disk[c.target], !.live = clock + 1,
                       !.asked = work.asked])
        /\ UNCHANGED <<policy, view>>

\* Every other tool; a search of valid arguments fails if every provider does.
RecordOther(status, reason) ==
    LET c == work.call
    IN  /\ phase = "tool" /\ c.tool \notin Versioned \cup FileWrites
        /\ status = "failed" => (reason = "all_providers" <=> c.tool = "web_search")
        /\ Answer([Entry(c, status, reason, 1) EXCEPT !.asked = work.asked])
        /\ UNCHANGED <<disk, clock, policy, view>>

\* Bound: a file is edited in turns that look at it, and not before a request
\* is built, which changes nothing else.
Watched == IF log = <<>> \/ phase = "build" THEN {}
           ELSE Files \cap {c.target : c \in Calls[Request]}

\* The user, or a command, changes, creates or deletes a file meanwhile.
EditFile(f) ==
    /\ clock < MaxClock
    /\ clock' = clock + 1
    /\ disk' = IF disk[f] = 0 THEN Changed({f})
               ELSE [disk EXCEPT ![f] = clock + 1]
    /\ UNCHANGED <<log, policy, phase, work, view>>

DeleteFile(f) ==
    /\ clock < MaxClock
    /\ disk[f] # 0
    /\ clock' = clock + 1
    /\ disk' = [disk EXCEPT ![f] = 0, ![Dir] = clock + 1]
    /\ UNCHANGED <<log, policy, phase, work, view>>

Next ==
    \/ \E r \in Requests, p \in Policies : NewTurn(r, p)
    \/ \E r \in Requests, h \in CallHeads(log) : RewindTurn(r, h)
    \/ BuildRequest \/ EndTurn \/ EndGroup
    \/ \E c \in IF log = <<>> THEN {} ELSE Calls[Request] : Propose(c)
    \/ Approve \/ Decline
    \/ Return \/ RecordRead \/ FailRead \/ RecordList \/ RecordWrite
    \/ RecordOther("succeeded", "") \/ RecordOther("failed", "error")
    \/ RecordOther("failed", "all_providers")
    \/ \E f \in Watched : EditFile(f) \/ DeleteFile(f)

Spec == Init /\ [][Next]_vars
----------------------------------------------------------------------------
(* Correctness.                                                             *)

Statuses == {"succeeded", "failed", "denied", "skipped"}

\* Every variable keeps its shape, and a version is never from the future.
TypeOK ==
    /\ \A i \in DOMAIN log :
          /\ log[i].head \in 1 .. i
          /\ log[i].tool # "user" =>
                 /\ log[i].status \in Statuses
                 /\ {log[i].version, log[i].shown, log[i].live} \subseteq 0 .. clock
                 /\ log[i].from \in 0 .. i - 1
    /\ disk \in [Paths -> 0 .. clock]
    /\ clock \in 1 .. MaxClock
    /\ policy \in Policies
    /\ phase \in {"idle", "build", "calls", "approve", "tool", "returned"}
    /\ work.seen \in 0 .. clock
    /\ view.intact \subseteq view.kept

\* An answer that repeats an earlier read of a file repeats what the file held
\* when the call was answered, and all of the range that was asked for
\* (duplicate_read and covered_read, over edits, writes, rewinds and reads
\* during which the file changed).
ReuseIsCurrent ==
    \A i \in DOMAIN log :
        (log[i].tool \in ReadTools /\ log[i].status = "skipped" /\ log[i].from # 0) =>
            LET e == log[i] s == log[e.from]
            IN  /\ s.shown = e.live
                /\ s.lo <= e.lo
                /\ EndOf(s) >= EndOf(e)

\* A turn that must look at local files first reaches the web only after a
\* file was read that still holds what was read, or on the user's word; a turn
\* without web access does not reach it at all.
WebWaitsForEvidence ==
    [][\A c \in AllCalls :
         (phase # "tool" /\ phase' = "tool" /\ work'.call = c
            /\ c.tool \in WebReads) =>
           /\ Request.mode # "local_only"
           /\ Request.needsLocal /\ ~work'.asked =>
                \E i \in DOMAIN log :
                    /\ log[i].tool \in Versioned /\ log[i].status = "succeeded"
                    /\ log[i].tool \in ReadTools => log[i].shown = disk[log[i].target]
                    /\ Attached # {} => log[i].target \in Attached
                    /\ Request.attached # {} => i > Turn]_vars

\* A request that is sent shows every message of the user and the latest calls
\* in full, shows calls of one message together or not at all, and fits.
EssentialsReachTheModel ==
    phase = "calls" =>
        LET sent == SubSeq(log, 1, work.head - 1)
        IN  /\ UserEntries(log) \subseteq view.intact
            /\ Group(sent, LastOf(CallHeads(sent))) \subseteq view.intact
            /\ \A i, j \in DOMAIN sent : sent[i].head = sent[j].head =>
                  (i \in view.kept <=> j \in view.kept)
            /\ Size(sent, view.kept, view.kept \ view.intact) <= Limit

\* The offers of a request and the refusals are two lists of conditions.  A tool
\* the policy leaves out is denied when it is called all the same.  A web tool
\* that the turn's strategy, its evidence or its searches leave out is not run
\* on the model's word: the guard holds the call back, or it repeats a search of
\* the turn and is put to the user, as a policy that asks wants it.  One that is
\* left out only since no browser session is open is not held back: it runs, and
\* fails.  Nothing that is offered, with a session at hand, is held back for any
\* of these reasons.
UnofferedNeedsTheUser ==
    phase = "calls" =>
        \A c \in Calls[Request] :
            LET outcome == Outcome(c)
                repeats == \E i \in ThisTurn : i \in Duplicates(c) \cup Similar(c)
            IN  /\ ~Offered(c.tool, policy) => outcome = "deny"
                /\ c.tool \in WebTools =>
                      IF WebOffered(c.tool, TRUE)
                      THEN outcome \notin {"local_only", "local_first",
                                          "search_unavailable", "search_budget",
                                          "search_streak"}
                      ELSE \/ outcome \notin {"allow", "ask"}
                           \/ outcome = "ask" /\ c.tool = "web_search" /\ repeats

\* Without the user's word a turn makes no more searches than its kind allows,
\* in all and between two pages that were opened.
SearchesStayInBudget ==
    log # <<>> =>
        LET own == {i \in ThisTurn : /\ log[i].tool = "web_search"
                                     /\ log[i].status = "succeeded"
                                     /\ ~log[i].asked}
            fetched == {i \in ThisTurn : log[i].tool = "fetch_url" /\ log[i].status = "succeeded"}
        IN  /\ Request.mode # "research" => Cardinality(own) <= TotalLimit[Request.mode]
            /\ Cardinality({i \in own : i > LastOf(fetched)}) <= StreakLimit[Request.mode]
=============================================================================
