----------------------------- MODULE GuardSafety -----------------------------
(***************************************************************************)
(* Proofs about ReadGuards, for all files, requests, calls and policies:   *)
(* a tool that is not offered is refused, a repeated answer is current,    *)
(* the web waits for the files, searches stay in their budget, and what    *)
(* matters of the log reaches the model.                                   *)
(***************************************************************************)
EXTENDS ReadGuards, LogFacts

----------------------------------------------------------------------------
(* The guard's reasons, and the policy.                                     *)

\* The last of some places is one of them, and no earlier than any.
LEMMA LastIsLast ==
    ASSUME NEW n \in Nat, NEW S \in SUBSET (1 .. n)
    PROVE  /\ LastOf(S) \in 0 .. n
           /\ S # {} => LastOf(S) \in S
           /\ \A m \in S : m <= LastOf(S)
<1>1. CASE S = {}
  BY <1>1 DEF LastOf
<1>2. CASE S # {}
  <2>1. Max(S) \in S /\ \A m \in S : m <= Max(S)
    BY <1>2, MaxExists
  <2>2. LastOf(S) = Max(S)
    BY <1>2 DEF LastOf
  <2>3. Max(S) \in 1 .. n
    BY <2>1
  <2> QED BY <1>2, <2>1, <2>2, <2>3
<1> QED BY <1>1, <1>2

\* The guard gives the first of its reasons that applies, if any does.
LEMMA GuardIsFirst ==
    ASSUME NEW c
    PROVE  \/ /\ Guard(c) = "none"
              /\ \A n \in 1 .. 10 : ~Applies(Reasons[n], c)
           \/ \E n \in 1 .. 10 : /\ Guard(c) = Reasons[n]
                               /\ Applies(Reasons[n], c)
                               /\ \A m \in 1 .. n - 1 : ~Applies(Reasons[m], c)
<1> DEFINE hits == {n \in DOMAIN Reasons : Applies(Reasons[n], c)}
<1>1. DOMAIN Reasons = 1 .. 10
  BY DEF Reasons
<1>2. /\ hits \subseteq 1 .. 10
      /\ \A n \in 1 .. 10 : n \in hits <=> Applies(Reasons[n], c)
  BY <1>1
<1>3. Guard(c) = IF hits = {} THEN "none" ELSE Reasons[Min(hits)]
  BY DEF Guard
<1> HIDE DEF hits
<1>4. CASE hits = {}
  BY <1>2, <1>3, <1>4
<1>5. CASE hits # {}
  <2>1. Min(hits) \in hits /\ \A m \in hits : Min(hits) <= m
    BY <1>2, <1>5, MinExists, 10 \in Nat
  <2>2. Min(hits) \in 1 .. 10 /\ Applies(Reasons[Min(hits)], c)
    BY <1>2, <2>1
  <2>3. \A m \in 1 .. Min(hits) - 1 : ~Applies(Reasons[m], c)
    BY <1>2, <2>1, <2>2
  <2> QED BY <1>3, <1>5, <2>2, <2>3
<1> QED BY <1>4, <1>5

ReasonNames == {"local_only", "local_first", "search_unavailable",
                "failed_read", "failed_fetch", "duplicate_read",
                "similar_search", "search_budget", "search_streak",
                "covered_read"}

\* The reasons in the order of their places.
LEMMA ReasonsInOrder ==
    /\ \A n \in 1 .. 10 : Reasons[n] \in ReasonNames
    /\ Reasons[1] = "local_only" /\ Reasons[2] = "local_first"
    /\ Reasons[3] = "search_unavailable" /\ Reasons[4] = "failed_read"
    /\ Reasons[5] = "failed_fetch" /\ Reasons[6] = "duplicate_read"
    /\ Reasons[7] = "similar_search" /\ Reasons[8] = "search_budget"
    /\ Reasons[9] = "search_streak" /\ Reasons[10] = "covered_read"
    /\ DOMAIN Reasons = 1 .. 10
BY DEF Reasons, ReasonNames

\* A reason that is given applies, and where none is given none applies.
LEMMA GuardApplies ==
    ASSUME NEW c
    PROVE  /\ Guard(c) \in ReasonNames \cup {"none"}
           /\ Guard(c) # "none" => Applies(Guard(c), c)
           /\ Guard(c) = "none" => \A r \in ReasonNames : ~Applies(r, c)
<1>1. \A r \in ReasonNames : \E n \in 1 .. 10 : Reasons[n] = r
  BY ReasonsInOrder DEF ReasonNames
<1>2. "none" \notin ReasonNames
  BY DEF ReasonNames
<1> QED BY <1>1, <1>2, GuardIsFirst, ReasonsInOrder

\* A call without access to the web, or before the evidence is there, is
\* refused for that and not answered from earlier results.
LEMMA AccessComesFirst ==
    ASSUME NEW c, Applies("local_only", c) \/ Applies("local_first", c)
    PROVE  Guard(c) \in {"local_only", "local_first"}
<1>1. \A n \in 3 .. 10 : 1 \in 1 .. n - 1 /\ 2 \in 1 .. n - 1
  OBVIOUS
<1>2. "none" \notin ReasonNames /\ {"local_only", "local_first"} \subseteq ReasonNames
  BY DEF ReasonNames
<1>3. PICK n \in 1 .. 10 : /\ Guard(c) = Reasons[n]
                           /\ \A m \in 1 .. n - 1 : ~Applies(Reasons[m], c)
  BY <1>2, GuardIsFirst, ReasonsInOrder
<1>4. n \in {1, 2}
  BY <1>1, <1>3, ReasonsInOrder
<1> QED BY <1>3, <1>4, ReasonsInOrder

\* A decision is one of three.
LEMMA DecisionTypes ==
    ASSUME NEW p \in UserPolicies, NEW c, c.tool \in Tools
    PROVE  Decide(c, p) \in {"allow", "ask", "deny"}
<1>1. Assess(c).category \in Categories
  BY DEF Assess, AssessBrowser, AssessServer, AssessWrite, Risk, Categories
<1>2. p.rules \in [Categories -> Rules]
  BY DEF UserPolicies
<1>3. p.rules[Assess(c).category] \in Rules
  BY <1>1, <1>2
<1> QED BY <1>3 DEF Decide, Rules

\* What the policy does not offer it denies.
LEMMA UnofferedIsDenied ==
    ASSUME NEW p \in UserPolicies, NEW c,
           c.tool \in Tools, ~Offered(c.tool, p)
    PROVE  Decide(c, p) = "deny"
<1> DEFINE t == c.tool
<1>0. ASSUME Closed(t, p) \/ p.rules[Assess(c).category] = "deny"
      PROVE  Decide(c, p) = "deny"
  BY <1>0 DEF Decide
<1>1. CASE t = "preview_project"
  <2>1. Assess(c).category = "browser_interaction"
    BY <1>1 DEF Assess, Risk, LocalReads, WebReads, FileWrites, HardStops
  <2>2. Closed(t, p) \/ p.rules["browser_interaction"] = "deny"
    BY <1>1 DEF Offered, Closed, LocalReads, WebReads, FileWrites
  <2> QED BY <1>0, <2>1, <2>2
<1>2. CASE t = "execute_command"
  <2>1. Assess(c).category = "command_execute"
    BY <1>2 DEF Assess, Risk, LocalReads, WebReads, FileWrites, HardStops
  <2>2. ~(/\ p.read /\ p.write /\ p.web
          /\ \A k \in CommandReach \cup {"command_execute"} :
                 p.rules[k] # "deny")
    BY <1>2 DEF Offered, LocalReads, WebReads, FileWrites
  <2>3. Closed(t, p) \/ p.rules["command_execute"] = "deny"
    BY <1>2, <2>2 DEF Closed
  <2> QED BY <1>0, <2>1, <2>3
<1>3. CASE t \in LocalReads
  BY <1>3 DEF Offered, Decide, Closed, Assess, Risk, LocalReads, FileWrites,
              WebReads, HardStops
<1>4. CASE t \in WebReads
  BY <1>4 DEF Offered, Decide, Closed, Assess, Risk, LocalReads, FileWrites,
              WebReads, HardStops
<1>5. CASE t \in FileWrites
  BY <1>5 DEF Offered, Decide, Closed, LocalReads, FileWrites, WebReads
<1>6. CASE t \in {"computer_use", "mcp"}
  BY <1>6 DEF Offered, Decide, Closed, LocalReads, FileWrites, WebReads
<1>7. CASE t \in HardStops \cup {"delete_file", "other"}
  BY <1>7 DEF Offered, LocalReads, FileWrites, WebReads, HardStops
<1> QED BY <1>1, <1>2, <1>3, <1>4, <1>5, <1>6, <1>7 DEF Tools

----------------------------------------------------------------------------
(* The inductive invariant.                                                 *)

\* An answered call at place i: its fields are of their kinds, and a read that
\* is signed with a version quotes the file at that version.
CallEntry(e, i) ==
    /\ e.tool \in Tools /\ e.status \in Statuses
    /\ e.lo \in Nat /\ e.hi \in Nat
    /\ e.tool \in ReadTools \cup FileWrites => e.target \in Files
    /\ e.head \in 1 .. i
    /\ e.version \in 0 .. clock /\ e.shown \in 0 .. clock /\ e.live \in 0 .. clock
    /\ e.from \in 0 .. i - 1
    /\ (e.tool \in ReadTools /\ e.status = "succeeded" /\ e.version # 0) =>
           e.shown = e.version

LogInv ==
    /\ IsLog(log)
    /\ log # <<>> => log[1].tool = "user"
    /\ \A i \in DOMAIN log :
          IF log[i].tool = "user"
          THEN log[i].turn \in Requests /\ log[i].head \in 1 .. i
          ELSE CallEntry(log[i], i)

DiskInv ==
    /\ disk \in [Paths -> 0 .. clock]
    /\ clock \in 1 .. MaxClock
    /\ policy \in Policies

\* What is known of the call at work.
WorkInv ==
    /\ work = [head |-> work.head, call |-> work.call, asked |-> work.asked,
               seen |-> work.seen, source |-> work.source]
    /\ work.seen \in 0 .. clock
    /\ phase \in {"idle", "build", "calls", "approve", "tool", "returned"}
    /\ phase # "idle" => log # <<>>
    /\ phase \notin {"idle", "build"} =>
          /\ work.head \in 1 .. Len(log) + 1
          /\ \A i \in work.head .. Len(log) : log[i].tool # "user"
    /\ phase \in {"approve", "tool", "returned"} => work.call \in AllCalls
    /\ phase = "returned" => /\ work.call.tool \in ReadTools
                             /\ work.source \in {0, work.seen}

TypeInv == LogInv /\ DiskInv /\ WorkInv /\ view.intact \subseteq view.kept

\* Tools have names of their own.
LEMMA UserIsNoTool == "user" \notin Tools
BY DEF Tools, LocalReads, WebReads, FileWrites, HardStops

\* What is known of a call that may be proposed.
LEMMA CallTypes ==
    ASSUME NEW c \in AllCalls
    PROVE  /\ c.tool \in Tools /\ c.tool # "user"
           /\ c.lo \in Nat /\ c.hi \in Nat
           /\ c.tool \in ReadTools \cup FileWrites => c.target \in Files
           /\ c.tool = "list_files" => c.target = Dir
<1>1. [tool |-> c.tool, aspect |-> c.aspect] \in ToolCalls
  BY GuardAssumption
<1>2. c.tool \in Tools
  BY <1>1 DEF ToolCalls
<1> QED BY <1>2, GuardAssumption, UserIsNoTool

\* There is a latest message of the user, and what it asks for is known.
LEMMA TurnIsThere ==
    ASSUME LogInv, log # <<>>
    PROVE  /\ Turn \in 1 .. Len(log) /\ Len(log) \in Nat
           /\ DOMAIN log = 1 .. Len(log)
           /\ log[Turn].tool = "user"
           /\ \A i \in UserEntries(log) : i <= Turn
           /\ Request \in Requests
           /\ Request \in TurnRequests
<1>1. /\ Len(log) \in Nat /\ DOMAIN log = 1 .. Len(log)
      /\ 1 \in DOMAIN log
  <2>1. Len(log) \in Nat /\ DOMAIN log = 1 .. Len(log)
    BY LenProperties DEF LogInv, IsLog
  <2>2. Len(log) # 0
    BY <2>1, EmptySeq DEF LogInv, IsLog
  <2> QED BY <2>1, <2>2
<1>2. UserEntries(log) \in SUBSET (1 .. Len(log)) /\ 1 \in UserEntries(log)
  BY <1>1 DEF LogInv, UserEntries
<1>3. /\ Turn \in UserEntries(log)
      /\ \A i \in UserEntries(log) : i <= Turn
  BY <1>1, <1>2, LastIsLast DEF Turn
<1>4. Turn \in 1 .. Len(log) /\ log[Turn].tool = "user"
  BY <1>2, <1>3 DEF UserEntries
<1>5. Request \in Requests
  BY <1>1, <1>4 DEF LogInv, Request
<1> QED BY <1>1, <1>3, <1>4, <1>5, GuardAssumption

\* A call of the latest turn is a call.
LEMMA ProposedIsCall ==
    ASSUME LogInv, log # <<>>, NEW c \in Calls[Request]
    PROVE  c \in AllCalls
BY TurnIsThere DEF AllCalls

----------------------------------------------------------------------------
(* What a step adds to the log.                                             *)

\* The answer e repeats what the answer s quotes, for all it asks for, and that
\* is what the file held when e was given.
Repeats(e, s) ==
    /\ s.shown = e.live
    /\ s.lo <= e.lo
    /\ EndOf(s) >= EndOf(e)

\* The call c is answered by the entry e.
NewAnswer(c, e) ==
    /\ phase \notin {"idle", "build"}
    /\ log' = Append(log, e)
    /\ phase' = "calls" /\ work' = [NoWork EXCEPT !.head = work.head]
    /\ UNCHANGED <<policy, view>>
    /\ e.tool = c.tool /\ e.target = c.target /\ e.lo = c.lo /\ e.hi = c.hi
    /\ e.head = work.head
    /\ e.status \in Statuses
    /\ e.version \in 0 .. clock' /\ e.shown \in 0 .. clock' /\ e.live \in 0 .. clock'
    /\ e.from \in 0 .. Len(log)
    /\ (e.tool \in ReadTools /\ e.status = "succeeded" /\ e.version # 0) =>
           e.shown = e.version
    /\ (e.tool \in ReadTools /\ e.status = "skipped" /\ e.from # 0) =>
           Repeats(e, log[e.from])
    /\ (e.tool = "web_search" /\ e.status = "succeeded") =>
           phase = "tool" /\ c = work.call /\ e.asked = work.asked

\* The entry an answer is built from, field by field.
LEMMA EntryFields ==
    ASSUME NEW c, NEW status, NEW reason, NEW units
    PROVE  Entry(c, status, reason, units) =
             [tool |-> c.tool, target |-> c.target, lo |-> c.lo, hi |-> c.hi,
              status |-> status, reason |-> reason, units |-> units,
              head |-> 0, version |-> 0, shown |-> 0,
              live |-> IF c.target \in Paths THEN disk[c.target] ELSE 0,
              from |-> 0, asked |-> FALSE]
BY DEF Entry

\* A path's version is one that was given.
LEMMA LiveIsGiven ==
    ASSUME DiskInv, NEW c
    PROVE  /\ (IF c.target \in Paths THEN disk[c.target] ELSE 0) \in 0 .. clock
           /\ clock \in Nat
           /\ \A p \in Paths : disk[p] \in 0 .. clock
           /\ Dir \in Paths /\ Files \subseteq Paths
BY GuardAssumption DEF DiskInv, Paths

\* What a repeated answer goes back to.
LEMMA SourceIsCurrent ==
    ASSUME LogInv, DiskInv, log # <<>>, NEW c \in AllCalls, Guard(c) \in Reuse
    PROVE  LET from == Source(Guard(c), c)
           IN  /\ from \in 1 .. Len(log)
               /\ log[from].tool # "user"
               /\ c.tool \in ReadTools =>
                      /\ log[from].shown = disk[c.target]
                      /\ log[from].lo <= c.lo
                      /\ EndOf(log[from]) >= EndOf(c)
<1>1. /\ DOMAIN log = 1 .. Len(log) /\ Len(log) \in Nat
      /\ Turn \in 1 .. Len(log)
  BY TurnIsThere
<1>2. Applies(Guard(c), c)
  BY GuardApplies DEF Reuse
<1>3. ASSUME NEW S \in SUBSET (1 .. Len(log)), S # {},
             Source(Guard(c), c) = LastOf(S)
      PROVE  Source(Guard(c), c) \in S
  BY <1>1, <1>3, LastIsLast
<1>4. /\ c.lo \in Nat /\ c.hi \in Nat /\ c.tool # "user"
      /\ Length \in Nat
  BY CallTypes, GuardAssumption
<1>5. \A i \in 1 .. Len(log) : log[i].tool # "user" => CallEntry(log[i], i)
  BY <1>1 DEF LogInv
<1>6. CASE Guard(c) = "duplicate_read"
  <2>1. Duplicates(c) # {} /\ Duplicates(c) \in SUBSET (1 .. Len(log))
    BY <1>1, <1>2, <1>6 DEF Applies, Duplicates
  <2>2. PICK i : i = Source(Guard(c), c) /\ i \in Duplicates(c)
    BY <1>3, <1>6, <2>1 DEF Source
  <2>3. /\ i \in 1 .. Len(log) /\ log[i].tool # "user"
        /\ Signed(i) /\ SameSignature(log[i], c)
    BY <1>1, <2>2 DEF Duplicates
  <2>4. CASE c.tool \in ReadTools
    <3>1. /\ log[i].status = "succeeded" /\ log[i].tool \in ReadTools
          /\ log[i].version # 0 /\ log[i].version = disk[c.target]
          /\ log[i].lo = c.lo /\ log[i].hi = c.hi
      BY <2>3, <2>4 DEF Signed, SameSignature, IsCurrent, ReadTools, WebReads
    <3>2. log[i].shown = disk[c.target]
      BY <1>5, <2>3, <3>1 DEF CallEntry
    <3>3. EndOf(log[i]) = EndOf(c) /\ EndOf(c) \in Nat
      BY <1>4, <3>1 DEF EndOf, Truncated
    <3> QED BY <1>4, <2>2, <2>3, <3>1, <3>2, <3>3
  <2> QED BY <2>2, <2>3, <2>4
<1>7. CASE Guard(c) = "similar_search"
  <2>1. Similar(c) # {} /\ Similar(c) \in SUBSET (1 .. Len(log))
    BY <1>1, <1>2, <1>7 DEF Applies, Similar, Found, Searches, ThisTurn
  <2>2. PICK i : i = Source(Guard(c), c) /\ i \in Similar(c)
    BY <1>3, <1>7, <2>1 DEF Source
  <2>3. i \in 1 .. Len(log) /\ log[i].tool = "web_search"
    BY <2>1, <2>2 DEF Similar, Found, Searches
  <2>4. c.tool \notin ReadTools
    BY <2>2 DEF Similar, ReadTools
  <2> QED BY <2>2, <2>3, <2>4
<1>8. CASE Guard(c) = "covered_read"
  <2>1. Covering(c) # {} /\ Covering(c) \in SUBSET (1 .. Len(log))
    BY <1>1, <1>2, <1>8 DEF Applies, Covering, TextReads
  <2>2. PICK i : i = Source(Guard(c), c) /\ i \in Covering(c)
    BY <1>3, <1>8, <2>1 DEF Source
  <2>3. /\ i \in 1 .. Len(log)
        /\ log[i].tool = "read_file" /\ log[i].status = "succeeded"
        /\ log[i].target = c.target /\ IsCurrent(log[i])
        /\ log[i].lo <= c.lo
        /\ EndOf(log[i]) >= c.hi \/ ~Truncated(log[i])
    BY <2>1, <2>2 DEF Covering, TextReads
  <2>4. log[i].version # 0 /\ log[i].version = disk[c.target]
    BY <2>3 DEF IsCurrent
  <2>5. CallEntry(log[i], i) /\ log[i].tool \in ReadTools
    BY <1>5, <2>3 DEF ReadTools
  <2>6. log[i].shown = disk[c.target] /\ log[i].hi \in Nat
    BY <2>3, <2>4, <2>5 DEF CallEntry
  <2>7. EndOf(log[i]) >= EndOf(c)
    BY <1>4, <2>3, <2>6 DEF EndOf, Truncated
  <2> QED BY <2>2, <2>3, <2>6, <2>7
<1> QED BY <1>6, <1>7, <1>8 DEF Reuse

\* A call that is denied, or skipped without a repetition.
LEMMA DenyAnswers ==
    ASSUME TypeInv, phase \notin {"idle", "build"}, UNCHANGED <<disk, clock, policy, view>>,
           NEW c \in AllCalls, NEW status \in {"denied", "failed"}, NEW reason,
           NEW units, Answer(Entry(c, status, reason, units))
    PROVE  \E e : NewAnswer(c, e)
<1>1. PICK e : e = [Entry(c, status, reason, units) EXCEPT !.head = work.head]
  OBVIOUS
<1>2. /\ e.tool = c.tool /\ e.target = c.target /\ e.lo = c.lo /\ e.hi = c.hi
      /\ e.head = work.head /\ e.status = status
      /\ e.version = 0 /\ e.shown = 0 /\ e.from = 0
      /\ e.live = IF c.target \in Paths THEN disk[c.target] ELSE 0
  BY <1>1, EntryFields
<1>3. e.live \in 0 .. clock /\ clock \in Nat
  BY <1>2, LiveIsGiven DEF TypeInv
<1>4. Len(log) \in Nat
  BY TurnIsThere DEF TypeInv, WorkInv
<1>5. log' = Append(log, e) /\ phase' = "calls" /\ work' = [NoWork EXCEPT !.head = work.head]
  BY <1>1 DEF Answer
<1> QED BY <1>2, <1>3, <1>4, <1>5 DEF NewAnswer, Statuses

\* A call that is skipped, with or without a repetition.
LEMMA SkipAnswers ==
    ASSUME TypeInv, phase = "calls", UNCHANGED <<disk, clock, policy, view>>,
           NEW c \in AllCalls, Guard(c) # "none", Skip(c, Guard(c))
    PROVE  \E e : NewAnswer(c, e)
<1> DEFINE reason == Guard(c)
           from == IF reason \in Reuse THEN Source(reason, c) ELSE 0
           full == from # 0 /\ from \notin view.intact
           units == IF full THEN Units(c) ELSE 1
           shown == IF from = 0 THEN 0 ELSE log[from].shown
           answer == [Entry(c, "skipped", reason, units)
                         EXCEPT !.from = from, !.shown = shown]
<1>1. PICK e : e = [answer EXCEPT !.head = work.head]
  OBVIOUS
<1>2. log' = Append(log, e) /\ phase' = "calls" /\ work' = [NoWork EXCEPT !.head = work.head]
  BY <1>1 DEF Answer, Skip
<1> HIDE DEF units, full
<1>3. /\ e.tool = c.tool /\ e.target = c.target /\ e.lo = c.lo /\ e.hi = c.hi
      /\ e.head = work.head /\ e.status = "skipped"
      /\ e.version = 0 /\ e.shown = shown /\ e.from = from
      /\ e.live = IF c.target \in Paths THEN disk[c.target] ELSE 0
  BY <1>1, EntryFields
<1>4. log # <<>>
  BY DEF TypeInv, WorkInv
<1>5. from # 0 =>
        /\ from \in 1 .. Len(log) /\ log[from].tool # "user"
        /\ c.tool \in ReadTools => /\ log[from].shown = disk[c.target]
                                  /\ log[from].lo <= c.lo
                                  /\ EndOf(log[from]) >= EndOf(c)
  BY <1>4, SourceIsCurrent DEF TypeInv
<1> HIDE DEF from, reason
<1>6. Len(log) \in Nat /\ DOMAIN log = 1 .. Len(log)
  BY <1>4, TurnIsThere DEF TypeInv
<1>7. /\ e.live \in 0 .. clock /\ clock \in Nat
      /\ c.tool \in ReadTools => e.live = disk[c.target]
  BY <1>3, LiveIsGiven, CallTypes DEF TypeInv
<1>8. shown \in 0 .. clock
  BY <1>5, <1>6, <1>7 DEF TypeInv, LogInv, CallEntry
<1>9. EndOf(e) = EndOf(c)
  BY <1>3 DEF EndOf, Truncated
<1>10. (e.tool \in ReadTools /\ e.from # 0) => Repeats(e, log[e.from])
  BY <1>3, <1>5, <1>7, <1>9 DEF Repeats
<1>11. e.from \in 0 .. Len(log)
  BY <1>3, <1>5, <1>6
<1> QED BY <1>2, <1>3, <1>7, <1>8, <1>10, <1>11 DEF NewAnswer, Statuses

\* What a call that was run answers: nothing is repeated, and a read is signed
\* with the version it quotes or with none.
LEMMA RunAnswers ==
    ASSUME TypeInv, phase \in {"tool", "returned"}, NEW e,
           clock' \in {clock, clock + 1},
           /\ log' = Append(log, e) /\ phase' = "calls"
           /\ work' = [NoWork EXCEPT !.head = work.head],
           UNCHANGED <<policy, view>>,
           /\ e.tool = work.call.tool /\ e.target = work.call.target
           /\ e.lo = work.call.lo /\ e.hi = work.call.hi
           /\ e.head = work.head /\ e.status \in {"succeeded", "failed"}
           /\ e.version \in 0 .. clock' /\ e.shown \in 0 .. clock'
           /\ e.live \in 0 .. clock' /\ e.from = 0 /\ e.asked = work.asked,
           (e.tool \in ReadTools /\ e.status = "succeeded" /\ e.version # 0) =>
               e.shown = e.version,
           e.tool = "web_search" => phase = "tool"
    PROVE  \E c \in AllCalls : NewAnswer(c, e)
<1>1. Len(log) \in Nat /\ work.call \in AllCalls
  BY TurnIsThere DEF TypeInv, WorkInv
<1> QED BY <1>1 DEF NewAnswer, Statuses

\* A call that is answered at once.
LEMMA ProposeAnswers ==
    ASSUME TypeInv, log # <<>>, NEW c \in Calls[Request], Propose(c)
    PROVE  \/ UNCHANGED log
           \/ \E k \in AllCalls : \E e : NewAnswer(k, e)
<1>1. c \in AllCalls /\ phase = "calls" /\ UNCHANGED <<disk, clock, policy, view>>
  BY ProposedIsCall DEF Propose, TypeInv
<1>2. CASE Deny(c)
  BY <1>1, <1>2, DenyAnswers DEF Deny
<1>3. CASE \E n \in DOMAIN Reasons : Reasons[n] = Outcome(c) /\ Skip(c, Outcome(c))
  <2>1. Outcome(c) \in ReasonNames
    BY <1>3, ReasonsInOrder
  <2>2. Decide(c, policy) \notin ReasonNames
    BY DecisionTypes, CallTypes, GuardAssumption, <1>1 DEF ReasonNames, TypeInv, DiskInv
  <2>3. Outcome(c) = Guard(c) /\ Guard(c) # "none"
    BY <2>1, <2>2 DEF Outcome
  <2> QED BY <1>1, <1>3, <2>3, SkipAnswers
<1>4. CASE Open(c, FALSE) \/ AskUser(c)
  BY <1>4 DEF Open, AskUser
<1> QED BY <1>2, <1>3, <1>4 DEF Propose

\* The steps that answer a call that was run.
Recorded ==
    \/ RecordRead \/ FailRead \/ RecordList \/ RecordWrite
    \/ \E status \in {"succeeded", "failed"}, reason \in {"", "error", "all_providers"} :
           RecordOther(status, reason)

\* A call that was run is answered.
LEMMA ToolAnswers ==
    ASSUME TypeInv, Recorded
    PROVE  \E c \in AllCalls : \E e : NewAnswer(c, e)
<1>0. PICK c : c = work.call
  OBVIOUS
<1>1. phase \in {"tool", "returned"} /\ c \in AllCalls
  BY <1>0 DEF Recorded, RecordRead, FailRead, RecordList, RecordWrite, RecordOther, TypeInv,
              WorkInv
<1>2. c.tool \in ReadTools \cup FileWrites => c.target \in Paths
  BY <1>1, LiveIsGiven, CallTypes DEF TypeInv
<1>a. /\ Dir \in Paths
      /\ \A p \in Paths : disk[p] \in 0 .. clock
      /\ work.seen \in 0 .. clock
  BY LiveIsGiven DEF TypeInv, WorkInv
<1>b. clock \in Nat
  BY LiveIsGiven DEF TypeInv
<1>c. 0 \in 0 .. clock
  BY <1>b
<1>d. (IF c.target \in Paths THEN disk[c.target] ELSE 0) \in 0 .. clock
  BY LiveIsGiven DEF TypeInv
<1>3. "web_search" \notin ReadTools \cup {"list_files"} \cup FileWrites
  BY DEF ReadTools, FileWrites
<1>4. CASE RecordRead
  <2> DEFINE version == IF work.source = disk[c.target] THEN work.source ELSE 0
  <2>1. PICK e : e = [[Entry(c, "succeeded", "", Units(c)) EXCEPT
                          !.version = version, !.shown = work.seen,
                          !.asked = work.asked] EXCEPT !.head = work.head]
    OBVIOUS
  <2>2. /\ log' = Append(log, e) /\ phase' = "calls"
        /\ work' = [NoWork EXCEPT !.head = work.head]
        /\ UNCHANGED <<disk, clock, policy, view>>
        /\ phase = "returned"
    BY <1>0, <1>4, <2>1 DEF RecordRead, Answer
  <2>3. c.tool \in ReadTools /\ version \in {0, work.seen}
    BY <1>0, <2>2 DEF TypeInv, WorkInv
  <2> HIDE DEF version
  <2>4. /\ e.tool = c.tool /\ e.target = c.target /\ e.lo = c.lo /\ e.hi = c.hi
        /\ e.head = work.head /\ e.status = "succeeded"
        /\ e.version = version /\ e.shown = work.seen /\ e.from = 0
        /\ e.asked = work.asked
    BY <2>1, EntryFields
  <2>l. e.live \in 0 .. clock
    BY <1>d, <2>1, EntryFields
  <2>5. e.version \in 0 .. clock /\ e.shown \in 0 .. clock
    BY <1>2, <1>a, <1>c, <2>3, <2>4
  <2>6. /\ clock' \in {clock, clock + 1}
        /\ e.version \in 0 .. clock' /\ e.live \in 0 .. clock' /\ e.shown \in 0 .. clock'
        /\ UNCHANGED <<policy, view>>
    BY <2>2, <2>5, <2>l
  <2> QED BY <1>0, <1>1, <1>3, <2>2, <2>3, <2>4, <2>6, RunAnswers
<1>5. CASE FailRead
  <2>0. PICK reason \in {"invalid", "error"} :
           Answer([Entry(c, "failed", reason, 1) EXCEPT
                      !.version = IF reason = "invalid" THEN disk[c.target] ELSE 0,
                      !.asked = work.asked])
    BY <1>0, <1>5 DEF FailRead
  <2> DEFINE version == IF reason = "invalid" THEN disk[c.target] ELSE 0
  <2>1. PICK e : e = [[Entry(c, "failed", reason, 1) EXCEPT
                          !.version = version, !.asked = work.asked]
                        EXCEPT !.head = work.head]
    OBVIOUS
  <2>2. /\ log' = Append(log, e) /\ phase' = "calls"
        /\ work' = [NoWork EXCEPT !.head = work.head]
        /\ UNCHANGED <<disk, clock, policy, view>>
        /\ c.tool \in ReadTools
    BY <1>0, <1>5, <2>0, <2>1 DEF FailRead, Answer
  <2>v. version \in 0 .. clock
    BY <1>2, <1>a, <1>c, <2>2
  <2> HIDE DEF version
  <2>3. /\ e.tool = c.tool /\ e.target = c.target /\ e.lo = c.lo /\ e.hi = c.hi
        /\ e.head = work.head /\ e.status = "failed"
        /\ e.version = version /\ e.shown = 0 /\ e.from = 0
        /\ e.asked = work.asked
    BY <2>1, EntryFields
  <2>l. e.live \in 0 .. clock
    BY <1>d, <2>1, EntryFields
  <2>4. e.version \in 0 .. clock /\ e.shown \in 0 .. clock
    BY <1>c, <2>v, <2>3
  <2>5. /\ clock' \in {clock, clock + 1}
        /\ e.version \in 0 .. clock' /\ e.live \in 0 .. clock' /\ e.shown \in 0 .. clock'
        /\ UNCHANGED <<policy, view>>
    BY <2>2, <2>4, <2>l
  <2> QED BY <1>0, <1>1, <1>3, <2>2, <2>3, <2>5, RunAnswers
<1>6. CASE RecordList
  <2>1. PICK e : e = [[Entry(c, "succeeded", "", 1) EXCEPT
                          !.version = disk[Dir], !.shown = work.seen,
                          !.asked = work.asked] EXCEPT !.head = work.head]
    OBVIOUS
  <2>2. /\ log' = Append(log, e) /\ phase' = "calls"
        /\ work' = [NoWork EXCEPT !.head = work.head]
        /\ UNCHANGED <<disk, clock, policy, view>>
        /\ c.tool \notin ReadTools /\ c.tool # "web_search"
    BY <1>0, <1>6, <2>1 DEF RecordList, Answer, ReadTools
  <2>3. /\ e.tool = c.tool /\ e.target = c.target /\ e.lo = c.lo /\ e.hi = c.hi
        /\ e.head = work.head /\ e.status = "succeeded"
        /\ e.version = disk[Dir] /\ e.shown = work.seen /\ e.from = 0
        /\ e.asked = work.asked
    BY <2>1, EntryFields
  <2>l. e.live \in 0 .. clock
    BY <1>d, <2>1, EntryFields
  <2>4. e.version \in 0 .. clock /\ e.shown \in 0 .. clock
    BY <1>2, <1>a, <1>c, <2>3
  <2>5. /\ clock' \in {clock, clock + 1}
        /\ e.version \in 0 .. clock' /\ e.live \in 0 .. clock' /\ e.shown \in 0 .. clock'
        /\ UNCHANGED <<policy, view>>
    BY <2>2, <2>4, <2>l
  <2> QED BY <1>0, <1>1, <2>2, <2>3, <2>5, RunAnswers
<1>7. CASE RecordWrite
  <2>1. PICK e : e = [[Entry(c, "succeeded", "", 1) EXCEPT
                          !.shown = disk[c.target], !.live = clock + 1,
                          !.asked = work.asked] EXCEPT !.head = work.head]
    OBVIOUS
  <2>2. /\ log' = Append(log, e) /\ phase' = "calls"
        /\ work' = [NoWork EXCEPT !.head = work.head]
        /\ UNCHANGED <<policy, view>> /\ clock' = clock + 1
        /\ c.tool \in FileWrites /\ c.tool \notin ReadTools /\ c.tool # "web_search"
    BY <1>0, <1>7, <2>1 DEF RecordWrite, Answer, ReadTools, FileWrites
  <2>3. /\ e.tool = c.tool /\ e.target = c.target /\ e.lo = c.lo /\ e.hi = c.hi
        /\ e.head = work.head /\ e.status = "succeeded"
        /\ e.version = 0 /\ e.shown = disk[c.target] /\ e.from = 0
        /\ e.live = clock + 1
        /\ e.asked = work.asked
    BY <2>1, EntryFields
  <2>4. /\ 0 .. clock \subseteq 0 .. clock + 1 /\ clock + 1 \in 0 .. clock + 1
        /\ disk[c.target] \in 0 .. clock
    BY <1>2, <1>a, <1>b, <2>2
  <2>5. e.version \in 0 .. clock' /\ e.live \in 0 .. clock' /\ e.shown \in 0 .. clock'
    BY <1>c, <2>2, <2>3, <2>4
  <2> QED BY <1>0, <1>1, <2>2, <2>3, <2>5, RunAnswers
<1>8. ASSUME NEW status \in {"succeeded", "failed"}, NEW reason,
             RecordOther(status, reason)
      PROVE  \E k \in AllCalls : \E e : NewAnswer(k, e)
  <2>1. PICK e : e = [[Entry(c, status, reason, 1) EXCEPT !.asked = work.asked]
                        EXCEPT !.head = work.head]
    OBVIOUS
  <2>2. /\ log' = Append(log, e) /\ phase' = "calls"
        /\ work' = [NoWork EXCEPT !.head = work.head]
        /\ UNCHANGED <<disk, clock, policy, view>>
        /\ phase = "tool" /\ c.tool \notin ReadTools
    BY <1>0, <1>8, <2>1 DEF RecordOther, Answer, Versioned
  <2>3. /\ e.tool = c.tool /\ e.target = c.target /\ e.lo = c.lo /\ e.hi = c.hi
        /\ e.head = work.head /\ e.status = status
        /\ e.version = 0 /\ e.shown = 0 /\ e.from = 0
        /\ e.asked = work.asked
    BY <2>1, EntryFields
  <2>l. e.live \in 0 .. clock
    BY <1>d, <2>1, EntryFields
  <2>4. e.version \in 0 .. clock /\ e.shown \in 0 .. clock
    BY <1>2, <1>a, <1>c, <2>3
  <2>5. /\ clock' \in {clock, clock + 1}
        /\ e.version \in 0 .. clock' /\ e.live \in 0 .. clock' /\ e.shown \in 0 .. clock'
        /\ UNCHANGED <<policy, view>>
    BY <2>2, <2>4, <2>l
  <2> QED BY <1>0, <1>1, <2>2, <2>3, <2>5, RunAnswers
<1> QED BY <1>4, <1>5, <1>6, <1>7, <1>8 DEF Recorded

\* A message of the user, after what is kept of the log.
NewMessage ==
    /\ phase = "idle" /\ phase' = "build" /\ UNCHANGED <<work, view>>
    /\ \E r \in Requests :
          \/ log' = Append(log, UserEntry(r, FALSE, Len(log) + 1))
          \/ \E h \in CallHeads(log) :
                log' = Append(SubSeq(log, 1, h - 1), UserEntry(r, TRUE, h))

\* The log stays as it is, or a message comes, or a call is answered.
LEMMA LogSteps ==
    ASSUME TypeInv, [Next]_vars
    PROVE  \/ UNCHANGED log
           \/ NewMessage
           \/ \E c \in AllCalls : \E e : NewAnswer(c, e)
<1>1. ASSUME NEW r \in Requests, NEW p \in Policies, NewTurn(r, p)
      PROVE  NewMessage
  BY <1>1 DEF NewTurn, NewMessage
<1>2. ASSUME NEW r \in Requests, NEW h \in CallHeads(log), RewindTurn(r, h)
      PROVE  NewMessage
  BY <1>2 DEF RewindTurn, NewMessage
<1>3. ASSUME NEW c \in IF log = <<>> THEN {} ELSE Calls[Request], Propose(c)
      PROVE  UNCHANGED log \/ \E k \in AllCalls : \E e : NewAnswer(k, e)
  <2>1. log # <<>> /\ c \in Calls[Request]
    BY <1>3
  <2> QED BY <1>3, <2>1, ProposeAnswers
<1>4. ASSUME Decline
      PROVE  \E c \in AllCalls : \E e : NewAnswer(c, e)
  <2>1. /\ phase = "approve" /\ UNCHANGED <<disk, clock, policy, view>>
        /\ Answer(Entry(work.call, "denied", "user_declined", 1))
    BY <1>4 DEF Decline
  <2>2. PICK c \in AllCalls : c = work.call
    BY <2>1 DEF TypeInv, WorkInv
  <2> QED BY <2>1, <2>2, DenyAnswers
<1>5. CASE Recorded
  BY <1>5, ToolAnswers
<1>6. CASE \/ BuildRequest \/ EndTurn \/ EndGroup \/ Approve \/ Return
           \/ \E f \in Watched : EditFile(f) \/ DeleteFile(f)
  BY <1>6 DEF BuildRequest, EndTurn, EndGroup, Approve, Open, Return, EditFile,
              DeleteFile
<1>7. CASE UNCHANGED vars
  BY <1>7 DEF vars
<1> QED
  BY <1>1, <1>2, <1>3, <1>4, <1>5, <1>6, <1>7 DEF Next, Recorded

\* The clock never goes back, and versions come from it.
LEMMA DiskSteps ==
    ASSUME TypeInv, [Next]_vars
    PROVE  DiskInv' /\ clock' \in {clock, clock + 1}
<1>1. /\ disk \in [Paths -> 0 .. clock] /\ clock \in 1 .. MaxClock
      /\ policy \in Policies /\ MaxClock \in Nat
  BY GuardAssumption DEF TypeInv, DiskInv
<1>2. \A P : Changed(P) \in [Paths -> 0 .. clock + 1]
  BY <1>1 DEF Changed
<1>3. ASSUME UNCHANGED <<disk, clock>>, policy' \in Policies
      PROVE  DiskInv' /\ clock' \in {clock, clock + 1}
  BY <1>1, <1>3 DEF DiskInv
<1>4. ASSUME clock < MaxClock, clock' = clock + 1, UNCHANGED policy,
             disk' \in [Paths -> 0 .. clock + 1]
      PROVE  DiskInv' /\ clock' \in {clock, clock + 1}
  BY <1>1, <1>4 DEF DiskInv
<1>5. ASSUME NEW r \in Requests, NEW p \in Policies, NewTurn(r, p)
      PROVE  DiskInv' /\ clock' \in {clock, clock + 1}
  BY <1>3, <1>5 DEF NewTurn
<1>6. ASSUME NEW r \in Requests, NEW h \in CallHeads(log), RewindTurn(r, h)
      PROVE  DiskInv' /\ clock' \in {clock, clock + 1}
  <2> DEFINE gone == {i \in h .. Len(log) : /\ log[i].tool \in FileWrites
                                          /\ log[i].status = "succeeded"}
             files == {log[i].target : i \in gone}
             first(f) == Min({i \in gone : log[i].target = f})
             erased(p) == p \in files /\ log[first(p)].shown = 0
  <2>1. /\ clock < MaxClock /\ UNCHANGED policy
        /\ clock' = IF gone = {} THEN clock ELSE clock + 1
        /\ disk' = [p \in Paths |->
                       IF erased(p) THEN 0
                       ELSE IF gone = {} THEN disk[p] ELSE Changed(files)[p]]
    BY <1>6 DEF RewindTurn
  <2>2. gone = {} => files = {}
    OBVIOUS
  <2>3. gone = {} => \A p \in Paths : ~erased(p)
    BY <2>2
  <2> HIDE DEF gone, files, erased, first
  <2>4. CASE gone = {}
    <3>1. clock' = clock /\ disk' = [p \in Paths |-> disk[p]]
      BY <2>1, <2>3, <2>4
    <3>2. disk' = disk
      BY <1>1, <3>1
    <3> QED BY <1>1, <1>3, <2>1, <3>1, <3>2
  <2>5. CASE gone # {}
    <3>1. disk' = [p \in Paths |-> IF erased(p) THEN 0 ELSE Changed(files)[p]]
      BY <2>1, <2>5
    <3>2. \A p \in Paths : Changed(files)[p] \in 0 .. clock + 1
      BY <1>2
    <3>3. 0 \in 0 .. clock + 1
      BY <1>1
    <3>4. disk' \in [Paths -> 0 .. clock + 1]
      BY <3>1, <3>2, <3>3
    <3> QED BY <1>4, <2>1, <2>5, <3>4
  <2> QED BY <2>4, <2>5
<1>7. ASSUME NEW c \in IF log = <<>> THEN {} ELSE Calls[Request], Propose(c)
      PROVE  DiskInv' /\ clock' \in {clock, clock + 1}
  BY <1>1, <1>3, <1>7 DEF Propose
<1>8. CASE RecordWrite
  BY <1>2, <1>4, <1>8 DEF RecordWrite
<1>9. ASSUME NEW f \in Watched, EditFile(f) \/ DeleteFile(f)
      PROVE  DiskInv' /\ clock' \in {clock, clock + 1}
  <2>1. clock + 1 \in 0 .. clock + 1 /\ 0 \in 0 .. clock + 1
        /\ disk \in [Paths -> 0 .. clock + 1]
    BY <1>1
  <2>2. clock < MaxClock /\ clock' = clock + 1 /\ UNCHANGED policy
    BY <1>9 DEF EditFile, DeleteFile
  <2>3. disk' \in [Paths -> 0 .. clock + 1]
    BY <1>2, <1>9, <2>1 DEF EditFile, DeleteFile
  <2> QED BY <1>4, <2>2, <2>3
<1>10. CASE \/ BuildRequest \/ EndTurn \/ EndGroup \/ Approve \/ Decline
            \/ Return \/ RecordRead \/ FailRead \/ RecordList
            \/ \E s \in {"succeeded", "failed"}, r \in {"", "error", "all_providers"} :
                  RecordOther(s, r)
  BY <1>1, <1>3, <1>10 DEF BuildRequest, EndTurn, EndGroup, Approve, Decline,
     Return, RecordRead, FailRead, RecordList, RecordOther
<1>11. CASE UNCHANGED vars
  BY <1>1, <1>3, <1>11 DEF vars
<1> QED
  BY <1>5, <1>6, <1>7, <1>8, <1>9, <1>10, <1>11 DEF Next

----------------------------------------------------------------------------
(* The invariant is kept.                                                   *)

\* An entry stays what it was when the clock goes on.
LEMMA EntryStays ==
    ASSUME DiskInv, clock' \in {clock, clock + 1}, NEW e, NEW i, CallEntry(e, i)
    PROVE  CallEntry(e, i)'
<1>1. clock \in Nat
  BY LiveIsGiven
<1>2. 0 .. clock \subseteq 0 .. clock'
  BY <1>1
<1> QED BY <1>2 DEF CallEntry

\* What the log looks like after a step.
LEMMA LogGrows ==
    ASSUME LogInv, DiskInv, clock' \in {clock, clock + 1}, NEW n \in Nat, NEW e,
           IsLog(log'), DOMAIN log' = 1 .. n + 1,
           n = 0 \/ 1 .. n \subseteq DOMAIN log,
           \A i \in 1 .. n : log'[i] = log[i],
           log'[n + 1] = e,
           IF e.tool = "user" THEN e.turn \in Requests /\ e.head \in 1 .. n + 1
                              ELSE n # 0 /\ CallEntry(e, n + 1)'
    PROVE  LogInv'
<1>1. \A i \in 1 .. n : i \in DOMAIN log
  OBVIOUS
<1>2. ASSUME NEW i \in DOMAIN log'
      PROVE  (IF log[i].tool = "user"
              THEN log[i].turn \in Requests /\ log[i].head \in 1 .. i
              ELSE CallEntry(log[i], i))'
  <2>1. PICK x : x = log'[i]
    OBVIOUS
  <2>2. CASE i = n + 1
    <3>1. x = e
      BY <2>1, <2>2
    <3>2. IF x.tool = "user" THEN x.turn \in Requests /\ x.head \in 1 .. i
                            ELSE CallEntry(x, i)'
      BY <2>2, <3>1
    <3> QED BY <2>1, <3>2 DEF CallEntry
  <2>3. CASE i \in 1 .. n
    <3>1. x = log[i] /\ i \in DOMAIN log
      BY <1>1, <2>1, <2>3
    <3>2. IF x.tool = "user" THEN x.turn \in Requests /\ x.head \in 1 .. i
                            ELSE CallEntry(x, i)
      BY <3>1 DEF LogInv
    <3>3. IF x.tool = "user" THEN x.turn \in Requests /\ x.head \in 1 .. i
                            ELSE CallEntry(x, i)'
      BY <3>2, EntryStays
    <3> QED BY <2>1, <3>3 DEF CallEntry
  <2>4. i \in 1 .. n + 1
    OBVIOUS
  <2> QED BY <2>2, <2>3, <2>4
<1>3. log'[1].tool = "user"
  <2>1. CASE n = 0
    BY <2>1
  <2>2. CASE n # 0
    <3>1. 1 \in 1 .. n
      BY <2>2
    <3>2. log # <<>>
      BY <1>1, <3>1
    <3> QED BY <3>1, <3>2 DEF LogInv
  <2> QED BY <2>1, <2>2
<1> QED BY <1>2, <1>3 DEF LogInv

\* The heads of groups are places of the log.
LEMMA HeadsArePlaces ==
    ASSUME LogInv, NEW h \in CallHeads(log)
    PROVE  h \in 1 .. Len(log) /\ Len(log) \in Nat
<1>1. DOMAIN log = 1 .. Len(log) /\ Len(log) \in Nat
  BY LenProperties DEF LogInv, IsLog
<1>2. PICK i \in DOMAIN log \ UserEntries(log) : h = log[i].head
  BY DEF CallHeads
<1>3. CallEntry(log[i], i)
  BY <1>2 DEF LogInv, UserEntries
<1> QED BY <1>1, <1>2, <1>3 DEF CallEntry

\* A new message follows what is kept of the log.
LEMMA MessageFollows ==
    ASSUME LogInv, NewMessage
    PROVE  \E n \in Nat : \E e :
              /\ IsLog(log') /\ DOMAIN log' = 1 .. n + 1
              /\ Len(log') = n + 1
              /\ n = 0 \/ 1 .. n \subseteq DOMAIN log
              /\ \A i \in 1 .. n : log'[i] = log[i]
              /\ log'[n + 1] = e
              /\ e.tool = "user" /\ e.turn \in Requests /\ e.head = n + 1
<1>1. DOMAIN log = 1 .. Len(log) /\ Len(log) \in Nat /\ IsLog(log)
  BY LenProperties DEF LogInv, IsLog
<1>2. PICK r \in Requests :
          \/ log' = Append(log, UserEntry(r, FALSE, Len(log) + 1))
          \/ \E h \in CallHeads(log) :
                log' = Append(SubSeq(log, 1, h - 1), UserEntry(r, TRUE, h))
  BY DEF NewMessage
<1>3. CASE log' = Append(log, UserEntry(r, FALSE, Len(log) + 1))
  <2>1. PICK e : e = UserEntry(r, FALSE, Len(log) + 1)
    OBVIOUS
  <2>a. log' = Append(log, e)
    BY <1>3, <2>1
  <2>2. /\ IsLog(log') /\ DOMAIN log' = 1 .. Len(log) + 1
        /\ Len(log') = Len(log) + 1
        /\ \A i \in 1 .. Len(log) : log'[i] = log[i]
        /\ log'[Len(log) + 1] = e
    BY <1>1, <2>a, Appended
  <2>3. e.tool = "user" /\ e.turn \in Requests /\ e.head = Len(log) + 1
    BY <2>1 DEF UserEntry
  <2> QED BY <1>1, <2>2, <2>3
<1>4. ASSUME NEW h \in CallHeads(log),
             log' = Append(SubSeq(log, 1, h - 1), UserEntry(r, TRUE, h))
      PROVE  \E n \in Nat : \E e :
              /\ IsLog(log') /\ DOMAIN log' = 1 .. n + 1
              /\ Len(log') = n + 1
              /\ n = 0 \/ 1 .. n \subseteq DOMAIN log
              /\ \A i \in 1 .. n : log'[i] = log[i]
              /\ log'[n + 1] = e
              /\ e.tool = "user" /\ e.turn \in Requests /\ e.head = n + 1
  <2>1. h \in 1 .. Len(log)
    BY HeadsArePlaces
  <2>2. PICK n \in Nat : n = h - 1
    BY <1>1, <2>1
  <2>3. PICK e : e = UserEntry(r, TRUE, h)
    OBVIOUS
  <2>4. PICK s : s = SubSeq(log, 1, h - 1)
    OBVIOUS
  <2>5. IsLog(s) /\ Len(s) = n /\ \A i \in 1 .. n : s[i] = log[i]
    BY <1>1, <2>1, <2>2, <2>4, CutShort
  <2>a. log' = Append(s, e)
    BY <1>4, <2>3, <2>4
  <2>6. /\ IsLog(log') /\ DOMAIN log' = 1 .. n + 1 /\ Len(log') = n + 1
        /\ \A i \in 1 .. n : log'[i] = log[i]
        /\ log'[n + 1] = e
    BY <2>a, <2>5, Appended
  <2>b. e.tool = "user" /\ e.turn \in Requests /\ e.head = h
    BY <2>3 DEF UserEntry
  <2>7. e.tool = "user" /\ e.turn \in Requests /\ e.head = n + 1
    BY <2>1, <2>2, <2>b
  <2>8. 1 .. n \subseteq DOMAIN log
    BY <1>1, <2>1, <2>2
  <2> QED BY <2>6, <2>7, <2>8
<1> QED BY <1>2, <1>3, <1>4

\* The entry of an answered call is one of its kind.
LEMMA AnswerIsEntry ==
    ASSUME TypeInv, NEW c \in AllCalls, NEW e, NewAnswer(c, e)
    PROVE  /\ e.tool # "user" /\ log # <<>>
           /\ Len(log) \in Nat /\ Len(log) # 0
           /\ \A n : n = Len(log) + 1 => CallEntry(e, n)'
<1>1. log # <<>> /\ work.head \in 1 .. Len(log) + 1
  BY DEF NewAnswer, TypeInv, WorkInv
<1>2. Len(log) \in Nat /\ Turn \in 1 .. Len(log)
  BY <1>1, TurnIsThere DEF TypeInv
<1>3. /\ e.tool \in Tools /\ e.tool # "user" /\ e.lo \in Nat /\ e.hi \in Nat
      /\ e.tool \in ReadTools \cup FileWrites => e.target \in Files
  BY CallTypes DEF NewAnswer
<1>4. ASSUME NEW n, n = Len(log) + 1
      PROVE  CallEntry(e, n)'
  <2>1. e.from \in 0 .. n - 1 /\ e.head \in 1 .. n
    BY <1>1, <1>2, <1>4 DEF NewAnswer
  <2> QED BY <1>3, <2>1 DEF NewAnswer, CallEntry
<1> QED BY <1>1, <1>2, <1>3, <1>4

\* The log keeps its shape.
LEMMA LogKept ==
    ASSUME TypeInv, [Next]_vars
    PROVE  LogInv'
<1>1. LogInv /\ DiskInv /\ clock' \in {clock, clock + 1}
  BY DiskSteps DEF TypeInv
<1>2. CASE UNCHANGED log
  <2>1. \A i \in DOMAIN log : CallEntry(log[i], i) => CallEntry(log[i], i)'
    BY <1>1, <1>2, EntryStays
  <2> QED BY <1>1, <1>2, <2>1 DEF LogInv
<1>3. CASE NewMessage
  BY <1>1, <1>3, MessageFollows, LogGrows
<1>4. ASSUME NEW c \in AllCalls, NEW e, NewAnswer(c, e)
      PROVE  LogInv'
  <2>1. /\ e.tool # "user" /\ Len(log) \in Nat /\ Len(log) # 0
        /\ \A n : n = Len(log) + 1 => CallEntry(e, n)'
    BY <1>4, AnswerIsEntry
  <2>2. PICK n \in Nat : n = Len(log)
    BY <2>1
  <2>3. CallEntry(e, n + 1)'
    BY <2>1, <2>2
  <2>4. /\ IsLog(log') /\ DOMAIN log' = 1 .. n + 1 /\ DOMAIN log = 1 .. n
        /\ \A i \in 1 .. n : log'[i] = log[i]
        /\ log'[n + 1] = e
    BY <1>1, <1>4, <2>2, Appended DEF LogInv, NewAnswer
  <2> QED BY <1>1, <2>1, <2>2, <2>3, <2>4, LogGrows
<1> QED BY <1>2, <1>3, <1>4, LogSteps

\* Nothing is at work between two requests.
LEMMA NoWorkTypes ==
    ASSUME clock' \in Nat, NEW head, work' = [NoWork EXCEPT !.head = head]
    PROVE  /\ work' = [head |-> work'.head, call |-> work'.call,
                       asked |-> work'.asked, seen |-> work'.seen,
                       source |-> work'.source]
           /\ work'.head = head
           /\ work'.seen \in 0 .. clock'
<1>1. work' = [head |-> head, call |-> [tool |-> "none"], asked |-> FALSE,
               seen |-> 0, source |-> 0]
  BY DEF NoWork
<1>2. work'.seen = 0 /\ work'.head = head
  BY <1>1
<1>3. 0 \in 0 .. clock'
  OBVIOUS
<1> QED BY <1>1, <1>2, <1>3

\* The call at work keeps its shape.
LEMMA WorkKept ==
    ASSUME TypeInv, [Next]_vars
    PROVE  WorkInv'
<1>1. /\ LogInv' /\ clock' \in {clock, clock + 1} /\ clock \in Nat /\ clock' \in Nat
      /\ 0 .. clock \subseteq 0 .. clock'
  BY LogKept, DiskSteps, LiveIsGiven DEF TypeInv
<1>2. log # <<>> => Len(log) \in Nat /\ DOMAIN log = 1 .. Len(log)
  BY TurnIsThere DEF TypeInv
<1>3. ASSUME NEW c \in AllCalls, NEW e, NewAnswer(c, e)
      PROVE  WorkInv'
  <2>1. /\ work.head \in 1 .. Len(log) + 1
        /\ \A i \in work.head .. Len(log) : log[i].tool # "user"
        /\ log' = Append(log, e) /\ phase' = "calls"
        /\ work' = [NoWork EXCEPT !.head = work.head]
        /\ log # <<>> /\ e.tool # "user"
    BY <1>3, CallTypes DEF NewAnswer, TypeInv, WorkInv
  <2>2. /\ Len(log') = Len(log) + 1 /\ Len(log) \in Nat
        /\ \A i \in 1 .. Len(log) : log'[i] = log[i]
        /\ log'[Len(log) + 1] = e
    BY <2>1, Appended DEF TypeInv, LogInv
  <2>3. log' # <<>>
    BY <1>1, <2>2, EmptySeq
  <2>4. PICK h : h = work.head
    OBVIOUS
  <2>5. /\ work' = [head |-> work'.head, call |-> work'.call,
                    asked |-> work'.asked, seen |-> work'.seen,
                    source |-> work'.source]
        /\ work'.head = h
        /\ work'.seen \in 0 .. clock'
    BY <1>1, <2>1, <2>4, NoWorkTypes
  <2>6. h \in 1 .. Len(log') + 1
    BY <2>1, <2>2, <2>4
  <2>7. \A i \in h .. Len(log') : log'[i].tool # "user"
    BY <2>1, <2>2, <2>4
  <2> QED BY <2>1, <2>3, <2>5, <2>6, <2>7 DEF WorkInv
<1>4. CASE NewMessage
  <2>1. phase = "idle" /\ phase' = "build" /\ UNCHANGED work
    BY <1>4 DEF NewMessage
  <2>2. log' # <<>>
    BY <1>1, <1>4, MessageFollows, EmptySeq DEF TypeInv
  <2>3. work'.seen \in 0 .. clock'
    BY <1>1, <2>1 DEF TypeInv, WorkInv
  <2> QED BY <2>1, <2>2, <2>3 DEF TypeInv, WorkInv
<1>5. ASSUME UNCHANGED log, phase # "idle", phase' = "build",
             work' = NoWork \/ UNCHANGED work
      PROVE  WorkInv'
  <2>1. CASE UNCHANGED work
    BY <1>1, <1>5, <2>1 DEF TypeInv, WorkInv
  <2>2. CASE work' = NoWork
    <3>1. work' = [NoWork EXCEPT !.head = 0]
      BY <2>2 DEF NoWork
    <3> QED BY <1>1, <1>5, <3>1, NoWorkTypes DEF TypeInv, WorkInv
  <2> QED BY <1>5, <2>1, <2>2
<1>6. ASSUME UNCHANGED log, phase' = "idle", work' = NoWork \/ UNCHANGED work
      PROVE  WorkInv'
  <2>1. CASE UNCHANGED work
    BY <1>1, <1>6, <2>1 DEF TypeInv, WorkInv
  <2>2. CASE work' = NoWork
    <3>1. work' = [NoWork EXCEPT !.head = 0]
      BY <2>2 DEF NoWork
    <3> QED BY <1>1, <1>6, <3>1, NoWorkTypes DEF TypeInv, WorkInv
  <2> QED BY <1>6, <2>1, <2>2
<1>7. CASE BuildRequest
  <2>1. CASE phase' = "idle"
    BY <1>6, <1>7, <2>1 DEF BuildRequest
  <2>2. CASE phase' # "idle"
    <3>1. /\ phase = "build" /\ phase' = "calls" /\ UNCHANGED log
          /\ work' = [NoWork EXCEPT !.head = Len(log) + 1]
      BY <1>7, <2>2 DEF BuildRequest
    <3>2. log # <<>>
      BY <3>1 DEF TypeInv, WorkInv
    <3>3. PICK h : h = Len(log) + 1
      OBVIOUS
    <3>4. /\ work' = [head |-> work'.head, call |-> work'.call,
                      asked |-> work'.asked, seen |-> work'.seen,
                      source |-> work'.source]
          /\ work'.head = h
          /\ work'.seen \in 0 .. clock'
      BY <1>1, <3>1, <3>3, NoWorkTypes
    <3>5. h \in 1 .. Len(log') + 1 /\ \A i \in h .. Len(log') : log'[i].tool # "user"
      BY <1>2, <3>1, <3>2, <3>3
    <3> QED BY <3>1, <3>2, <3>4, <3>5 DEF WorkInv
  <2> QED BY <2>1, <2>2
<1>8. CASE EndTurn \/ EndGroup
  BY <1>5, <1>6, <1>8 DEF EndTurn, EndGroup
<1>9. ASSUME NEW c \in AllCalls, NEW asked \in BOOLEAN, Open(c, asked),
             UNCHANGED <<disk, clock>>, phase \in {"calls", "approve"}
      PROVE  WorkInv'
  <2>1. PICK seen : seen = IF c.target \in Paths THEN disk[c.target] ELSE 0
    OBVIOUS
  <2>2. seen \in 0 .. clock'
    BY <1>9, <2>1, LiveIsGiven DEF TypeInv
  <2>3. /\ work' = [head |-> work.head, call |-> c, asked |-> asked,
                    seen |-> seen, source |-> 0]
        /\ phase' = "tool" /\ UNCHANGED log
    BY <1>9, <2>1 DEF Open
  <2>4. /\ work'.head = work.head /\ work'.call = c /\ work'.asked = asked
        /\ work'.seen = seen /\ work'.source = 0
    BY <2>3
  <2>5. work' = [head |-> work'.head, call |-> work'.call,
                 asked |-> work'.asked, seen |-> work'.seen,
                 source |-> work'.source]
    BY <2>3, <2>4
  <2> QED BY <1>9, <2>2, <2>3, <2>4, <2>5 DEF TypeInv, WorkInv
<1>10. ASSUME NEW c \in IF log = <<>> THEN {} ELSE Calls[Request], Propose(c)
       PROVE  WorkInv'
  <2>1. log # <<>> /\ c \in Calls[Request]
    BY <1>10
  <2>2. c \in AllCalls /\ phase = "calls" /\ UNCHANGED <<disk, clock>>
    BY <1>10, <2>1, ProposedIsCall DEF TypeInv, Propose
  <2>3. CASE ~UNCHANGED log
    BY <1>3, <1>10, <2>1, <2>3, ProposeAnswers
  <2>4. CASE Open(c, FALSE)
    BY <1>9, <2>2, <2>4
  <2>5. CASE AskUser(c)
    <3>1. work' = [work EXCEPT !.call = c] /\ phase' = "approve" /\ UNCHANGED log
      BY <2>5 DEF AskUser
    <3>2. work' = [head |-> work.head, call |-> c, asked |-> work.asked,
                   seen |-> work.seen, source |-> work.source]
      BY <3>1 DEF TypeInv, WorkInv
    <3>3. /\ work'.head = work.head /\ work'.call = c /\ work'.asked = work.asked
          /\ work'.seen = work.seen /\ work'.source = work.source
      BY <3>2
    <3> QED BY <1>1, <2>2, <3>1, <3>2, <3>3 DEF TypeInv, WorkInv
  <2>6. UNCHANGED log => Open(c, FALSE) \/ AskUser(c)
    <3>1. ASSUME UNCHANGED log, NEW e, log' = Append(log, e)
          PROVE  FALSE
      BY <1>2, <2>1, <3>1, Appended DEF TypeInv, LogInv
    <3>2. ASSUME UNCHANGED log
          PROVE  ~Deny(c) /\ \A r : ~Skip(c, r)
      BY <3>1, <3>2 DEF Deny, Skip, Answer
    <3> QED BY <1>10, <3>2 DEF Propose
  <2> QED BY <2>3, <2>4, <2>5, <2>6
<1>11. CASE Approve
  <2>1. PICK c \in AllCalls : c = work.call
    BY <1>11 DEF Approve, TypeInv, WorkInv
  <2>2. phase = "approve" /\ Open(c, TRUE) /\ UNCHANGED <<disk, clock>>
    BY <1>11, <2>1 DEF Approve
  <2> QED BY <1>9, <2>2
<1>12. CASE Decline \/ Recorded
  <2>1. \E c \in AllCalls : \E e : NewAnswer(c, e)
    <3>1. CASE Recorded
      BY <3>1, ToolAnswers
    <3>2. CASE Decline
      <4>1. PICK c \in AllCalls : c = work.call
        BY <3>2 DEF Decline, TypeInv, WorkInv
      <4>2. /\ phase = "approve" /\ UNCHANGED <<disk, clock, policy, view>>
            /\ Answer(Entry(c, "denied", "user_declined", 1))
        BY <3>2, <4>1 DEF Decline
      <4> QED BY <4>2, DenyAnswers
    <3> QED BY <1>12, <3>1, <3>2
  <2> QED BY <1>3, <2>1
<1>13. CASE Return
  <2>1. PICK source : source = IF disk[work.call.target] = work.seen
                               THEN work.seen ELSE 0
    OBVIOUS
  <2>2. /\ phase = "tool" /\ work.call.tool \in ReadTools
        /\ work' = [work EXCEPT !.source = source]
        /\ phase' = "returned" /\ UNCHANGED <<log, disk, clock>>
    BY <1>13, <2>1 DEF Return
  <2>3. work' = [head |-> work.head, call |-> work.call, asked |-> work.asked,
                 seen |-> work.seen, source |-> source]
    BY <2>2 DEF TypeInv, WorkInv
  <2>4. /\ work'.head = work.head /\ work'.call = work.call
        /\ work'.asked = work.asked /\ work'.seen = work.seen
        /\ work'.source = source
    BY <2>3
  <2>5. source \in {0, work'.seen}
    BY <2>1, <2>4
  <2> QED BY <2>2, <2>3, <2>4, <2>5 DEF TypeInv, WorkInv
<1>14. ASSUME UNCHANGED <<log, phase, work>>
       PROVE  WorkInv'
  BY <1>1, <1>14 DEF TypeInv, WorkInv
<1>15. CASE \/ \E f \in Watched : EditFile(f) \/ DeleteFile(f)
            \/ UNCHANGED vars
  BY <1>14, <1>15 DEF EditFile, DeleteFile, vars
<1>16. CASE \/ \E r \in Requests, p \in Policies : NewTurn(r, p)
            \/ \E r \in Requests, h \in CallHeads(log) : RewindTurn(r, h)
  BY <1>4, <1>16 DEF NewTurn, RewindTurn, NewMessage
<1> QED BY <1>7, <1>8, <1>10, <1>11, <1>12, <1>13, <1>15, <1>16
           DEF Next, Recorded

\* What a request shows in full it shows.
LEMMA ViewShape ==
    ASSUME NEW s, NEW kept, NEW cut
    PROVE  /\ View(s, kept, cut).kept = kept
           /\ View(s, kept, cut).intact = kept \ cut
           /\ View(s, kept, cut).fits = (Size(s, kept, kept \cap cut) <= Limit)
BY DEF View

\* A view is what some entries look like with some of them cut.
LEMMA BuiltViews ==
    ASSUME NEW s
    PROVE  \/ Build(s) = View(s, DOMAIN s, {})
           \/ Build(s) = View(s, DOMAIN s, Excerptable(s, WorkingReads(s)))
           \/ \E protected : LET cut == Excerptable(s, protected)
                            IN  Build(s) = View(s, Compact(s, protected, cut), cut)
BY DEF Build

\* The view keeps its shape.
LEMMA ViewKept ==
    ASSUME TypeInv, [Next]_vars
    PROVE  view'.intact \subseteq view'.kept
<1>1. view.intact \subseteq view.kept
  BY DEF TypeInv
<1>2. CASE UNCHANGED view
  BY <1>1, <1>2
<1>3. CASE view' = Nothing
  BY <1>3 DEF Nothing
<1>4. CASE view' = Build(log)
  <2>1. \E kept, cut : Build(log) = View(log, kept, cut)
    BY BuiltViews
  <2>2. PICK kept, cut : view' = View(log, kept, cut)
    BY <1>4, <2>1
  <2>3. view'.kept = kept /\ view'.intact = kept \ cut
    BY <2>2 DEF View
  <2> QED BY <2>3
<1>5. UNCHANGED view \/ view' = Nothing \/ view' = Build(log)
  BY DEF Next, vars, NewTurn, RewindTurn, BuildRequest, EndTurn, EndGroup,
         Propose, Approve, Decline, Return, RecordRead, FailRead, RecordList,
         RecordWrite, RecordOther, EditFile, DeleteFile
<1> QED BY <1>2, <1>3, <1>4, <1>5

\* In the beginning there is no log.
LEMMA TypeInit == Init => TypeInv
<1> SUFFICES ASSUME Init PROVE TypeInv
  OBVIOUS
<1>1. log = <<>> /\ phase = "idle" /\ work = NoWork /\ view = Nothing
      /\ clock = 1 /\ policy \in Policies /\ disk = [p \in Paths |-> 1]
  BY DEF Init
<1>2. LogInv
  <2>1. IsLog(log) /\ Len(log) = 0
    BY <1>1, EmptySeq, IsLogOfAnything
  <2>2. DOMAIN log = {}
    BY <2>1, LenProperties DEF IsLog
  <2> QED BY <1>1, <2>1, <2>2 DEF LogInv
<1>3. DiskInv
  <2>1. 1 \in 0 .. clock /\ clock \in 1 .. MaxClock
    BY <1>1, GuardAssumption
  <2> QED BY <1>1, <2>1 DEF DiskInv
<1>4. WorkInv
  BY <1>1 DEF WorkInv, NoWork
<1> QED BY <1>1, <1>2, <1>3, <1>4 DEF TypeInv, Nothing

\* Log, disk, work and view have their shapes in every state.
THEOREM TypeInvariant == Spec => []TypeInv
<1>1. TypeInv /\ [Next]_vars => TypeInv'
  BY LogKept, DiskSteps, WorkKept, ViewKept DEF TypeInv
<1> QED BY <1>1, TypeInit, PTL DEF Spec

\* Every variable keeps its shape, and no version is from the future.
THEOREM ShapesAreKept == Spec => []TypeOK
<1>1. TypeInv => TypeOK
  <2> SUFFICES ASSUME TypeInv PROVE TypeOK
    OBVIOUS
  <2>1. ASSUME NEW i \in DOMAIN log
        PROVE  /\ log[i].head \in 1 .. i
               /\ log[i].tool # "user" =>
                     /\ log[i].status \in Statuses
                     /\ {log[i].version, log[i].shown, log[i].live} \subseteq 0 .. clock
                     /\ log[i].from \in 0 .. i - 1
    BY DEF TypeInv, LogInv, CallEntry
  <2> QED BY <2>1 DEF TypeInv, DiskInv, WorkInv, TypeOK
<1> QED BY <1>1, TypeInvariant, PTL

----------------------------------------------------------------------------
(* Repeated answers.                                                        *)

\* An answer that repeats an earlier read repeats what the file held, and all
\* that was asked for, whatever was edited, written or taken back in between.
THEOREM RepeatsAreCurrent == Spec => []ReuseIsCurrent
<1> DEFINE Told(i) == (/\ log[i].tool \in ReadTools /\ log[i].status = "skipped"
                       /\ log[i].from # 0) => Repeats(log[i], log[log[i].from])
           AllTold == \A i \in DOMAIN log : Told(i)
<1>1. AllTold <=> ReuseIsCurrent
  BY DEF ReuseIsCurrent, Repeats
<1>2. Init => AllTold
  <2>1. ASSUME Init PROVE DOMAIN log = {}
    <3>1. log = <<>>
      BY <2>1 DEF Init
    <3> QED BY <3>1
  <2> QED BY <2>1
<1>3. ASSUME TypeInv, AllTold, [Next]_vars
      PROVE  AllTold'
  <2>1. ASSUME NEW n \in Nat, n = 0 \/ 1 .. n \subseteq DOMAIN log,
               \A i \in 1 .. n : log'[i] = log[i], NEW i \in 1 .. n
        PROVE  Told(i)'
    <3>1. i \in DOMAIN log /\ log'[i] = log[i]
      BY <2>1
    <3>2. log[i].tool # "user" => log[i].from \in 0 .. i - 1
      BY <1>3, <3>1 DEF TypeInv, LogInv, CallEntry
    <3>3. ASSUME log[i].tool \in ReadTools, log[i].from # 0
          PROVE  log'[log[i].from] = log[log[i].from]
      <4>1. log[i].from \in 1 .. n
        BY <3>2, <3>3 DEF ReadTools
      <4> QED BY <2>1, <4>1
    <3>4. Told(i)
      BY <1>3, <3>1
    <3> QED BY <3>1, <3>3, <3>4 DEF Repeats, EndOf, Truncated
  <2>2. CASE UNCHANGED log
    BY <1>3, <2>2 DEF Repeats, EndOf, Truncated
  <2>3. CASE NewMessage
    <3>1. PICK n \in Nat :
              /\ DOMAIN log' = 1 .. n + 1
              /\ n = 0 \/ 1 .. n \subseteq DOMAIN log
              /\ \A i \in 1 .. n : log'[i] = log[i]
              /\ log'[n + 1].tool = "user"
      BY <1>3, <2>3, MessageFollows DEF TypeInv
    <3>2. Told(n + 1)'
      BY <3>1 DEF ReadTools
    <3>3. \A i \in DOMAIN log' : i \in 1 .. n \/ i = n + 1
      BY <3>1
    <3> QED BY <2>1, <3>1, <3>2, <3>3
  <2>4. ASSUME NEW c \in AllCalls, NEW e, NewAnswer(c, e)
        PROVE  AllTold'
    <3>1. Len(log) \in Nat /\ DOMAIN log = 1 .. Len(log)
      BY <1>3, <2>4, AnswerIsEntry, TurnIsThere DEF TypeInv
    <3>2. PICK n \in Nat : n = Len(log)
      BY <3>1
    <3>3. /\ DOMAIN log' = 1 .. n + 1 /\ \A i \in 1 .. n : log'[i] = log[i]
          /\ log'[n + 1] = e
      BY <1>3, <2>4, <3>2, Appended DEF TypeInv, LogInv, NewAnswer
    <3>4. /\ e.from \in 0 .. n
          /\ (/\ e.tool \in ReadTools /\ e.status = "skipped" /\ e.from # 0) =>
                 Repeats(e, log[e.from])
      BY <2>4, <3>2 DEF NewAnswer
    <3>5. e.from # 0 => log'[e.from] = log[e.from]
      BY <3>3, <3>4
    <3>6. Told(n + 1)'
      BY <3>3, <3>4, <3>5 DEF Repeats, EndOf, Truncated
    <3>7. \A i \in DOMAIN log' : i \in 1 .. n \/ i = n + 1
      BY <3>3
    <3> QED BY <2>1, <3>1, <3>2, <3>3, <3>6, <3>7
  <2> QED BY <1>3, <2>2, <2>3, <2>4, LogSteps
<1>4. TypeInv /\ AllTold /\ [Next]_vars => AllTold'
  BY <1>3
<1> HIDE DEF AllTold
<1> QED BY <1>1, <1>2, <1>4, TypeInvariant, PTL DEF Spec

----------------------------------------------------------------------------
(* What is offered and what is refused.                                     *)

\* A call that repeats an earlier one is not among those held back before that,
\* and a search repeats one of its own turn.
LEMMA ReuseIsOfTheTurn ==
    ASSUME NEW c, Guard(c) \in Reuse
    PROVE  /\ ~Applies("local_only", c) /\ ~Applies("local_first", c)
           /\ ~Applies("search_unavailable", c)
           /\ c.tool = "web_search" =>
                 \E i \in ThisTurn : i \in Duplicates(c) \cup Similar(c)
<1>1. PICK n \in 1 .. 10 : /\ Guard(c) = Reasons[n]
                           /\ \A m \in 1 .. n - 1 : ~Applies(Reasons[m], c)
  BY GuardIsFirst, ReasonsInOrder DEF Reuse, ReasonNames
<1>2. n \in {6, 7, 10}
  BY <1>1, ReasonsInOrder DEF Reuse
<1>3. 1 \in 1 .. n - 1 /\ 2 \in 1 .. n - 1 /\ 3 \in 1 .. n - 1
  BY <1>2
<1>4. /\ ~Applies("local_only", c) /\ ~Applies("local_first", c)
      /\ ~Applies("search_unavailable", c)
  BY <1>1, <1>3, ReasonsInOrder
<1>5. Applies(Guard(c), c)
  BY GuardApplies DEF Reuse
<1>6. ASSUME c.tool = "web_search"
      PROVE  \E i \in ThisTurn : i \in Duplicates(c) \cup Similar(c)
  <2>1. CASE Guard(c) = "duplicate_read"
    <3>1. PICK i \in Duplicates(c) : TRUE
      BY <1>5, <2>1 DEF Applies
    <3>2. Usable(i) /\ log[i].tool = "web_search"
      BY <1>6, <3>1 DEF Duplicates, SameSignature
    <3>3. i \in ThisTurn
      BY <3>2 DEF Usable, ReadTools
    <3> QED BY <3>1, <3>3
  <2>2. CASE Guard(c) = "similar_search"
    <3>1. PICK i \in Similar(c) : TRUE
      BY <1>5, <2>2 DEF Applies
    <3>2. i \in ThisTurn
      BY <3>1 DEF Similar, Found, Searches
    <3> QED BY <3>1, <3>2
  <2>3. CASE Guard(c) = "covered_read"
    <3>1. PICK i \in Covering(c) : TRUE
      BY <1>5, <2>3 DEF Applies
    <3> QED BY <1>6, <3>1 DEF Covering
  <2> QED BY <2>1, <2>2, <2>3 DEF Reuse
<1> QED BY <1>4, <1>6

\* For every policy and every log: what a request leaves out is denied or held
\* back when it is called all the same, unless it repeats a search the user is
\* asked about, or only the browser session is missing; and what the request
\* offers is not held back for that.
THEOREM UnofferedIsNotRunAlone == Spec => []UnofferedNeedsTheUser
<1>1. TypeInv => UnofferedNeedsTheUser
  <2> SUFFICES ASSUME TypeInv, phase = "calls", NEW c \in Calls[Request]
               PROVE  /\ ~Offered(c.tool, policy) => Outcome(c) = "deny"
                      /\ c.tool \in WebTools /\ WebOffered(c.tool, TRUE) =>
                            Outcome(c) \notin {"local_only", "local_first",
                                              "search_unavailable", "search_budget",
                                              "search_streak"}
                      /\ c.tool \in WebTools /\ ~WebOffered(c.tool, TRUE) =>
                            \/ Outcome(c) \notin {"allow", "ask"}
                            \/ /\ Outcome(c) = "ask" /\ c.tool = "web_search"
                               /\ \E i \in ThisTurn : i \in Duplicates(c) \cup Similar(c)
    BY DEF UnofferedNeedsTheUser
  <2>1. c.tool \in Tools /\ policy \in UserPolicies
    BY ProposedIsCall, CallTypes, GuardAssumption DEF TypeInv, WorkInv, DiskInv
  <2>2. /\ ~Offered(c.tool, policy) => Decide(c, policy) = "deny"
        /\ Decide(c, policy) \in {"allow", "ask", "deny"}
        /\ Guard(c) \in ReasonNames \cup {"none"}
    BY <2>1, UnofferedIsDenied, DecisionTypes, GuardApplies
  <2>3. ASSUME c.tool \in WebTools, WebOffered(c.tool, TRUE)
        PROVE  Outcome(c) \notin {"local_only", "local_first", "search_unavailable",
                                 "search_budget", "search_streak"}
    <3>1. ~Applies("local_only", c)
      BY <2>3 DEF Applies, WebOffered
    <3>2. ~Applies("local_first", c)
      BY <2>3 DEF Applies, WebOffered, WebReads
    <3>3. ~Applies("search_unavailable", c)
      BY <2>3 DEF Applies, WebOffered
    <3>4. ~Applies("search_budget", c)
      BY <2>3 DEF Applies, WebOffered
    <3>5. ~Applies("search_streak", c)
      BY <2>3 DEF Applies, WebOffered
    <3>6. Guard(c) \notin {"local_only", "local_first", "search_unavailable",
                          "search_budget", "search_streak"}
      BY <3>1, <3>2, <3>3, <3>4, <3>5, GuardApplies
    <3>7. Outcome(c) \in {Decide(c, policy), Guard(c)}
      BY DEF Outcome
    <3> QED BY <2>2, <3>6, <3>7
  <2>4. ASSUME c.tool \in WebTools, ~WebOffered(c.tool, TRUE),
               Outcome(c) \in {"allow", "ask"}
        PROVE  /\ Outcome(c) = "ask" /\ c.tool = "web_search"
               /\ \E i \in ThisTurn : i \in Duplicates(c) \cup Similar(c)
    <3>1. Decide(c, policy) # "deny" /\ Offered(c.tool, policy)
      BY <2>2, <2>4 DEF Outcome
    <3>2. \/ Guard(c) = "none"
          \/ Guard(c) \in Reuse /\ Outcome(c) = "ask"
      BY <2>2, <2>4, <3>1 DEF Outcome, ReasonNames
    <3>3. ~Applies("local_only", c) /\ ~Applies("local_first", c)
          /\ ~Applies("search_unavailable", c)
      BY <3>2, GuardApplies, ReuseIsOfTheTurn DEF ReasonNames
    <3>4. /\ Request.mode # "local_only"
          /\ (c.tool # "execute_command" /\ Request.needsLocal) => EvidenceSeen
          /\ c.tool = "web_search" => ~SearchUnavailable
      BY <2>4, <3>3 DEF Applies, WebTools
    <3>5. CASE c.tool = "web_search" /\ Guard(c) \in Reuse
      <4>1. Outcome(c) = "ask"
        BY <3>2, <3>5 DEF Reuse
      <4>2. \E i \in ThisTurn : i \in Duplicates(c) \cup Similar(c)
        BY <3>5, ReuseIsOfTheTurn
      <4> QED BY <3>5, <4>1, <4>2
    <3>6. CASE c.tool = "web_search" /\ Guard(c) = "none"
      <4>1. ~Applies("search_budget", c) /\ ~Applies("search_streak", c)
        BY <3>6, GuardApplies DEF ReasonNames
      <4>2. ~(SearchUnavailable \/ StreakSpent \/ BudgetSpent)
        BY <3>4, <3>6, <4>1 DEF Applies
      <4> QED BY <2>4, <3>1, <3>4, <3>6, <4>2 DEF WebOffered
    <3>7. CASE c.tool # "web_search"
      <4>1. WebOffered(c.tool, TRUE)
        BY <3>1, <3>4, <3>7 DEF WebOffered
      <4> QED BY <2>4, <4>1
    <3> QED BY <3>2, <3>5, <3>6, <3>7
  <2> QED BY <2>2, <2>3, <2>4 DEF Outcome
<1> QED BY <1>1, TypeInvariant, PTL

----------------------------------------------------------------------------
(* The web waits for the files.                                             *)

\* A call that is run or shown to the user was not held back for its access.
LEMMA PassedTheGuard ==
    ASSUME TypeInv, NEW c, Outcome(c) \in {"allow", "ask"}
    PROVE  ~Applies("local_only", c) /\ ~Applies("local_first", c)
<1> SUFFICES ASSUME Applies("local_only", c) \/ Applies("local_first", c)
             PROVE  FALSE
  OBVIOUS
<1>1. Guard(c) \in {"local_only", "local_first"}
  BY AccessComesFirst
<1>2. Outcome(c) \in {"deny", Guard(c)}
  BY <1>1 DEF Outcome, Reuse
<1> QED BY <1>1, <1>2

\* Evidence is a file read, or listed, that is still what it was.
LEMMA EvidenceIsCurrent ==
    ASSUME TypeInv, log # <<>>, EvidenceSeen
    PROVE  \E i \in DOMAIN log :
              /\ log[i].tool \in Versioned /\ log[i].status = "succeeded"
              /\ log[i].tool \in ReadTools => log[i].shown = disk[log[i].target]
              /\ Attached # {} => log[i].target \in Attached
              /\ Request.attached # {} => i > Turn
<1>1. /\ DOMAIN log = 1 .. Len(log) /\ Len(log) \in Nat /\ Turn \in 1 .. Len(log)
  BY TurnIsThere DEF TypeInv
<1>2. PICK i \in (IF Request.attached # {} THEN Turn + 1 ELSE 1) .. Len(log) :
          /\ log[i].tool \in (IF Attached # {} \/ Request.asksFiles THEN ReadTools
                              ELSE Versioned)
          /\ log[i].status = "succeeded"
          /\ Attached # {} => log[i].target \in Attached
          /\ log[i].tool \in ReadTools => IsCurrent(log[i])
  BY DEF EvidenceSeen
<1>3. i \in DOMAIN log /\ (Request.attached # {} => i > Turn)
  <2>1. CASE Request.attached # {}
    BY <1>1, <2>1
  <2>2. CASE Request.attached = {}
    BY <1>1, <2>2
  <2> QED BY <2>1, <2>2
<1>4. log[i].tool \in Versioned
  BY <1>2 DEF Versioned
<1>5. ASSUME log[i].tool \in ReadTools
      PROVE  log[i].shown = disk[log[i].target]
  <2>1. log[i].version # 0 /\ disk[log[i].target] = log[i].version
    BY <1>2, <1>5 DEF IsCurrent
  <2>2. CallEntry(log[i], i)
    BY <1>3, <1>5 DEF TypeInv, LogInv, ReadTools
  <2> QED BY <1>2, <1>5, <2>1, <2>2 DEF CallEntry
<1> QED BY <1>2, <1>3, <1>4, <1>5

\* A call shown to the user is not one of a turn without web access.
ApprovalInv ==
    (phase = "approve" /\ work.call.tool \in WebReads) =>
        Request.mode # "local_only"

\* The only ways to the question and to the tool.
LEMMA WaysToTheTool ==
    ASSUME TypeInv, [Next]_vars,
           \/ phase' = "approve" /\ phase # "approve"
           \/ phase' = "tool" /\ phase # "tool"
    PROVE  \/ /\ phase = "approve" /\ phase' = "tool" /\ Open(work.call, TRUE)
           \/ \E c \in AllCalls :
                 /\ log # <<>> /\ UNCHANGED log
                 /\ Outcome(c) \in {"allow", "ask"}
                 /\ work'.call = c
                 /\ phase' = "tool" => Outcome(c) = "allow"
<1>1. CASE Approve
  BY <1>1 DEF Approve, Open
<1>2. ASSUME NEW c \in IF log = <<>> THEN {} ELSE Calls[Request], Propose(c)
      PROVE  \E k \in AllCalls :
                 /\ log # <<>> /\ UNCHANGED log
                 /\ Outcome(k) \in {"allow", "ask"}
                 /\ work'.call = k
                 /\ phase' = "tool" => Outcome(k) = "allow"
  <2>1. log # <<>> /\ c \in AllCalls
    BY <1>2, ProposedIsCall DEF TypeInv
  <2>2. \/ Outcome(c) = "allow" /\ Open(c, FALSE)
        \/ Outcome(c) = "ask" /\ AskUser(c)
    BY <1>2 DEF Propose, Deny, Skip, Answer
  <2>3. CASE Outcome(c) = "allow" /\ Open(c, FALSE)
    <3>1. work'.call = c /\ UNCHANGED log
      BY <2>3 DEF Open
    <3> QED BY <2>1, <2>3, <3>1
  <2>4. CASE Outcome(c) = "ask" /\ AskUser(c)
    <3>1. work' = [head |-> work.head, call |-> c, asked |-> work.asked,
                   seen |-> work.seen, source |-> work.source]
      BY <2>4 DEF AskUser, TypeInv, WorkInv
    <3>2. work'.call = c /\ phase' = "approve" /\ UNCHANGED log
      BY <2>4, <3>1 DEF AskUser
    <3> QED BY <2>1, <2>4, <3>2
  <2> QED BY <2>2, <2>3, <2>4
<1>3. CASE \E f \in Watched : EditFile(f) \/ DeleteFile(f)
  BY <1>3 DEF EditFile, DeleteFile
<1>4. CASE UNCHANGED vars
  BY <1>4 DEF vars
<1>5. CASE \/ \E r \in Requests, p \in Policies : NewTurn(r, p)
           \/ \E r \in Requests, h \in CallHeads(log) : RewindTurn(r, h)
           \/ BuildRequest \/ EndTurn \/ EndGroup \/ Decline \/ Return \/ Recorded
  BY <1>5 DEF NewTurn, RewindTurn, BuildRequest, EndTurn, EndGroup, Decline,
     Return, Recorded, RecordRead, FailRead, RecordList, RecordWrite,
     RecordOther, Answer
<1> QED BY <1>1, <1>2, <1>3, <1>4, <1>5 DEF Next, Recorded

\* The web is reached only where the turn may use it, and, where files come
\* first, only after one was read that is still what it was.
THEOREM WebComesAfterFiles == Spec => WebWaitsForEvidence
<1> DEFINE Waits == \A c \in AllCalls :
         (phase # "tool" /\ phase' = "tool" /\ work'.call = c
            /\ c.tool \in WebReads) =>
           /\ Request.mode # "local_only"
           /\ Request.needsLocal /\ ~work'.asked =>
                \E i \in DOMAIN log :
                    /\ log[i].tool \in Versioned /\ log[i].status = "succeeded"
                    /\ log[i].tool \in ReadTools => log[i].shown = disk[log[i].target]
                    /\ Attached # {} => log[i].target \in Attached
                    /\ Request.attached # {} => i > Turn
<1>1. Init => ApprovalInv
  BY DEF Init, ApprovalInv
<1>2. TypeInv /\ ApprovalInv /\ [Next]_vars => ApprovalInv'
  <2> SUFFICES ASSUME TypeInv, ApprovalInv, [Next]_vars,
                      phase' = "approve", work'.call.tool \in WebReads
               PROVE  Request'.mode # "local_only"
    BY DEF ApprovalInv
  <2>1. CASE phase = "approve"
    <3>1. ~\E c \in AllCalls : \E e : NewAnswer(c, e)
      BY DEF NewAnswer
    <3>2. UNCHANGED log
      BY <2>1, <3>1, LogSteps DEF NewMessage
    <3>3. UNCHANGED work
      BY <2>1 DEF Next, vars, NewTurn, RewindTurn, BuildRequest, EndTurn, EndGroup,
         Propose, Approve, Open, Decline, Return, RecordRead, FailRead, RecordList,
         RecordWrite, RecordOther, Answer, EditFile, DeleteFile
    <3> QED BY <2>1, <3>2, <3>3 DEF ApprovalInv, Request, Turn, UserEntries
  <2>2. CASE phase # "approve"
    <3>1. PICK c \in AllCalls : /\ UNCHANGED log
                               /\ Outcome(c) \in {"allow", "ask"}
                               /\ work'.call = c
      BY <2>2, WaysToTheTool
    <3>2. ~Applies("local_only", c) /\ c.tool \in WebReads
      BY <3>1, PassedTheGuard
    <3>3. Request.mode # "local_only"
      BY <3>2 DEF Applies
    <3> QED BY <3>1, <3>3 DEF Request, Turn, UserEntries
  <2> QED BY <2>1, <2>2
<1>3. TypeInv /\ ApprovalInv /\ [Next]_vars => Waits
  <2> SUFFICES ASSUME TypeInv, ApprovalInv, [Next]_vars, NEW c \in AllCalls,
                      phase # "tool", phase' = "tool", work'.call = c,
                      c.tool \in WebReads
               PROVE  /\ Request.mode # "local_only"
                      /\ (Request.needsLocal /\ ~work'.asked) =>
                            (log # <<>> /\ EvidenceSeen)
    BY EvidenceIsCurrent
  <2>1. CASE phase = "approve" /\ Open(work.call, TRUE)
    <3>1. work'.call = work.call /\ work'.asked = TRUE
      BY <2>1 DEF Open
    <3> QED BY <2>1, <3>1 DEF ApprovalInv
  <2>2. CASE log # <<>> /\ Outcome(c) \in {"allow", "ask"}
    <3>1. ~Applies("local_only", c) /\ ~Applies("local_first", c)
      BY <2>2, PassedTheGuard
    <3> QED BY <2>2, <3>1 DEF Applies
  <2> QED BY <2>1, <2>2, WaysToTheTool
<1>4. Waits \/ UNCHANGED vars => [Waits]_vars
  OBVIOUS
<1> QED BY <1>1, <1>2, <1>3, TypeInvariant, PTL DEF Spec, WebWaitsForEvidence

----------------------------------------------------------------------------
(* The budget of searches.                                                  *)

\* The searches a turn made by itself, the pages it opened, and those of the
\* searches that came after the last page.
Own == {i \in ThisTurn : /\ log[i].tool = "web_search"
                         /\ log[i].status = "succeeded"
                         /\ ~log[i].asked}
Opened == {i \in ThisTurn : log[i].tool = "fetch_url" /\ log[i].status = "succeeded"}
Late == {i \in Own : i > LastOf(Opened)}

InBudget ==
    /\ Request.mode # "research" => Cardinality(Own) <= TotalLimit[Request.mode]
    /\ Cardinality(Late) <= StreakLimit[Request.mode]

\* A search at work without the user's word is one more than were made.
RoomForMore ==
    (phase = "tool" /\ work.call.tool = "web_search" /\ ~work.asked) =>
        ~BudgetSpent /\ ~StreakSpent

\* The limits are numbers.
LEMMA LimitTypes ==
    ASSUME LogInv, log # <<>>
    PROVE  /\ Request.mode \in Modes
           /\ StreakLimit[Request.mode] \in Nat
           /\ Request.mode # "research" => TotalLimit[Request.mode] \in Nat
<1>1. Request.mode \in Modes
  BY TurnIsThere DEF TurnRequests
<1>2. \A m \in Modes : StreakLimit[m] \in Nat
  BY DEF StreakLimit, Modes
<1>3. \A m \in Modes \ {"research"} : TotalLimit[m] \in Nat
  BY DEF TotalLimit, Modes
<1> QED BY <1>1, <1>2, <1>3

\* An answer belongs to the turn it is given in.
LEMMA AnswerStaysInTurn ==
    ASSUME TypeInv, NEW c \in AllCalls, NEW e, NewAnswer(c, e)
    PROVE  \E n \in Nat :
              /\ n = Len(log) /\ DOMAIN log = 1 .. n /\ DOMAIN log' = 1 .. n + 1
              /\ \A i \in 1 .. n : log'[i] = log[i]
              /\ log'[n + 1] = e
              /\ UserEntries(log') = UserEntries(log)
              /\ Turn' = Turn /\ Turn \in 1 .. n /\ Request' = Request
              /\ ThisTurn = Turn + 1 .. n
              /\ ThisTurn' = ThisTurn \cup {n + 1} /\ n + 1 \notin ThisTurn
<1>1. /\ e.tool # "user" /\ log # <<>> /\ Len(log) \in Nat
  BY AnswerIsEntry
<1>2. PICK n \in Nat : n = Len(log)
  BY <1>1
<1>3. /\ DOMAIN log = 1 .. n /\ DOMAIN log' = 1 .. n + 1 /\ Len(log') = n + 1
      /\ \A i \in 1 .. n : log'[i] = log[i]
      /\ log'[n + 1] = e
  BY <1>2, Appended DEF TypeInv, LogInv, NewAnswer
<1>4. Turn \in 1 .. n
  BY <1>1, <1>2, TurnIsThere DEF TypeInv
<1>5. UserEntries(log') = UserEntries(log)
  BY <1>1, <1>3 DEF UserEntries
<1>6. Turn' = Turn
  BY <1>5 DEF Turn
<1>7. Request' = Request
  BY <1>3, <1>4, <1>6 DEF Request
<1>8. ThisTurn = Turn + 1 .. n /\ ThisTurn' = Turn + 1 .. n + 1
  BY <1>2, <1>3, <1>6 DEF ThisTurn
<1> QED BY <1>2, <1>3, <1>4, <1>5, <1>6, <1>7, <1>8

\* Room for one more search is left for one that is made.
LEMMA OneMoreSearch ==
    ASSUME NEW S, NEW T, IsFiniteSet(T), S \subseteq T, NEW k \in Nat,
           ~(Cardinality(T) >= k), NEW x
    PROVE  Cardinality(S \cup {x}) <= k
<1>1. /\ IsFiniteSet(S) /\ Cardinality(S) <= Cardinality(T)
      /\ Cardinality(S) \in Nat /\ Cardinality(T) \in Nat
  BY FS_Subset, FS_CardinalityType
<1>2. /\ Cardinality(S \cup {x}) \in Nat
      /\ Cardinality(S \cup {x}) <= Cardinality(S) + 1
  <2>1. /\ IsFiniteSet(S \cup {x})
        /\ Cardinality(S \cup {x}) = IF x \in S THEN Cardinality(S)
                                               ELSE Cardinality(S) + 1
    BY <1>1, FS_AddElement
  <2>2. Cardinality(S \cup {x}) \in Nat
    BY <2>1, FS_CardinalityType
  <2>3. CASE x \in S
    BY <1>1, <2>1, <2>2, <2>3
  <2>4. CASE x \notin S
    BY <1>1, <2>1, <2>2, <2>4
  <2> QED BY <2>3, <2>4
<1> QED BY <1>1, <1>2

\* A call that is run without the user's word is not over a limit.
LEMMA RoomIsLeft ==
    ASSUME NEW c, c.tool = "web_search", Outcome(c) = "allow"
    PROVE  ~BudgetSpent /\ ~StreakSpent
<1>1. Guard(c) = "none"
  BY GuardApplies DEF Outcome, ReasonNames
<1>2. ~Applies("search_budget", c) /\ ~Applies("search_streak", c)
  BY <1>1, GuardApplies DEF ReasonNames
<1> QED BY <1>2 DEF Applies

\* An answer leaves the searches in budget.
LEMMA AnswerInBudget ==
    ASSUME TypeInv, InBudget, RoomForMore,
           NEW c \in AllCalls, NEW e, NewAnswer(c, e)
    PROVE  InBudget'
<1>1. PICK n \in Nat :
          /\ n = Len(log) /\ DOMAIN log = 1 .. n /\ DOMAIN log' = 1 .. n + 1
          /\ \A i \in 1 .. n : log'[i] = log[i]
          /\ log'[n + 1] = e
          /\ UserEntries(log') = UserEntries(log)
          /\ Turn' = Turn /\ Turn \in 1 .. n /\ Request' = Request
          /\ ThisTurn = Turn + 1 .. n
          /\ ThisTurn' = ThisTurn \cup {n + 1} /\ n + 1 \notin ThisTurn
  BY AnswerStaysInTurn
<1>2. /\ StreakLimit[Request.mode] \in Nat
      /\ Request.mode # "research" => TotalLimit[Request.mode] \in Nat
  BY AnswerIsEntry, LimitTypes DEF TypeInv
<1>3. \A i \in ThisTurn : i \in 1 .. n /\ log'[i] = log[i]
  BY <1>1
<1>4. IsFiniteSet(ThisTurn)
  BY <1>1, FS_Interval
<1>5. Own \subseteq ThisTurn /\ Opened \subseteq ThisTurn /\ Late \subseteq Own
  BY DEF Own, Opened, Late
<1>6. IsFiniteSet(Own) /\ IsFiniteSet(Late)
  BY <1>4, <1>5, FS_Subset
<1>7. /\ Opened \in SUBSET (1 .. n) /\ LastOf(Opened) \in 0 .. n
      /\ Opened # {} => LastOf(Opened) \in Opened
  BY <1>1, <1>3, <1>5, LastIsLast
<1>8. CASE e.tool = "web_search" /\ e.status = "succeeded" /\ ~e.asked
  <2>1. ~BudgetSpent /\ ~StreakSpent
    BY <1>8 DEF NewAnswer, RoomForMore
  <2>2. Own' = Own \cup {n + 1} /\ Opened' = Opened
    BY <1>1, <1>3, <1>8 DEF Own, Opened
  <2>3. Late' = Late \cup {n + 1}
    BY <1>1, <1>7, <2>2 DEF Late
  <2>4. Own \subseteq Found /\ IsFiniteSet(Found)
    <3>1. Own \subseteq Found /\ Found \subseteq ThisTurn
      BY DEF Own, Found, Searches
    <3> QED BY <1>4, <3>1, FS_Subset
  <2>5. Request.mode # "research" => Cardinality(Own') <= TotalLimit[Request.mode]
    BY <1>2, <2>1, <2>2, <2>4, OneMoreSearch DEF BudgetSpent
  <2>6. PICK T : /\ T \subseteq ThisTurn /\ Late \subseteq T
                 /\ Streak = Cardinality(T)
    <3> DEFINE T == {i \in Searches :
            /\ i > LastOf(Opened)
            /\ \/ log[i].status = "succeeded"
               \/ /\ log[i].status = "skipped"
                  /\ log[i].reason \notin
                         {"local_first", "local_only", "search_budget"}}
    <3>1. Streak = Cardinality(T)
      BY DEF Streak, Opened
    <3>2. T \subseteq ThisTurn /\ Late \subseteq T
      BY DEF Late, Own, Searches
    <3> QED BY <3>1, <3>2
  <2>7. IsFiniteSet(T)
    BY <1>4, <2>6, FS_Subset
  <2>8. Cardinality(Late') <= StreakLimit[Request.mode]
    BY <1>2, <2>1, <2>3, <2>6, <2>7, OneMoreSearch DEF StreakSpent
  <2> QED BY <1>1, <2>5, <2>8 DEF InBudget
<1>9. CASE ~(e.tool = "web_search" /\ e.status = "succeeded" /\ ~e.asked)
  <2>1. Own' = Own
    BY <1>1, <1>3, <1>9 DEF Own
  <2>2. Opened \subseteq Opened' /\ Opened' \subseteq ThisTurn \cup {n + 1}
    BY <1>1, <1>3 DEF Opened
  <2>3. Opened' \in SUBSET (1 .. n + 1)
    BY <1>1, <1>3, <2>2
  <2>4. /\ \A m \in Opened' : m <= LastOf(Opened')
        /\ LastOf(Opened') \in 0 .. n + 1
    BY <2>3, LastIsLast
  <2>5. LastOf(Opened) <= LastOf(Opened')
    <3>1. CASE Opened = {}
      BY <1>7, <2>4, <3>1 DEF LastOf
    <3>2. CASE Opened # {}
      BY <1>7, <2>2, <2>4, <3>2
    <3> QED BY <3>1, <3>2
  <2>6. \A i \in Own : i \in Nat
    BY <1>1, <1>3, <1>5
  <2>7. Late' \subseteq Late
    BY <1>7, <2>1, <2>4, <2>5, <2>6 DEF Late
  <2>8. Cardinality(Late') <= Cardinality(Late) /\ Cardinality(Late) \in Nat
        /\ Cardinality(Late') \in Nat
    BY <1>6, <2>7, FS_Subset, FS_CardinalityType
  <2> QED BY <1>1, <1>2, <2>1, <2>8 DEF InBudget
<1> QED BY <1>8, <1>9

\* Without the user's word no turn makes more searches than its kind allows, in
\* all and between two pages it opened, however its answers come.
THEOREM BudgetIsKept == Spec => []SearchesStayInBudget
<1> DEFINE Kept == (log # <<>> => InBudget) /\ RoomForMore
<1>1. Init => Kept
  BY DEF Init, RoomForMore
<1>2. ASSUME TypeInv, Kept, [Next]_vars
      PROVE  Kept'
  <2>1. CASE UNCHANGED log
    <3>1. (log # <<>> => InBudget)'
      BY <1>2, <2>1 DEF InBudget, Own, Opened, Late, Request, ThisTurn, Turn
    <3>2. ASSUME phase' = "tool", work'.call.tool = "web_search", ~work'.asked
          PROVE  ~BudgetSpent /\ ~StreakSpent
      <4>1. CASE phase = "tool"
        <5>1. UNCHANGED work
          BY <1>2, <3>2, <4>1 DEF Next, vars, NewTurn, RewindTurn, BuildRequest, EndTurn,
             EndGroup, Propose, Approve, Decline, Return, RecordRead, FailRead,
             RecordList, RecordWrite, RecordOther, Answer, EditFile, DeleteFile
        <5> QED BY <1>2, <3>2, <4>1, <5>1 DEF RoomForMore
      <4>2. CASE phase # "tool"
        <5>1. CASE Open(work.call, TRUE)
          BY <3>2, <5>1 DEF Open
        <5>2. CASE \E c \in AllCalls : Outcome(c) = "allow" /\ work'.call = c
          BY <3>2, <5>2, RoomIsLeft
        <5> QED BY <1>2, <3>2, <4>2, <5>1, <5>2, WaysToTheTool
      <4> QED BY <4>1, <4>2
    <3>3. RoomForMore'
      BY <2>1, <3>2 DEF RoomForMore, BudgetSpent, StreakSpent, Found, Streak, Searches,
         Request, ThisTurn, Turn
    <3> QED BY <3>1, <3>3
  <2>2. CASE NewMessage
    <3>1. PICK n \in Nat :
              /\ DOMAIN log' = 1 .. n + 1 /\ Len(log') = n + 1
              /\ log'[n + 1].tool = "user"
      BY <1>2, <2>2, MessageFollows DEF TypeInv
    <3>2. LogInv' /\ log' # <<>>
      BY <1>2, <3>1, LogKept, EmptySeq
    <3>3. n + 1 \in UserEntries(log') /\ UserEntries(log') \subseteq 1 .. n + 1
      BY <3>1 DEF UserEntries
    <3>4. Turn' = n + 1
      <4>1. LastOf(UserEntries(log')) \in 0 .. n + 1
            /\ \A m \in UserEntries(log') : m <= LastOf(UserEntries(log'))
        BY <3>3, LastIsLast
      <4> QED BY <3>3, <4>1 DEF Turn
    <3>5. ThisTurn' = {}
      BY <3>1, <3>4 DEF ThisTurn
    <3>6. Own' = {} /\ Late' = {}
      BY <3>5 DEF Own, Late
    <3>7. Request'.mode \in Modes
      <4>1. Request' = log'[n + 1].turn
        BY <3>4 DEF Request
      <4>2. Request' \in Requests
        BY <3>1, <3>2, <4>1 DEF LogInv
      <4> QED BY <4>2, GuardAssumption DEF TurnRequests
    <3>8. \A m \in Modes : /\ StreakLimit[m] >= 0
                           /\ m # "research" => TotalLimit[m] >= 0
      BY DEF StreakLimit, TotalLimit, Modes
    <3>9. InBudget'
      BY <3>6, <3>7, <3>8, FS_EmptySet DEF InBudget
    <3> QED BY <2>2, <3>9 DEF NewMessage, RoomForMore
  <2>3. ASSUME NEW c \in AllCalls, NEW e, NewAnswer(c, e)
        PROVE  Kept'
    <3>1. InBudget'
      BY <1>2, <2>3, AnswerIsEntry, AnswerInBudget
    <3>2. phase' = "calls"
      BY <2>3 DEF NewAnswer
    <3> QED BY <3>1, <3>2 DEF RoomForMore
  <2> QED BY <1>2, <2>1, <2>2, <2>3, LogSteps
<1>3. TypeInv /\ Kept /\ [Next]_vars => Kept'
  BY <1>2
<1>4. Kept => SearchesStayInBudget
  BY DEF SearchesStayInBudget, InBudget, Own, Opened, Late
<1> QED BY <1>1, <1>3, <1>4, TypeInvariant, PTL DEF Spec

----------------------------------------------------------------------------
(* What a request shows.                                                    *)

\* The essentials of the log s are in the view v.
Shown(s, v) ==
    /\ UserEntries(s) \subseteq v.intact
    /\ Group(s, LastOf(CallHeads(s))) \subseteq v.intact
    /\ \A i, j \in DOMAIN s : s[i].head = s[j].head =>
          (i \in v.kept <=> j \in v.kept)

\* Leaving optional groups out leaves out nothing else.
LEMMA ThinnedKeeps ==
    ASSUME NEW s, NEW heads, NEW optional, NEW cut, NEW cap
    PROVE  heads \ optional \subseteq Thinned(s, heads, optional, cut, cap)
BY DEF Thinned

\* What is required is compacted to nothing less, and whole groups are kept.
LEMMA CompactKeeps ==
    ASSUME NEW s, NEW protected, NEW cut
    PROVE  \E heads : /\ Required(s, protected) \subseteq heads
                      /\ Compact(s, protected, cut) =
                            {i \in DOMAIN s : s[i].head \in heads}
<1> DEFINE required == Required(s, protected)
           excerpts == {s[i].head : i \in cut}
           recent == {h \in Heads(s) :
                         Cardinality({g \in Heads(s) : g >= h}) <= KeepRecent}
           first == Thinned(s, required \cup excerpts \cup recent,
                            recent \ (required \cup excerpts), cut, Target)
           heads == Thinned(s, first, (first \cap excerpts) \ required, cut, Limit)
<1>1. Compact(s, protected, cut) = {i \in DOMAIN s : s[i].head \in heads}
  BY DEF Compact
<1> HIDE DEF required, excerpts, recent
<1>2. (required \cup excerpts \cup recent) \ (recent \ (required \cup excerpts))
         \subseteq first
  BY ThinnedKeeps
<1> HIDE DEF first
<1>3. first \ ((first \cap excerpts) \ required) \subseteq heads
  BY ThinnedKeeps
<1> HIDE DEF heads
<1>4. required \subseteq heads
  BY <1>2, <1>3
<1> QED BY <1>1, <1>4 DEF required

\* The user's words and the latest calls are not excerpted.
LEMMA EssentialsStayWhole ==
    ASSUME NEW s, NEW protected,
           \A h \in CallHeads(s) : h \in Nat, LastOf(CallHeads(s)) \in Nat
    PROVE  /\ UserEntries(s) \cap Excerptable(s, protected) = {}
           /\ Group(s, LastOf(CallHeads(s))) \cap Excerptable(s, protected) = {}
<1>1. UserEntries(s) \cap Excerptable(s, protected) = {}
  BY DEF UserEntries, Excerptable, TextReads
<1>2. \A i \in Excerptable(s, protected) : s[i].head < LastOf(CallHeads(s))
  BY DEF Excerptable
<1>3. \A i \in Group(s, LastOf(CallHeads(s))) : s[i].head = LastOf(CallHeads(s))
  BY DEF Group
<1> QED BY <1>1, <1>2, <1>3

\* A request that is built shows the essentials of the log.
LEMMA BuildShows ==
    ASSUME LogInv, log # <<>>
    PROVE  /\ Shown(log, Build(log))
           /\ Build(log).fits =>
                  Size(log, Build(log).kept, Build(log).kept \ Build(log).intact) <= Limit
<1> DEFINE last == LastOf(CallHeads(log))
           all == DOMAIN log
<1>1. DOMAIN log = 1 .. Len(log) /\ Len(log) \in Nat
  BY TurnIsThere
<1>2. CallHeads(log) \in SUBSET (1 .. Len(log))
  BY HeadsArePlaces
<1>3. last \in Nat /\ \A h \in CallHeads(log) : h \in Nat
  BY <1>1, <1>2, LastIsLast
<1>4. UserEntries(log) \subseteq all /\ Group(log, last) \subseteq all
  BY DEF UserEntries, Group
<1>5. \A protected :
         /\ UserEntries(log) \cap Excerptable(log, protected) = {}
         /\ Group(log, last) \cap Excerptable(log, protected) = {}
  BY <1>3, EssentialsStayWhole
<1>6. ASSUME NEW protected, NEW cut
      PROVE  /\ UserEntries(log) \subseteq Compact(log, protected, cut)
             /\ Group(log, last) \subseteq Compact(log, protected, cut)
             /\ \A i, j \in all : log[i].head = log[j].head =>
                   (i \in Compact(log, protected, cut) <=>
                    j \in Compact(log, protected, cut))
  <2>1. PICK heads : /\ Required(log, protected) \subseteq heads
                     /\ Compact(log, protected, cut) =
                           {i \in all : log[i].head \in heads}
    BY CompactKeeps
  <2>2. \A i \in UserEntries(log) : log[i].head \in heads
    BY <2>1 DEF Required
  <2>3. \A i \in all : log[i].head # 0
    BY <1>1 DEF LogInv, CallEntry
  <2>4. \A i \in Group(log, last) : log[i].head = last /\ i \in all
    BY DEF Group
  <2>5. last # 0 => last \in heads
    BY <2>1 DEF Required
  <2>6. \A i \in Group(log, last) : log[i].head \in heads
    BY <2>3, <2>4, <2>5
  <2> QED BY <1>4, <2>1, <2>2, <2>6
<1>7. ASSUME NEW kept, NEW cut, Build(log) = View(log, kept, cut),
             UserEntries(log) \subseteq kept \ cut,
             Group(log, last) \subseteq kept \ cut,
             \A i, j \in all : log[i].head = log[j].head =>
                   (i \in kept <=> j \in kept)
      PROVE  /\ Shown(log, Build(log))
             /\ Build(log).fits =>
                    Size(log, Build(log).kept, Build(log).kept \ Build(log).intact) <= Limit
  <2>1. /\ Build(log).kept = kept /\ Build(log).intact = kept \ cut
        /\ Build(log).fits = (Size(log, kept, kept \cap cut) <= Limit)
    BY <1>7 DEF View
  <2>2. kept \ (kept \ cut) = kept \cap cut
    OBVIOUS
  <2>3. Shown(log, Build(log))
    BY <1>7, <2>1 DEF Shown
  <2>4. Build(log).fits => Size(log, kept, kept \cap cut) <= Limit
    BY <2>1
  <2> QED BY <2>1, <2>2, <2>3, <2>4
<1>8. CASE Build(log) = View(log, all, {})
  BY <1>4, <1>7, <1>8
<1>9. ASSUME NEW protected,
             Build(log) = View(log, all, Excerptable(log, protected))
      PROVE  /\ Shown(log, Build(log))
             /\ Build(log).fits =>
                    Size(log, Build(log).kept, Build(log).kept \ Build(log).intact) <= Limit
  <2>1. /\ UserEntries(log) \subseteq all \ Excerptable(log, protected)
        /\ Group(log, last) \subseteq all \ Excerptable(log, protected)
    BY <1>4, <1>5
  <2> QED BY <1>7, <1>9, <2>1
<1>10. ASSUME NEW protected, NEW cut, cut = Excerptable(log, protected),
              Build(log) = View(log, Compact(log, protected, cut), cut)
       PROVE  /\ Shown(log, Build(log))
              /\ Build(log).fits =>
                     Size(log, Build(log).kept, Build(log).kept \ Build(log).intact) <= Limit
  <2>1. /\ UserEntries(log) \subseteq Compact(log, protected, cut) \ cut
        /\ Group(log, last) \subseteq Compact(log, protected, cut) \ cut
    BY <1>5, <1>6, <1>10
  <2> QED BY <1>6, <1>7, <1>10, <2>1
<1> QED BY <1>8, <1>9, <1>10, BuiltViews

\* Between a request and the end of its group the log only grows after it.
SentBefore == SubSeq(log, 1, work.head - 1)

EssentialsInv ==
    phase \notin {"idle", "build"} =>
        /\ UserEntries(log) = UserEntries(SentBefore)
        /\ Shown(SentBefore, view)
        /\ Size(SentBefore, view.kept, view.kept \ view.intact) <= Limit

\* The same entries make the same log.
LEMMA SameLog ==
    ASSUME NEW s, NEW t, IsLog(s), IsLog(t), Len(s) = Len(t),
           \A i \in 1 .. Len(s) : s[i] = t[i]
    PROVE  s = t
<1> DEFINE S == {s[i] : i \in DOMAIN s} \cup {t[i] : i \in DOMAIN t}
<1>1. s \in Seq({s[i] : i \in DOMAIN s}) /\ t \in Seq({t[i] : i \in DOMAIN t})
  BY DEF IsLog
<1>2. {s[i] : i \in DOMAIN s} \subseteq S /\ {t[i] : i \in DOMAIN t} \subseteq S
  OBVIOUS
<1> HIDE DEF S
<1>3. s \in Seq(S) /\ t \in Seq(S)
  BY <1>1, <1>2, SeqMonotonic
<1> QED BY <1>3, SeqEqual

\* An answer leaves what was sent as it was.
LEMMA SentStays ==
    ASSUME TypeInv, NEW c \in AllCalls, NEW e, NewAnswer(c, e)
    PROVE  SentBefore' = SentBefore /\ UserEntries(log)' = UserEntries(log)
<1>1. PICK h \in Nat : h = work.head /\ h \in 1 .. Len(log) + 1
  BY AnswerIsEntry DEF NewAnswer, TypeInv, WorkInv
<1>2. work'.head = h
  <2>1. work' = [NoWork EXCEPT !.head = h]
    BY <1>1 DEF NewAnswer
  <2> QED BY <2>1 DEF NoWork
<1>3. PICK n \in Nat :
          /\ n = Len(log) /\ DOMAIN log' = 1 .. n + 1
          /\ \A i \in 1 .. n : log'[i] = log[i]
          /\ UserEntries(log') = UserEntries(log)
  BY AnswerStaysInTurn
<1>4. IsLog(log) /\ IsLog(log') /\ Len(log') = n + 1
  BY <1>3, Appended DEF TypeInv, LogInv, NewAnswer
<1>5. PICK s, t : s = SubSeq(log, 1, h - 1) /\ t = SubSeq(log', 1, h - 1)
  OBVIOUS
<1>6. /\ IsLog(s) /\ Len(s) = h - 1
      /\ \A i \in 1 .. h - 1 : s[i] = log[i]
  BY <1>1, <1>3, <1>4, <1>5, CutShort
<1>7. /\ IsLog(t) /\ Len(t) = h - 1
      /\ \A i \in 1 .. h - 1 : t[i] = log'[i]
  <2>1. h \in 1 .. Len(log') + 1 /\ Len(log') \in Nat
    BY <1>1, <1>3, <1>4
  <2> QED BY <1>4, <1>5, <2>1, CutShort
<1>8. \A i \in 1 .. Len(s) : s[i] = t[i]
  BY <1>1, <1>3, <1>6, <1>7
<1>9. s = t
  BY <1>6, <1>7, <1>8, SameLog
<1>10. SentBefore = s /\ SentBefore' = t
  BY <1>1, <1>2, <1>5 DEF SentBefore
<1> QED BY <1>3, <1>9, <1>10

\* A request shows every message of the user and the latest calls in full, keeps
\* the calls of one message together, and fits: for every log and every limit.
THEOREM EssentialsAreShown == Spec => []EssentialsReachTheModel
<1>1. Init => EssentialsInv
  BY DEF Init, EssentialsInv
<1>2. ASSUME TypeInv, EssentialsInv, [Next]_vars
      PROVE  EssentialsInv'
  <2>1. CASE phase' \in {"idle", "build"}
    BY <2>1 DEF EssentialsInv
  <2>2. ASSUME NEW c \in AllCalls, NEW e, NewAnswer(c, e)
        PROVE  EssentialsInv'
    <3>1. /\ SentBefore' = SentBefore /\ UserEntries(log)' = UserEntries(log)
          /\ UNCHANGED view /\ phase \notin {"idle", "build"}
      BY <1>2, <2>2, SentStays DEF NewAnswer
    <3>2. PICK s, u, v : s = SentBefore /\ u = UserEntries(log) /\ v = view
      OBVIOUS
    <3>3. /\ u = UserEntries(s) /\ Shown(s, v)
          /\ Size(s, v.kept, v.kept \ v.intact) <= Limit
      BY <1>2, <3>1, <3>2 DEF EssentialsInv
    <3>4. SentBefore' = s /\ UserEntries(log)' = u /\ view' = v
      BY <3>1, <3>2
    <3> QED BY <3>3, <3>4 DEF EssentialsInv
  <2>3. CASE BuildRequest /\ phase' \notin {"idle", "build"}
    <3>1. /\ phase = "build" /\ UNCHANGED log /\ view' = Build(log) /\ Build(log).fits
          /\ work' = [NoWork EXCEPT !.head = Len(log) + 1]
      BY <2>3 DEF BuildRequest
    <3>2. log # <<>>
      BY <1>2, <3>1 DEF TypeInv, WorkInv
    <3>3. Len(log) \in Nat /\ IsLog(log)
      BY <1>2, <3>2, TurnIsThere DEF TypeInv, LogInv
    <3>4. PICK h \in Nat : h = Len(log) + 1
      BY <3>3
    <3>5. work'.head = h
      <4>1. work' = [NoWork EXCEPT !.head = h]
        BY <3>1, <3>4
      <4> QED BY <4>1 DEF NoWork
    <3>6. PICK s : s = SubSeq(log, 1, h - 1)
      OBVIOUS
    <3>7. IsLog(s) /\ Len(s) = h - 1 /\ \A i \in 1 .. h - 1 : s[i] = log[i]
      BY <3>3, <3>4, <3>6, CutShort
    <3>8. s = log
      BY <3>3, <3>4, <3>7, SameLog
    <3>9. SentBefore' = s /\ log' = s
      BY <3>1, <3>5, <3>6, <3>8 DEF SentBefore
    <3>10. PICK v : v = Build(s) /\ view' = v
      BY <3>1, <3>8
    <3>11. Shown(s, v) /\ Size(s, v.kept, v.kept \ v.intact) <= Limit
      BY <1>2, <3>1, <3>2, <3>8, <3>10, BuildShows DEF TypeInv
    <3> QED BY <3>9, <3>10, <3>11 DEF EssentialsInv
  <2>4. CASE UNCHANGED <<log, view>> /\ work'.head = work.head
             /\ phase \notin {"idle", "build"}
    <3>1. PICK s, u, v : s = SentBefore /\ u = UserEntries(log) /\ v = view
      OBVIOUS
    <3>2. /\ u = UserEntries(s) /\ Shown(s, v)
          /\ Size(s, v.kept, v.kept \ v.intact) <= Limit
      BY <1>2, <2>4, <3>1 DEF EssentialsInv
    <3>3. SentBefore' = SubSeq(log, 1, work.head - 1)
      BY <2>4 DEF SentBefore
    <3>4. SentBefore' = s /\ UserEntries(log)' = u /\ view' = v
      BY <2>4, <3>1, <3>3 DEF SentBefore, UserEntries
    <3> QED BY <3>2, <3>4 DEF EssentialsInv
  <2>5. CASE UNCHANGED log /\ phase' \notin {"idle", "build"} /\ ~BuildRequest
    <3>1. UNCHANGED view /\ phase \notin {"idle", "build"}
      BY <1>2, <2>5 DEF Next, vars, NewTurn, RewindTurn, EndTurn, EndGroup,
         Propose, Approve, Decline, Return, RecordRead, FailRead, RecordList,
         RecordWrite, RecordOther, EditFile, DeleteFile
    <3>2. \/ UNCHANGED work
          \/ \E c, asked : Open(c, asked)
          \/ \E c : AskUser(c)
          \/ Return
          \/ \E e : Answer(e)
      BY <1>2, <2>5 DEF Next, vars, NewTurn, RewindTurn, EndTurn, EndGroup,
         Propose, Deny, Skip, Approve, Decline, RecordRead, FailRead, RecordList,
         RecordWrite, RecordOther, EditFile, DeleteFile
    <3>3. work'.head = work.head
      <4>1. CASE UNCHANGED work
        BY <4>1
      <4>2. CASE \E c, asked : Open(c, asked)
        <5>1. PICK c, asked, seen :
                 work' = [head |-> work.head, call |-> c, asked |-> asked,
                          seen |-> seen, source |-> 0]
          BY <4>2 DEF Open
        <5> QED BY <5>1
      <4>3. CASE (\E c : AskUser(c)) \/ Return
        <5>1. work = [head |-> work.head, call |-> work.call, asked |-> work.asked,
                      seen |-> work.seen, source |-> work.source]
          BY <1>2 DEF TypeInv, WorkInv
        <5>2. \/ \E c : work' = [work EXCEPT !.call = c]
              \/ \E v : work' = [work EXCEPT !.source = v]
          BY <4>3 DEF AskUser, Return
        <5> QED BY <5>1, <5>2
      <4>4. CASE \E e : Answer(e)
        BY <4>4 DEF Answer, NoWork
      <4> QED BY <3>2, <4>1, <4>2, <4>3, <4>4
    <3> QED BY <2>4, <2>5, <3>1, <3>3
  <2>6. CASE NewMessage
    BY <2>1, <2>6 DEF NewMessage
  <2> QED BY <1>2, <2>1, <2>2, <2>3, <2>5, <2>6, LogSteps
<1>3. TypeInv /\ EssentialsInv /\ [Next]_vars => EssentialsInv'
  BY <1>2
<1>4. TypeInv /\ EssentialsInv => EssentialsReachTheModel
  BY DEF EssentialsInv, EssentialsReachTheModel, SentBefore, Shown
<1> QED BY <1>1, <1>3, <1>4, TypeInvariant, PTL DEF Spec
=============================================================================
