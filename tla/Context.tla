------------------------------- MODULE Context -------------------------------
(***************************************************************************)
(* What of a run's messages a request shows the model: the compaction of   *)
(* context/compact.py as ContextBuilder.build calls it.                    *)
(*                                                                         *)
(* A log is a sequence of entries.  An entry is a user's message, or a     *)
(* call together with its answer; calls of one assistant message share     *)
(* `head`, the place where their group begins (a user's message is a group *)
(* of its own).  What compaction looks at besides is an entry's `tool`     *)
(* ("user" for the user's messages), its `target`, its `status`, and its   *)
(* `units`, the size ContextBudget.estimate gives it.  Tool definitions    *)
(* and the system messages that are always kept only narrow the two        *)
(* limits.                                                                 *)
(***************************************************************************)
EXTENDS Naturals, Sequences, FiniteSets, FiniteSetsExt

CONSTANTS
    Limit,         \* the input budget of the model
    Target,        \* history_target_units: what compaction aims at
    KeepRecent,    \* groups at the end that are kept if they fit: 6
    ExcerptUnits   \* the size of an excerpt of a long read

ASSUME ContextAssumption ==
    /\ Limit \in Nat
    /\ Target \in 1 .. Limit
    /\ KeepRecent \in Nat \ {0}
    /\ ExcerptUnits \in Nat \ {0}

Heads(log) == {log[i].head : i \in DOMAIN log}
Group(log, h) == {i \in DOMAIN log : log[i].head = h}

UserEntries(log) == {i \in DOMAIN log : log[i].tool = "user"}
CallHeads(log) == {log[i].head : i \in DOMAIN log \ UserEntries(log)}

LastOf(S) == IF S = {} THEN 0 ELSE Max(S)

\* ContextBudget.estimate of the entries in kept, those in cut excerpted.
Size(log, kept, cut) ==
    MapThenSumSet(LAMBDA i : IF i \in cut THEN ExcerptUnits ELSE log[i].units,
                  kept)

TextReads(log) == {i \in DOMAIN log : /\ log[i].tool = "read_file"
                                      /\ log[i].status = "succeeded"}

\* working_read_calls: in the current turn, from the last group to the first,
\* the reads of files not read since, as long as their groups fit the target.
WorkingReads(log) ==
    LET n == Len(log)
        heads == {h \in Heads(log) : h > LastOf(UserEntries(log))}
        scan[h \in 1 .. n + 1] ==
            IF h = n + 1 THEN [calls |-> {}, paths |-> {}, used |-> 0]
            ELSE LET later == scan[h + 1]
                     reads == IF h \in heads
                              THEN Group(log, h) \cap TextReads(log) ELSE {}
                     fresh == {i \in reads : log[i].target \notin later.paths}
                     cost == Size(log, Group(log, h), {})
                     fits == fresh # {} /\ later.used + cost <= Target
                 IN  [calls |-> IF fits THEN later.calls \cup fresh
                                ELSE later.calls,
                      paths |-> later.paths \cup {log[i].target : i \in reads},
                      used  |-> IF fits THEN later.used + cost ELSE later.used]
    IN  scan[1].calls

\* excerpt_older_reads: long reads before the last group of calls, except the
\* protected ones.
Excerptable(log, protected) ==
    {i \in TextReads(log) \ protected :
        /\ log[i].head < LastOf(CallHeads(log))
        /\ log[i].units > ExcerptUnits}

\* Oldest first, as few of the groups in optional as bring the kept groups
\* down to cap; all of them if that is not enough.
Thinned(log, heads, optional, cut, cap) ==
    LET Without(h) == heads \ {o \in optional : o <= h}
        Entries(hs) == {i \in DOMAIN log : log[i].head \in hs}
        enough == {h \in optional \cup {0} :
                      Size(log, Entries(Without(h)), cut) <= cap}
    IN  Without(IF enough = {} THEN LastOf(optional) ELSE Min(enough))

\* A compaction that keeps only what is recent.
Faulty_Required_RecentOnly(log, protected) ==
    {LastOf(CallHeads(log)), Max(Heads(log))} \ {0}

\* Every user's message, the protected reads, the last group of calls and the
\* last group of all are never left out.
Required(log, protected) ==
    {log[i].head : i \in UserEntries(log) \cup protected}
    \cup ({LastOf(CallHeads(log)), Max(Heads(log))} \ {0})

\* compact_messages: recent groups and excerpts beside what is required, older
\* groups dropped to reach the target, excerpts only to reach the limit.
Compact(log, protected, cut) ==
    LET required == Required(log, protected)
        excerpts == {log[i].head : i \in cut}
        recent == {h \in Heads(log) :
                      Cardinality({g \in Heads(log) : g >= h}) <= KeepRecent}
        first == Thinned(log, required \cup excerpts \cup recent,
                         recent \ (required \cup excerpts), cut, Target)
        heads == Thinned(log, first, (first \cap excerpts) \ required, cut,
                         Limit)
    IN  {i \in DOMAIN log : log[i].head \in heads}

\* Whatever was not excerpted is taken to be shown.
Faulty_View_DroppedShown(log, kept, cut) ==
    [fits |-> Size(log, kept, kept \cap cut) <= Limit, kept |-> kept,
     intact |-> DOMAIN log \ cut]

View(log, kept, cut) ==
    [fits |-> Size(log, kept, kept \cap cut) <= Limit, kept |-> kept,
     intact |-> kept \ cut]

\* ContextBuilder.build.  The protection of the working reads is given up
\* before the request is refused (ContextBudgetError: fits is FALSE).
Build(log) ==
    LET all == DOMAIN log
        working == WorkingReads(log)
        cut == Excerptable(log, working)
        every == Excerptable(log, {})
        gentle == View(log, Compact(log, working, cut), cut)
    IN  IF Size(log, all, {}) <= Target THEN View(log, all, {})
        ELSE IF Size(log, all, cut) <= Target THEN View(log, all, cut)
        ELSE IF gentle.fits THEN gentle
        ELSE View(log, Compact(log, {}, every), every)
=============================================================================
