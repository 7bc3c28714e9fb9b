----------------------------- MODULE Resources ------------------------------
(***************************************************************************)
(* What a task holds while it runs: the lease on the data directory, which *)
(* its process shares with it, the MCP connections it opens and the        *)
(* browser it is bound to.  The web service, its topics and the command    *)
(* line are scopes of several processes on one data directory; processes   *)
(* end at any time, and a scope ends by success, failure or cancellation.  *)
(***************************************************************************)
EXTENDS Integers, FiniteSets, Sequences

CONSTANTS
    Topics,       \* topics of the web service: each runs at most one task
    Service,      \* the service itself (the scope of its lifespan)
    Commands,     \* the command line's tasks and restores; each its own process
    Web,          \* the process of the web service
    Servers,      \* MCP servers, as a sequence (their order in the settings)
    Tools,        \* names of MCP tools
    MaxBrowsers   \* bound: browsers opened

Tasks == Topics \cup Commands
Scopes == Tasks \cup {Service}
Home == [s \in Scopes |-> IF s \in Commands THEN s ELSE Web]
Processes == Commands \cup {Web}
Names == {Servers[n] : n \in DOMAIN Servers}

ASSUME ResourcesAssumption ==
    /\ IsFiniteSet(Scopes)
    /\ Topics \cap Commands = {} /\ Service \notin Tasks
    /\ Web \notin Commands
    /\ "none" \notin Processes \cup Topics /\ "user" \notin Topics
    /\ MaxBrowsers \in Nat

VARIABLES
    owner,    \* the process that has locked the file, or "none"
    refs,     \* per process: the references of its lease
    up,       \* the service is up
    at,       \* per scope: how far it is
    link,     \* per task and server: its connection ("orphaned": no one closes it)
    tools,    \* per task: which server answers for a tool's name
    browser   \* the console's browser, and who works in it

lease == <<owner, refs>>
vars == <<owner, refs, up, at, link, tools, browser>>

\* The stages in which a scope holds the lease.
Inside == {"held", "connecting", "connected", "running", "closing"}
Holds(s) == at[s] \in Inside
Active(t) == at[t] # "idle"

NoBrowser == [id |-> 0, opened |-> 0, holder |-> "none", busy |-> "free",
              call |-> [t \in Topics |-> 0], acting |-> "none"]

Init ==
    /\ owner = "none"
    /\ refs = [p \in Processes |-> 0]
    /\ up = FALSE
    /\ at = [s \in Scopes |-> "idle"]
    /\ link = [t \in Tasks |-> [n \in Names |-> "closed"]]
    /\ tools = [t \in Tasks |-> [x \in Tools |-> "none"]]
    /\ browser = NoBrowser
----------------------------------------------------------------------------
(* data_lease.                                                              *)

\* A second scope that gives the lock back although the first still needs it.
Faulty_Give_All(p) ==
    /\ refs' = [refs EXCEPT ![p] = 0]
    /\ owner' = "none"

\* A scope that enters beside another without being counted.
Faulty_Take_Uncounted(p) ==
    /\ refs' = [refs EXCEPT ![p] = 1]
    /\ owner' = p

\* Entry: another reference to the process's lease, or the lock if it is free.
Obtainable(p) == refs[p] > 0 \/ owner = "none"
Take(p) ==
    /\ refs' = [refs EXCEPT ![p] = @ + 1]
    /\ owner' = p

\* Exit: the last reference unlocks the file.
Give(p) ==
    /\ refs' = [refs EXCEPT ![p] = @ - 1]
    /\ owner' = IF refs[p] = 1 THEN "none" ELSE owner

\* An attempt to enter; without the lease the scope ends with DataLeaseError.
Acquire(s) ==
    /\ at[s] = "begin"
    /\ IF Obtainable(Home[s])
       THEN Take(Home[s]) /\ at' = [at EXCEPT ![s] = "held"]
       ELSE UNCHANGED lease /\ at' = [at EXCEPT ![s] = "idle"]
    /\ UNCHANGED <<up, link, tools, browser>>

Release(s) ==
    /\ at[s] = "closing"
    /\ Give(Home[s])
    /\ at' = [at EXCEPT ![s] = "idle"]
    /\ UNCHANGED <<up, link, tools, browser>>
----------------------------------------------------------------------------
(* Scopes.                                                                  *)

\* _lifespan: the service takes the lease for as long as it is up, but only if
\* its settings can be read.
StartService(readable) ==
    /\ ~up /\ at[Service] = "idle" /\ \A t \in Topics : ~Active(t)
    /\ up' = ~readable
    /\ at' = [at EXCEPT ![Service] = IF readable THEN "begin" ELSE "idle"]
    /\ UNCHANGED <<owner, refs, link, tools, browser>>

ServiceReady ==
    /\ at[Service] = "held"
    /\ at' = [at EXCEPT ![Service] = "running"]
    /\ up' = TRUE
    /\ UNCHANGED <<owner, refs, link, tools, browser>>

\* The end of the lifespan closes the browser; the service's lease goes after
\* it.  Topics that still run are cancelled then, and keep theirs until they end.
StopService ==
    /\ up /\ browser.busy = "free" /\ browser.acting # "user"
    /\ up' = FALSE
    /\ at' = [at EXCEPT ![Service] = IF Holds(Service) THEN "closing" ELSE "idle"]
    /\ browser' = [browser EXCEPT !.id = 0, !.holder = "none", !.acting = "none"]
    /\ UNCHANGED <<owner, refs, link, tools>>

\* A rebinding that does not ask whether the holder is at work.
Faulty_MayBind_Always(t) == browser.id # 0

\* BrowserSessionManager.bind.
MayBind(t) ==
    /\ browser.id # 0
    /\ browser.holder \in {"none", t} \cup {h \in Topics : ~Active(h)}

\* execute_run: the task of a topic begins, with the open browser or without.
StartTopic(t, withBrowser) ==
    /\ up /\ ~Active(t)
    /\ withBrowser => MayBind(t)
    /\ at' = [at EXCEPT ![t] = "begin"]
    /\ browser' = IF withBrowser THEN [browser EXCEPT !.holder = t] ELSE browser
    /\ UNCHANGED <<owner, refs, up, link, tools>>

StartCommand(c) ==
    /\ ~Active(c)
    /\ at' = [at EXCEPT ![c] = "begin"]
    /\ UNCHANGED <<owner, refs, up, link, tools, browser>>

\* A process that restores a snapshot does so within the lease and is done.
RestoreSnapshot(c) ==
    /\ at[c] = "held"
    /\ at' = [at EXCEPT ![c] = "closing"]
    /\ UNCHANGED <<owner, refs, up, link, tools, browser>>
----------------------------------------------------------------------------
(* A task's MCP servers.                                                    *)

\* _run_impl up to MCPManager.connect, which starts every server at once; what
\* is wrong with the profile or the directory ends the task before it.
Connect(t) ==
    /\ at[t] = "held"
    /\ at' = [at EXCEPT ![t] = "connecting"]
    /\ link' = [link EXCEPT ![t] = [n \in Names |-> "opening"]]
    /\ UNCHANGED <<owner, refs, up, tools, browser>>

FailSetup(t) ==
    /\ at[t] = "held"
    /\ at' = [at EXCEPT ![t] = "closing"]
    /\ UNCHANGED <<owner, refs, up, link, tools, browser>>

\* own_server: the server lists its tools, or fails, or times out; one that no
\* one waits for can only end.
ServerAnswers(t, n, outcome) ==
    /\ \/ link[t][n] = "opening"
       \/ link[t][n] = "orphaned" /\ outcome = "closed"
    /\ link' = [link EXCEPT ![t][n] = outcome]
    /\ UNCHANGED <<owner, refs, up, at, tools, browser>>

\* The servers whose tools are taken, in the order of the settings: one that
\* lists a name already taken is left out with all of its tools.
Taken(lists) ==
    LET take[n \in 0 .. Len(Servers)] ==
          IF n = 0 THEN {}
          ELSE IF \E m \in take[n - 1] : lists[m] \cap lists[n] # {}
               THEN take[n - 1] ELSE take[n - 1] \cup {n}
    IN  take[Len(Servers)]

Answering(lists, x) ==
    LET with == {n \in DOMAIN Servers : n \in Taken(lists) /\ x \in lists[n]}
    IN  IF with = {} THEN "none" ELSE Servers[CHOOSE n \in with : TRUE]

\* MCPManager.connect has heard from every server.
Connected(t) ==
    /\ at[t] = "connecting"
    /\ \A n \in Names : link[t][n] # "opening"
    /\ \E lists \in [DOMAIN Servers -> SUBSET Tools] :
          /\ \A n \in DOMAIN Servers : link[t][Servers[n]] = "closed" => lists[n] = {}
          /\ tools' = [tools EXCEPT ![t] = [x \in Tools |-> Answering(lists, x)]]
    /\ at' = [at EXCEPT ![t] = "connected"]
    /\ UNCHANGED <<owner, refs, up, link, browser>>

\* A cancellation while the servers connect, or a provider that cannot be
\* built: the task ends without MCPManager.close.
AbandonConnections(t) ==
    /\ at[t] \in {"connecting", "connected"}
    /\ at' = [at EXCEPT ![t] = "closing"]
    /\ link' = [link EXCEPT ![t] = [n \in Names |-> IF @[n] = "closed" THEN "closed"
                                                     ELSE "orphaned"]]
    /\ tools' = [tools EXCEPT ![t] = [x \in Tools |-> "none"]]
    /\ UNCHANGED <<owner, refs, up, browser>>

RunTask(t) ==
    /\ at[t] = "connected"
    /\ at' = [at EXCEPT ![t] = "running"]
    /\ UNCHANGED <<owner, refs, up, link, tools, browser>>

\* The end of a run that forgets the servers that offer no tool.
Faulty_Remaining_Unused(t) ==
    [n \in Names |-> IF \E x \in Tools : tools[t][x] = n
                     THEN "closed" ELSE link[t][n]]

Remaining(t) == [n \in Names |-> "closed"]

\* The runner returns, fails or is cancelled; MCPManager.close follows.
EndRun(t) ==
    /\ at[t] = "running" /\ t \in Tasks
    /\ at' = [at EXCEPT ![t] = "closing"]
    /\ link' = [link EXCEPT ![t] = Remaining(t)]
    /\ tools' = [tools EXCEPT ![t] = [x \in Tools |-> "none"]]
    /\ browser' = IF t \in Topics
                  THEN [browser EXCEPT !.call[t] = 0,
                                       !.acting = IF @ = t THEN "none" ELSE @]
                  ELSE browser
    /\ UNCHANGED <<owner, refs, up>>
----------------------------------------------------------------------------
(* The browser: at most one, opened and closed under the manager's lock.    *)

OnBrowser == UNCHANGED <<owner, refs, up, at, link, tools>>

OpenBrowser(h) ==
    /\ OnBrowser
    /\ up /\ browser.busy = "free" /\ browser.id = 0
    /\ browser.opened < MaxBrowsers
    /\ browser' = [browser EXCEPT !.busy = "creating", !.holder = h]

BrowserOpens(works) ==
    /\ OnBrowser
    /\ browser.busy = "creating"
    /\ browser' = [browser EXCEPT !.busy = "free",
                                  !.opened = @ + 1,
                                  !.id = IF works THEN browser.opened + 1 ELSE 0,
                                  !.holder = IF works THEN @ ELSE "none"]

\* The session goes at once, its browser a little later.
CloseBrowser ==
    /\ OnBrowser
    /\ browser.busy = "free" /\ browser.id # 0
    /\ browser' = [browser EXCEPT !.busy = "closing", !.id = 0, !.holder = "none"]

BrowserCloses ==
    /\ OnBrowser
    /\ browser.busy = "closing"
    /\ browser' = [browser EXCEPT !.busy = "free", !.acting = "none"]

\* ComputerUseTool.execute: the session of the run, or the end of the call.
ResolveSession(t) ==
    /\ OnBrowser
    /\ at[t] = "running" /\ browser.call[t] = 0
    /\ browser.id # 0 /\ browser.holder = t
    /\ browser' = [browser EXCEPT !.call[t] = browser.id]

\* A page is worked on by one at a time: a call, or the user in the panel.
Act(who) ==
    /\ OnBrowser
    /\ browser.acting = "none" /\ browser.id # 0
    /\ who \in Topics => browser.call[who] = browser.id
    /\ browser' = [browser EXCEPT !.acting = who]

\* Done, failed (as on a browser that was closed) or timed out.
Finish(who) ==
    /\ OnBrowser
    /\ \/ browser.acting = who
       \/ who \in Topics /\ browser.call[who] # 0
    /\ browser' = [browser EXCEPT !.acting = IF @ = who THEN "none" ELSE @,
                                  !.call = [t \in Topics |-> IF t = who THEN 0 ELSE @[t]]]
----------------------------------------------------------------------------
\* A process ends: the system unlocks its file, its tasks, connections and
\* browser are gone.
Exit(p) ==
    LET own == {s \in Scopes : Home[s] = p}
    IN  /\ \E s \in own : Active(s) \/ (s = Service /\ up)
        /\ owner' = IF owner = p THEN "none" ELSE owner
        /\ refs' = [refs EXCEPT ![p] = 0]
        /\ at' = [s \in Scopes |-> IF s \in own THEN "idle" ELSE at[s]]
        /\ link' = [t \in Tasks |-> IF t \in own THEN [n \in Names |-> "closed"]
                                    ELSE link[t]]
        /\ tools' = [t \in Tasks |-> IF t \in own THEN [x \in Tools |-> "none"]
                                     ELSE tools[t]]
        /\ IF p = Web
           THEN up' = FALSE /\ browser' = [NoBrowser EXCEPT !.opened = browser.opened]
           ELSE UNCHANGED <<up, browser>>

Next ==
    \/ \E s \in Scopes : Acquire(s) \/ Release(s)
    \/ StartService(TRUE) \/ StartService(FALSE) \/ ServiceReady \/ StopService
    \/ \E t \in Topics : StartTopic(t, TRUE) \/ StartTopic(t, FALSE)
    \/ \E c \in Commands : StartCommand(c) \/ RestoreSnapshot(c)
    \/ \E t \in Tasks : \/ Connect(t) \/ FailSetup(t) \/ Connected(t)
                        \/ AbandonConnections(t) \/ RunTask(t) \/ EndRun(t)
    \/ \E t \in Tasks, n \in Names :
          ServerAnswers(t, n, "open") \/ ServerAnswers(t, n, "closed")
    \/ \E h \in Topics \cup {"none"} : OpenBrowser(h)
    \/ BrowserOpens(TRUE) \/ BrowserOpens(FALSE) \/ CloseBrowser \/ BrowserCloses
    \/ \E t \in Topics : ResolveSession(t)
    \/ \E who \in Topics \cup {"user"} : Act(who) \/ Finish(who)
    \/ \E p \in Processes : Exit(p)

Spec == Init /\ [][Next]_vars
----------------------------------------------------------------------------
(* Properties.                                                              *)

TypeOK ==
    /\ owner \in Processes \cup {"none"}
    /\ refs \in [Processes -> Nat]
    /\ up \in BOOLEAN
    /\ at \in [Scopes -> {"idle", "begin"} \cup Inside]
    /\ link \in [Tasks -> [Names -> {"closed", "opening", "open", "orphaned"}]]
    /\ tools \in [Tasks -> [Tools -> Names \cup {"none"}]]
    /\ browser \in [id: 0 .. MaxBrowsers, opened: 0 .. MaxBrowsers,
                    holder: Topics \cup {"none"}, busy: {"free", "creating", "closing"},
                    call: [Topics -> 0 .. MaxBrowsers],
                    acting: Topics \cup {"user", "none"}]

\* The references that a process counts are the scopes that are inside, whichever
\* way and in whichever order they end, and it has the file locked exactly while
\* it counts one: the lock is neither given back under a scope that works nor
\* kept when the last is gone (storage/lease.py:64-107).
LeaseCountsScopes ==
    /\ TypeOK
    /\ \A p \in Processes :
          /\ refs[p] = Cardinality({s \in Scopes : Home[s] = p /\ Holds(s)})
          /\ owner = p <=> refs[p] > 0

\* Scopes work on the data directory together only within one process, and that
\* is all that the lease keeps them from: the lease implements Ownership
\* (storage/lease.py:64-70, cli.py:194, webapp.py:175).
Shared == INSTANCE Ownership WITH working <- {s \in Scopes : Holds(s)}
LeaseIsShared == Shared!Spec

\* A tool that a running task offers is answered by an open connection, and the
\* connection to a server is open only for a task that will close it, unless it
\* was given up before the run began (tools/mcp.py:83-107, cli.py:237-307).
ConnectionsFollowTheRun ==
    \A t \in Tasks :
       /\ \A x \in Tools : tools[t][x] # "none" => link[t][tools[t][x]] = "open"
       /\ \A n \in Names :
             /\ link[t][n] = "opening" => at[t] = "connecting"
             /\ link[t][n] = "open" => at[t] \in {"connecting", "connected", "running"}

\* A task that has looked up the open browser still has it: it does not pass to
\* another topic while the first one is about to work in it, and no one works in
\* it for another topic (tools/computer_use.py:300-307, webapp.py:1634-1639).
BrowserStaysBound ==
    \A t \in Topics :
       browser.id # 0 =>
          /\ browser.call[t] = browser.id => browser.holder = t /\ at[t] = "running"
          /\ browser.acting = t => browser.call[t] = browser.id
=============================================================================
