---------------------------- MODULE MCReadGuards ----------------------------
(* One text file that is read whole or in parts, and turns of five kinds.   *)
EXTENDS ReadGuards

Call(tool, aspect, target, lo, hi) ==
    [tool |-> tool, aspect |-> aspect, target |-> target, lo |-> lo, hi |-> hi]
Plain(tool, target) == Call(tool, "plain", target, 0, 0)
Read(lo, hi) == Call("read_file", "plain", "notes", lo, hi)
Search(q) == Plain("web_search", q)

Local == [mode |-> "local_first", needsLocal |-> TRUE, attached |-> {},
          mentions |-> TRUE, asksFiles |-> TRUE, reread |-> FALSE]
Reading == [Local EXCEPT !.mode = "balanced", !.needsLocal = FALSE]
Searching == [Local EXCEPT !.needsLocal = FALSE]
Uploaded == [Local EXCEPT !.attached = {"notes"}, !.reread = TRUE]
Offline == [Local EXCEPT !.mode = "local_only"]

MCRequests == {Local, Reading, Searching, Uploaded, Offline}
MCCalls == [r \in MCRequests |->
    CASE r = Reading -> {Read(0, 3), Read(0, 1),
                         Call("write_file", "existing", "notes", 0, 0)}
      [] r = Searching -> {Search("q1"), Search("q2"), Search("q3"), Search("q4"),
                           Plain("fetch_url", "page")}
      [] r = Offline -> {Search("q1"), Plain("execute_command", "")}
      [] r = Local -> {Read(1, 3), Plain("list_files", "dir"), Search("q1"),
                       Call("computer_use", "browse", "", 0, 0)}
      [] r = Uploaded -> {Read(0, 3), Search("q1")}]

MCAlike == {<<"q3", "q4">>, <<"q4", "q3">>}

NoRules == [c \in Categories |-> "none"]
Lenient == [read |-> TRUE, write |-> TRUE, web |-> TRUE,
            rules |-> NoRules, threshold |-> "yellow"]
MCPolicies == {Lenient,
               [Lenient EXCEPT !.rules["web_read"] = "ask",
                               !.rules["local_read"] = "deny"]}
=============================================================================
