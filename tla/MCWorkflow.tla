----------------------------- MODULE MCWorkflow -----------------------------
(* A small instance of Workflow for TLC: one file, three phases, and the     *)
(* kinds of request that the verdict tells apart.                            *)
EXTENDS Workflow, TLC

Page == [id |-> "page", kind |-> "files", checks |-> {[type |-> "file", on |-> "a"]}]
Study == [id |-> "study", kind |-> "general", checks |-> {}]

MCPlans == {<<Study, Page>>, <<Page>>, <<Study>>, <<>>}

Ask(mode, continues, tests, paths) ==
    [mode |-> mode, continues |-> continues, greets |-> FALSE, tests |-> tests,
     reads |-> TRUE, paths |-> paths]

Build == Ask("develop", TRUE, FALSE, {})
Fix == Ask("develop", FALSE, FALSE, {})
Proven == Ask("develop", TRUE, TRUE, {"a"})
Save == Ask("execute", TRUE, FALSE, {"a"})
Resume == Ask("execute", TRUE, FALSE, {})
Task == Ask("execute", FALSE, FALSE, {})
Hello == [Task EXCEPT !.greets = TRUE]
Talk == Ask("discuss", FALSE, FALSE, {})
Progress == Ask("status", FALSE, FALSE, {})
Blind == [Build EXCEPT !.reads = FALSE]

Declares == {"declare_workflow_plan", "declare_workflow_step",
             "revise_workflow_plan"}

MCTries ==
    Build :> <<{"declare_workflow_plan", "write"}, {"write", "check"},
               {"check"}>>
    @@ Fix :> <<{"write"}, {"check"}>>
    @@ Proven :> <<{"look"}, {"declare_workflow_step", "write"},
                   {"write", "test"}, {"test"}>>
    @@ Save :> <<{"declare_workflow_plan"}, {"declare_workflow_step"},
                 {"write"}>>
    @@ Resume :> <<{"look", "write"}>>
    @@ Task :> <<Declares, Declares, Declares>>
    @@ Hello :> <<{"look", "declare_workflow_step"}, {"look"}>>
    @@ Talk :> <<{"look", "write", "declare_workflow_plan"}, {"look", "write"},
                 {"write"}>>
    @@ Progress :> <<>>
    @@ Blind :> <<{"write"}, {"build"}>>

MCFollows ==
    Build :> {Progress}
    @@ Fix :> {}
    @@ Proven :> {}
    @@ Save :> {Resume}
    @@ Resume :> {}
    @@ Task :> {}
    @@ Hello :> {Resume}
    @@ Talk :> {Progress}
    @@ Progress :> {Resume}
    @@ Blind :> {Fix}

MCRequests == DOMAIN MCTries
=============================================================================
