------------------------------- MODULE Policy -------------------------------
(***************************************************************************)
(* What the user allows: RiskEvaluator.assess gives every call a level, a  *)
(* category and perhaps a hard stop, PolicyEngine.decide answers "allow",  *)
(* "ask" or "deny", and AgentRunner._policy_tool_offered keeps tools the   *)
(* user has closed out of the request altogether.                          *)
(*                                                                         *)
(* A call is its tool and the one thing about its arguments that the       *)
(* assessment tells apart: what a browser action does, what an MCP server  *)
(* declares, where a write goes.  Reasons and wording are left out.        *)
(***************************************************************************)
EXTENDS Naturals

LocalReads == {"list_files", "read_file", "read_pdf", "search_files",
               "check_files"}
WebReads == {"web_search", "fetch_url"}
FileWrites == {"write_file", "edit_file", "create_document",
               "create_spreadsheet"}

\* config/risk_rules.yaml, hard_stop_operations.
HardStops == {"send_email", "publish_content", "payment", "git_push",
              "modify_system_configuration"}

Tools == LocalReads \cup WebReads \cup FileWrites \cup HardStops \cup
         {"preview_project", "execute_command", "computer_use", "delete_file",
          "mcp", "other"}

Categories == {"local_read", "web_read", "workspace_create",
               "workspace_modify", "outside_write", "destructive",
               "command_execute", "browser_interaction", "mcp_read",
               "mcp_write", "other"}

\* What a command may reach besides being a command.
CommandReach == Categories \ {"command_execute", "other"}

Levels == {"white", "green", "yellow", "red"}
Rank == [l \in Levels |-> CASE l = "white" -> 0 [] l = "green" -> 1
                            [] l = "yellow" -> 2 [] l = "red" -> 3]

\* What distinguishes two calls of the same tool.
Aspects == [t \in Tools |->
    CASE t = "computer_use" -> {"irreversible", "browse", "interact", "unknown"}
      [] t = "mcp" -> {"destructive", "read_only", "undeclared"}
      [] t \in FileWrites -> {"no_path", "outside", "existing", "new"}
      [] OTHER -> {"plain"}]

ToolCalls == {c \in [tool : Tools, aspect : UNION {Aspects[t] : t \in Tools}] :
                 c.aspect \in Aspects[c.tool]}

Rules == {"none", "allow", "ask", "deny"}

\* UserPolicy: three switches, a rule for each capability ("none" if there is
\* no rule) and the level up to which calls pass.
UserPolicies == [read : BOOLEAN, write : BOOLEAN, web : BOOLEAN,
                 rules : [Categories -> Rules], threshold : Levels]

Risk(level, category, hard) ==
    [level |-> level, category |-> category, hard |-> hard]

AssessBrowser(aspect) ==
    CASE aspect = "irreversible" -> Risk("red", "destructive", TRUE)
      [] aspect = "browse" -> Risk("white", "web_read", FALSE)
      [] OTHER -> Risk("yellow", "browser_interaction", FALSE)

AssessServer(aspect) ==
    CASE aspect = "destructive" -> Risk("red", "destructive", TRUE)
      [] aspect = "read_only" -> Risk("white", "mcp_read", FALSE)
      [] OTHER -> Risk("yellow", "mcp_write", FALSE)

AssessWrite(aspect) ==
    CASE aspect = "no_path" -> Risk("red", "destructive", TRUE)
      [] aspect = "outside" -> Risk("red", "outside_write", FALSE)
      [] aspect = "existing" -> Risk("yellow", "workspace_modify", FALSE)
      [] OTHER -> Risk("green", "workspace_create", FALSE)

\* RiskEvaluator.assess.
Assess(c) ==
    CASE c.tool = "preview_project" ->
             Risk("yellow", "browser_interaction", FALSE)
      [] c.tool = "execute_command" -> Risk("red", "command_execute", TRUE)
      [] c.tool = "computer_use" -> AssessBrowser(c.aspect)
      [] c.tool \in HardStops \cup {"delete_file"} ->
             Risk("red", "destructive", TRUE)
      [] c.tool \in WebReads -> Risk("white", "web_read", FALSE)
      [] c.tool \in LocalReads -> Risk("white", "local_read", FALSE)
      [] c.tool = "mcp" -> AssessServer(c.aspect)
      [] c.tool \in FileWrites -> AssessWrite(c.aspect)
      [] OTHER -> Risk("yellow", "other", FALSE)

\* A command that is judged by its own category alone.
Faulty_Closed_CommandAlone(t, p) ==
    \/ t = "preview_project" /\ ~(p.read /\ p.write /\ p.rules["local_read"] # "deny")
    \/ t \in LocalReads /\ ~p.read
    \/ t \in FileWrites /\ ~p.write
    \/ t \in WebReads \cup {"mcp", "computer_use"} /\ ~p.web
    \/ t = "execute_command" /\ ~(p.read /\ p.write /\ p.web)

\* The switches, and the capabilities a tool could reach past its category.
Closed(t, p) ==
    \/ /\ t = "preview_project"
       /\ ~p.read \/ ~p.write \/ p.rules["local_read"] = "deny"
    \/ t \in LocalReads /\ ~p.read
    \/ t \in FileWrites /\ ~p.write
    \/ /\ t = "execute_command"
       /\ \/ ~(p.read /\ p.write /\ p.web)
          \/ \E c \in CommandReach : p.rules[c] = "deny"
    \/ t \in WebReads \cup {"mcp", "computer_use"} /\ ~p.web

\* PolicyEngine.decide.
Decide(c, p) ==
    LET risk == Assess(c)
        rule == p.rules[risk.category]
    IN  IF Closed(c.tool, p) \/ rule = "deny" THEN "deny"
        ELSE IF risk.hard THEN "ask"
        ELSE IF rule # "none" THEN rule
        ELSE IF Rank[risk.level] <= Rank[p.threshold] THEN "allow"
        ELSE "ask"

\* AgentRunner._policy_tool_offered.
Offered(t, p) ==
    CASE t = "preview_project" ->
             /\ p.read /\ p.write
             /\ p.rules["local_read"] # "deny"
             /\ p.rules["browser_interaction"] # "deny"
      [] t \in LocalReads -> p.read /\ p.rules["local_read"] # "deny"
      [] t \in FileWrites -> p.write
      [] t = "execute_command" ->
             /\ p.read /\ p.write /\ p.web
             /\ \A c \in CommandReach \cup {"command_execute"} :
                    p.rules[c] # "deny"
      [] t \in WebReads -> p.web /\ p.rules["web_read"] # "deny"
      [] t \in {"computer_use", "mcp"} -> p.web
      [] OTHER -> TRUE
=============================================================================
