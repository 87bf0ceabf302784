--------------------------------- MODULE Scan ---------------------------------
(***************************************************************************)
(* SecretScanner (src/engine/src/routing/secrets.rs): what a scan carries  *)
(* from one line, block or argument to the next.  Three searches that      *)
(* share nothing but the file they are given: the calls of child_process   *)
(* in its lines, the errors caught and forgotten in its masked text, and   *)
(* the command of an MCP server in a configuration.                        *)
(***************************************************************************)
EXTENDS ChildProcess, SilentErrors, McpCommand

VARIABLE search \* which search goes on: "calls", "errors" or "command"

scanVars == <<search, callVars, errorVars, mcpVars>>

ScanInit ==
  /\ search \in {"calls", "errors", "command"}
  /\ CallInit /\ ErrorInit
  /\ search # "errors" => language = "script"
  /\ IF search = "command" THEN McpInit ELSE command = <<>> /\ judged = FALSE

ScanNext ==
  \/ search = "calls" /\ CallNext /\ UNCHANGED <<search, errorVars, mcpVars>>
  \/ search = "errors" /\ ErrorNext /\ UNCHANGED <<search, callVars, mcpVars>>
  \/ search = "command" /\ PushArgument /\ UNCHANGED <<search, callVars, errorVars>>

ScanSpec == ScanInit /\ [][ScanNext]_scanVars

================================================================================
