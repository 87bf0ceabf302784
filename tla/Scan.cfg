CONSTANTS
  ScriptLine <- MCScriptLine
  Name <- MCName
  MaxLines = 5
  CatchLine <- MCCatchLine
  ExceptLine <- MCExceptLine
  MaxErrorLines = 5
  Command <- MCCommand
  Argument <- MCArgument
  MaxArguments = 5
SPECIFICATION ScanSpec
INVARIANT CallsFollowScopes
INVARIANT SilenceIsFound
INVARIANT RiskIsKept
CHECK_DEADLOCK FALSE
