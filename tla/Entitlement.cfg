SPECIFICATION Spec
CONSTANTS
  p1 = p1
  p2 = p2
  Process <- TwoProcesses
  Absent = Absent
  Broken = Broken
  EnvUrl = TRUE
  WorkspaceUrl = TRUE
  RefreshEvery = 1
  GraceTime = 1
  Terms = {0, 1}
  MaxTime = 2
  MaxCommands = 3
  MaxSecrets = 2
INVARIANTS GrantIsGenuine RevocationSeen LoggedOutStaysOut LoginHeals
SYMMETRY Interchangeable
CHECK_DEADLOCK FALSE
