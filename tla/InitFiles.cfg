SPECIFICATION Spec
CONSTANTS
  workflow = workflow
  gitignore = gitignore
  hook = hook
  Plan <- ThreeFiles
  Executable = {hook}
  Managed = {gitignore}
  Parents <- ThreeParents
  UserText = {u1}
  Legacy = Legacy
  Default = Default
  Absent = Absent
  Foreign = Foreign
  Repository = TRUE
  MaxRuns = 2
  MaxEdits = 1
INVARIANTS NothingLost AllOrNothing RetryAccepted
CHECK_DEADLOCK FALSE
