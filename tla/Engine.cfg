SPECIFICATION FairSpec
CONSTANTS
  Project = {a, b}
  File = {f}
  Client = {c1, c2}
  Stdio = c1
  Watcher = {w1, w2}
  Kinds <- AllKinds
  Faults <- AllFaults
  MaxEdits = 1
  None = None
INVARIANTS GraphIsHome ReadyCounts SomeoneMoves
PROPERTIES EveryRequestEnds
