SPECIFICATION Spec
CONSTANTS
  f1 = f1
  File = {f1}
  Managed = {}
  Skipped = {}
  PathRisk = {f1}
  Graph <- TwoGraphs
  Selection <- OneSelected
  Git = TRUE
  Job = {j1, j2}
  SaveFaults = TRUE
SYMMETRY JobsSymmetric
INVARIANTS DirtyRiskReported AlarmIffGrown
