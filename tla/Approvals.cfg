SPECIFICATION Spec
CONSTANTS
  Workspace = {w1, w2}
  NFiles = 2
  Trees <- TwoKeys
  Scans <- AllOrTailAndGrowth
  Growth <- Growths
  Gone <- NoFile
  Content <- Contents
  NoRule = NoRule
  Other = Other
  k1 = k1
  k2 = k2
  Rule <- RuleIds
  Disabled = {}
  Custom <- HookWarns
  Job = {j1, j2}
  MaxCommands = 3
  MaxEdits = 1
  MaxTime = 1
SYMMETRY JobsAndKeysSymmetric
CHECK_DEADLOCK FALSE
INVARIANTS SteadyPassMeansReviewed ReleaseIsApproved ApprovalHonoured
