SPECIFICATION Spec
CONSTANTS
  File <- Files
  Path <- Paths
  Lang <- Langs
  Root <- Roots
  Capitalized = {"Cart", "Pay"}
  AppLike = {"app"}
  RouteLike = {"routes"}
  UrlsLike = {"urls"}
  WordEnds <- Endings
  MaxLocated = 500
  Project <- Projects
  Text <- Texts
  NewName <- NewNames
  MaxGrouped = 7
  Width <- Widths
  TestLike = {"get"}
  MaxSymbols = 3
  MaxMatches = 1
  MaxExplore = 6
  MaxHops = 2
  Before = 1
  After = 2
  MaxPerFile = 6
  MaxChars = 8
  MaxChanges = 2
INVARIANTS MergeLosesNothing EndsExist IndexCoherent SearchesAgree
PROPERTIES ModularityNeverFalls UpdateIsLocal
CHECK_DEADLOCK FALSE
