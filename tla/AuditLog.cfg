SPECIFICATION FairSpec
CONSTANTS
  Proc = {p1, p2}
  NoProc = NoProc
  t1 = t1
  t2 = t2
  Text <- TwoTexts
  Histories <- SomeHistories
  HistoryOpen = {TRUE, FALSE}
  PartShapes = {"piece", "whole"}
  MaxCommands = 4
INVARIANTS ChainUnbroken LossIsNoticed
PROPERTIES NoAppendAfterDamage ImplementsTrail EveryCommandEnds
CHECK_DEADLOCK FALSE
