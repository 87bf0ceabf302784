SPECIFICATION EditSpec
CONSTANTS
  Proc = {p1}
  NoProc = NoProc
  t1 = t1
  t2 = t2
  Text <- TwoTexts
  Histories <- ShortHistories
  HistoryOpen = {FALSE}
  PartShapes = {"piece", "whole"}
  MaxCommands = 4
  MaxEdits = 2
CHECK_DEADLOCK FALSE
INVARIANTS VerifiedIsHistory PartialRecordsGenuine
