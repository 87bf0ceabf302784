SPECIFICATION FairSpec
CONSTANTS
  f1 = f1
  f2 = f2
  log = log
  clean = clean
  minor = minor
  major = major
  low = low
  high = high
  Walked = {f1, f2, log}
  Log = log
  Text = {clean, minor, major}
  Rules <- RulesOf
  Gate <- Gates
  Severity <- Severities
  Limit = 1
  Verbose = FALSE
  Window = 1
  MaxTime = 2
  MaxEdits = 2
  MaxTicks = 2
  MaxStarts = 1
INVARIANTS ChecksHaveCause RecordKeepsUp
PROPERTIES ChangesAreChecked ToldOncePerWindow
CHECK_DEADLOCK FALSE
