SPECIFICATION Spec
CONSTANTS
  p1 = p1
  p2 = p2
  t1 = t1
  t2 = t2
  t3 = t3
  a = a
  b = b
  view = view
  m = m
  n = n
  Process = {p1, p2}
  Thread = {t1, t2, t3}
  Home <- Homes
  Id = {a, b, view}
  Name = {m, n}
  Depth = {1, 2}
  Results <- Found
  Legacy <- Small
  NoOne = NoOne
INVARIANTS OnlyInventedAreRefused SavedSurvives QuietMeansSaved
SYMMETRY Alike
