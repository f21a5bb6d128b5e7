\* a recursion or a window, alone or beside a column with an older lead, on frames that drop or select away their rows
SPECIFICATION Spec
CONSTANTS
  rec = rec
  deep = deep
  win = win
  Columns = {rec, win}
  Reach <- MCReach
  Continuation <- MCContinuation
  Values = {a}
  AnchorSpacing = 2
  Window = 1
  Margin = 1
  Companies = {FALSE, TRUE}
  MaxRows = 8
  MaxBatch = 2
  MaxChanges = 1
  MaxStart = 1
INVARIANTS
  ShownRowsExact
  PointsExact
  NeverLost
  HeldRowsBounded
PROPERTIES
  LiveRowResumes
