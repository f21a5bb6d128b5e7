\* a recursion that reads two rows back, on frames that drop or select away their rows
SPECIFICATION Spec
CONSTANTS
  rec = rec
  deep = deep
  win = win
  Columns = {deep}
  Reach <- MCReach
  Continuation <- MCContinuation
  Values = {a}
  AnchorSpacing = 2
  Window = 2
  Margin = 2
  Companies = {FALSE}
  MaxRows = 9
  MaxBatch = 2
  MaxChanges = 1
  MaxStart = 1
INVARIANTS
  ShownRowsExact
