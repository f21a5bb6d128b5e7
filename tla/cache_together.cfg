\* a window and an accumulator read and refreshed together, over enough rows
\* for the accumulator's windowed recompute
SPECIFICATION StagedSpec
CONSTANTS
  win = win
  acc = acc
  rec = rec
  Columns = {win, acc}
  Reach <- MCReach
  AnchorSpacing = 2
  Values = {a}
  MaxRows = 6
  MaxBatch = 1
INVARIANTS
  ValidRowsExact
PROPERTIES
  ListReadAllOrNothing
  RefreshCompletes
