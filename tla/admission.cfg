\* an unbounded frame, and one of two visible rows and one row of margin: it keeps three and drops rows at six
SPECIFICATION Spec
CONSTANTS
  MaxLabel = 3
  Windows = {0, 2}
  Margin = 1
  MaxRows = 4
  MaxBatch = 3
INVARIANTS
  FindsFirst
  BatchIsItsRows
  RetainedUnique
  CursorCoversHeldRows
PROPERTIES
  StaysIncreasing
