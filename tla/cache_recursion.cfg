\* one recursive column, an anchor every second row
SPECIFICATION FairSpec
CONSTANTS
  win = win
  acc = acc
  rec = rec
  Columns = {rec}
  Reach <- MCReach
  AnchorSpacing = 2
  Values = {a, b}
  MaxRows = 4
  MaxBatch = 2
INVARIANTS
  TypeOK
  StatesDescribeTheirRows
  AnchorsExact
  FirstPresentExact
PROPERTIES
  LiveRowCheap
  RefreshOnlyExtends
  RefreshEnds
  AbstractSpec
