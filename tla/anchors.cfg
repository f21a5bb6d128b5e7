\* two handles over the rows 0..4, an anchor on every row, row 1 with a state of two words
SPECIFICATION Spec
CONSTANTS
  MaxHandles = 2
  MaxBanks = 3
  Spacing = 1
  ChunkPoints = 2
  ChunkWords = 2
  WideRows = {1}
  MaxRow = 4
  None = None
INVARIANTS
  TypeOK
  RowsExact
  NearestExact
