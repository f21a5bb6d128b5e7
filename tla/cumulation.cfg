\* periods of three timestamps; a sum of 2 and 1 overflows
SPECIFICATION Spec
CONSTANTS
  Cols <- MCCols
  AggOf <- MCAggOf
  IntCols <- MCCols
  Candles <- MCCandles
  Period = 3
  MaxInt = 2
  MaxTs = 4
  MaxBatch = 2
  Missing = Missing
  Overflow = Overflow
INVARIANTS
  IncrementalIsBatch
  RowsMeanTheirBars
