\* periods of three timestamps; every integer is an exact float
SPECIFICATION Spec
CONSTANTS
  Cols <- MCCols
  AggOf <- MCAggOf
  LateCols = {"note"}
  FloatCols = {"volume"}
  Candles <- Candles2
  Values = {2}
  Period = 3
  MaxInt = 2
  MaxExact = 3
  Cuts = TRUE
  MaxTs = 3
  MaxBatch = 2
  Missing = Missing
  Overflow = Overflow
INVARIANTS
  TypeOK
  FormingIsCumulation
  AggregateExact
  FoldIsBatch
PROPERTIES
  AllOrNothing
