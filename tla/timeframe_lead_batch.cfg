\* a tail whose lead holds floats: integers above 1 are no exact floats
SPECIFICATION Spec
CONSTANTS
  Cols <- MCCols
  AggOf <- MCAggOf
  LateCols = {"note"}
  FloatCols = {"volume"}
  Candles <- Candles1
  Values = {2}
  Period = 3
  MaxInt = 3
  MaxExact = 1
  Cuts = TRUE
  MaxTs = 5
  MaxBatch = 2
  Missing = Missing
  Overflow = Overflow
PROPERTIES
  AllOrNothing
