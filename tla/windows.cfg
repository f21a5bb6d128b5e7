\* every series of two or four rows, signed zeros and missing rows included,
\* and windows from two rows to twice the series
SPECIFICATION Spec
CONSTANTS
  NaN = NaN
  Expanding = 1000
  ExactLimit = 20
  MaxFinite = 16
  Values <- MCValues
  Numbers = {0, 1, 3}
  Lengths = {2, 4}
  Windows = {2, 3, 8}
  MinPeriods = {0, 2}
  Decays <- MCDecays
INVARIANTS
  SnapshotExact
CHECK_DEADLOCK FALSE
