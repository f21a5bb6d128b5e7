SPECIFICATION Spec
CONSTANTS
  NaN = NaN
  One = 100
  ExactLimit = 1000000
  AnchorSpacing = 4
  ExtraRows = 5
  PassRows = 8
  LongLookback = 8
  MaxOdd = 1
  Execute <- MCExecute
  ExecuteForCache <- MCExecuteForCache
  FrameAt <- MCFrameAt
  ExecuteResume <- MCExecuteResume
  ExecuteResumeStep <- MCExecuteResumeStep
  Starts <- MCStarts
  Commands <- MCCommands
  BarOf <- MCBarOf
  MissingBar <- MCMissingBar
INVARIANTS
  ShownExact
  FramesExact
  AnchorsReplay
  WarmUp
  WindowAlone
CHECK_DEADLOCK FALSE
