CONSTANTS
  Elapsed <- Stamps
  NativePeriod = 6
  Configs <- Served
  BufferLimit = 1
  MaxStarts = 2
  NoRun = NoRun
SPECIFICATION FairSpec
INVARIANTS
  TypeOK
  StreamIsTimeline
  RunHasItsFiles
PROPERTIES
  FileIsKept
  StopReturns
  ServingEnds
CHECK_DEADLOCK FALSE
