CONSTANTS
  a = a
  b = b
  Job = {a, b}
  Imported = {"Pending", "Running", "Complete", "Failed"}
  Contested = {a}
SPECIFICATION WorldsSpec
INVARIANTS
  NoSilentRerun
  CompleteIsTrue
  RowStable
  WorkIsOnRecord
PROPERTY RunEnds
