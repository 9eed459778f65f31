CONSTANTS
  Length = 2
  Extended = 3
  Estimates = {0, 1, 3}
  Clips <- MCClips
  Loads <- MCLoads
  MaxHistory = 2
  FrameLimit = 3
SPECIFICATION Spec
INVARIANT ListsAreSound
PROPERTY ImplementsEditList
CHECK_DEADLOCK FALSE
