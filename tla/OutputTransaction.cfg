CONSTANTS
  N = 2
  Foreign = 2
SPECIFICATION Spec
INVARIANTS
  DisplacedAreRecoverable
  OutcomeIsTrue
PROPERTY KeepsPromise
CHECK_DEADLOCK FALSE
