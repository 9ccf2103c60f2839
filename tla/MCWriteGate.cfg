SPECIFICATION GateSpec
CONSTANTS
  a1 = a1  a2 = a2
  Writer <- MCWriter
  Key = {c1}
  NoKey = NoKey
  Gap = 1
  Window = 3
  Ceiling = 2
  DedupeFor = 4
  StaleAfter = 3
  LockTries = 2
  Attempts = 2
  Backoff = {0, 4}
  MaxTime = 4
  MaxCalls = 3
  MaxCrashes = 1
  None = None
SYMMETRY MCSymmetry
CHECK_DEADLOCK FALSE
INVARIANTS SoleWriter Paced CommentedOnce
PROPERTIES NothingForgotten
