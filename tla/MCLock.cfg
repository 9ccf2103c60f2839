SPECIFICATION LockSpec
CONSTANTS
  p1 = p1  p2 = p2  p3 = p3  here = here  there = there
  Proc <- MCThree
  Host <- OneMachine
  Attempts = 3
  MaxCrashes = 2
  TornCrash = FALSE
  Slow = TRUE
  None = None
SYMMETRY MCSymmetry
CHECK_DEADLOCK FALSE
INVARIANTS HolderKeepsLock RefusedMeansRival
