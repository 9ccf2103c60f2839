SPECIFICATION LockSpec
CONSTANTS
  p1 = p1  p2 = p2  p3 = p3  here = here  there = there
  Proc <- MCThree
  Host <- OneMachine
  Attempts = 3
  MaxCrashes = 1
  TornCrash = FALSE
  Slow = FALSE
  None = None
CHECK_DEADLOCK FALSE
INVARIANTS OneController
