SPECIFICATION SessionSpec
CONSTANTS
  d1 = d1  d2 = d2  None = None
  Defect <- MCDefect
  Broad <- MCBroad
  Flaky <- MCBroad
  Lesson <- MCLesson
  Focused = 1
  Full = 3
  Excess = 1
  MaxHeads = 2
  Budget = 4
  Reserve = 2
  MaxCycles = 4
  MaxSessions = 1
CHECK_DEADLOCK FALSE
INVARIANT ReviewTakesGreen
