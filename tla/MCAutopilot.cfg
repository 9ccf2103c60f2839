SPECIFICATION FairAutoSpec
CONSTANTS
  p1 = p1  p2 = p2  p3 = p3
  Proc <- MCProc
  Orders <- Order
  MaxRuns = 3
  MaxCrashes = 1
  MaxFaults = 1
  None = None
ACTION_CONSTRAINT Few
CHECK_DEADLOCK FALSE
INVARIANTS CompleteMeansDelivered ExitTells OneWorker
PROPERTIES RunsSettle
