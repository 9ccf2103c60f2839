SPECIFICATION FairDaemonSpec
CONSTANTS
  Thread = {1, 2, 3}
  Key = {1, 2}
  Request <- MCRequest
  Result = {"done", "failed"}
  Failure = {"failed"}
  Limit = 1
  Drop = 1
  None = None
  Task = {"T "}
  Run = {"r1"}
  Repo = {"o/r"}
  Commit = {"ab"}
  Worktree = {"w"}
  Path = {"a", "b"}
  Below = {}
  Profile <- MCProfile
  Outcome = {"ended"}
  TTL = {1}
  Cost = {1}
  MaxTime = 1
  MaxEvents = 4
  Form <- MCForm
  Canon <- MCCanon
  Issued <- MCIssued
  Skew = 1
  MaxExemption = 1
  MaxReceipt = 1
  Sensitive = {}
  Budget = 1
  LeaseTTL = 1
  AttestTTL = 1
  MaxRestarts = 1
ACTION_CONSTRAINT Few
CHECK_DEADLOCK FALSE
INVARIANTS AcknowledgedCreation GovernedMeansApproved EnvelopesInScope
PROPERTIES GovernedLeaseInternal ImplementsOnceOnly WaitersAnswered
