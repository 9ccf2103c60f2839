SPECIFICATION FairLaunchSpec
CONSTANTS
  t1 = t1  t2 = t2  r1 = r1  r2 = r2  w1 = w1  h1 = h1
  repoA = repoA  src = src  None = None
  Req = {q1, q2}
  Task <- MCOneTask
  Run <- MCRun
  Repo <- MCRepo
  Commit <- MCCommit
  Worktree <- MCWorktree
  Path <- MCPath
  Below = {}
  Profile <- MCProfile
  Outcome <- MCOutcome
  TTL = {2}
  Cost = {1}
  MaxTime = 3
  MaxEvents = 5
  LeaseTTL = 2
  WorkerTimeout = 1
  ContainerLife = 1
  Startup = 4
  Cleanup = 4
  LastArrival = 1
  MaxCrashes = 1
CHECK_DEADLOCK FALSE
INVARIANTS ReleasedMeansQuiet FailedMeansQuarantined
PROPERTIES CheckedUnderLiveLease LaunchEnds
