SPECIFICATION Spec
CONSTANTS
  t1 = t1  t2 = t2
  r1 = r1  r2 = r2  r3 = r3
  w1 = w1  w2 = w2
  h1 = h1  h2 = h2
  repoA = repoA  repoB = repoB
  src = src  srcA = srcA
  None = None
  Task <- MCTask
  Run <- MCRun
  Repo <- MCRepo
  Commit <- MCCommit
  Worktree <- MCWorktree
  Path <- MCPath
  Below <- MCBelow
  Profile <- MCProfile
  Outcome = {"completed", "running"}
  TTL = {1, 2}
  Cost = {1, 2}
  MaxTime = 3
  MaxEvents = 5
SYMMETRY Symmetry
CHECK_DEADLOCK FALSE
INVARIANTS TypeOK LiveLeasesDisjoint RowsAgree LogFenced 
PROPERTIES NoTakeoverOfLive
