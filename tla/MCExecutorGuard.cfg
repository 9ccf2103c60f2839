SPECIFICATION FairGuardSpec
CONSTANTS
  l1 = l1  l2 = l2  r1 = r1  r2 = r2
  inside = inside  outside = outside  cached = cached  None = None
  Lease <- MCLease
  Runner <- MCRunner
  Path <- MCPath
  Ignored <- MCIgnored
  Sensitive = {}
  Scope <- MCScope
  Envelope <- MCEnvelope
  Pinned = {1}
  Kind = {"governed", "opencode"}
  Isolated = TRUE
  MaxPlans = 2
  MaxWrites = 3
  MaxDeaths = 1
ACTION_CONSTRAINT Few
CHECK_DEADLOCK FALSE
INVARIANTS PromptIsLeased CleanBaseline AcceptedInScope
PROPERTIES ImplementsOneShot RunnersEnd
