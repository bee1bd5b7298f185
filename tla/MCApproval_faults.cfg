CONSTANTS
  r1 = r1  r2 = r2  r3 = r3
  s1 = s1  s2 = s2  s3 = s3
  e1 = e1  e2 = e2  e3 = e3
  Runs = {r1, r2}
  Sessions = {s1, s2}
  Engines = {e1, e2}
  SessionOf <- DistinctSessions
  EngineOf <- OwnEngines
  SizeOf <- TwoTasks
  Unreadable = {r2}
  None = None
  Faults = {"abort", "crash", "early", "unmounted"}
  MaxCrashes = 1
SPECIFICATION Spec
INVARIANTS OwnPlanAsApproved PlansSound
PROPERTIES LedgerSpec
CHECK_DEADLOCK FALSE
