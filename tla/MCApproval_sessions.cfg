CONSTANTS
  r1 = r1  r2 = r2  r3 = r3
  s1 = s1  s2 = s2  s3 = s3
  e1 = e1  e2 = e2  e3 = e3
  Runs = {r1, r2, r3}
  Sessions = {s1, s2}
  Engines = {e1, e2, e3}
  SessionOf <- TwoShareASession
  EngineOf <- OwnEngines
  SizeOf <- TwoTasks
  Unreadable = {}
  None = None
  Faults = {}
  MaxCrashes = 0
SPECIFICATION FairSpec
CONSTRAINT TwinsPrepared
INVARIANTS RejectedStaysOut BranchHeldWhilePending SessionSettled
PROPERTIES DecisionTakesEffect JobsEnd
CHECK_DEADLOCK FALSE
