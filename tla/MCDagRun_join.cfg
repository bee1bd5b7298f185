CONSTANTS
  a = a  b = b  c = c
  Tasks = {a, b, c}
  DependsOn <- Join
  MapReducers = {a}
  Chunks = {1, 2}
  MinCap = 2
  MaxCap = 2
  MaxRetries = 1
SPECIFICATION FairSpec
INVARIANTS ExecutionSound DependenciesFirst EndsComplete PoolNotStarved
PROPERTIES Terminates
CHECK_DEADLOCK FALSE
