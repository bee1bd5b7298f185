SPECIFICATION Spec
CONSTANTS
  c = c
  p = p
  q = q
  NTasks = 2
  MaxAttempts = 1
  MaxBranches = 2
  MaxUpsets = 0
  NoReview = NoReview
  Cycles <- OneCycle
  NSlots = 2
  Providers <- MCProviders
  LastResort <- None
  Unfit <- MCUnfit
  Ajean <- OnlyQ
  Joint <- None
  MaxBlocked = 2
  MaxCycles = 1
  MaxPicks = 5
  NoProvider = NoProvider
INVARIANTS ProvidersApart
PROPERTIES CooldownRespected CycleEnds
CHECK_DEADLOCK FALSE
