SPECIFICATION Spec
CONSTANTS
  c = c
  p = p
  q = q
  NTasks = 1
  MaxAttempts = 2
  MaxBranches = 2
  MaxUpsets = 1
  NoReview = NoReview
  Cycles <- OneCycle
  NSlots = 2
  Providers <- MCProviders
  LastResort <- OnlyQ
  Unfit <- MCUnfit
  Ajean <- None
  Joint <- MCJoint
  MaxBlocked = 2
  MaxCycles = 2
  MaxPicks = 3
  NoProvider = NoProvider
INVARIANTS BacklogSound DecisionStays
CHECK_DEADLOCK FALSE
