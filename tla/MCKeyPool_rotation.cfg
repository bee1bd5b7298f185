CONSTANTS
  t1 = t1  t2 = t2
  Callers = {t1, t2}
  N = 3
  Cooldown = 2
SPECIFICATION PoolSpec
INVARIANTS RotationSound
CHECK_DEADLOCK FALSE
