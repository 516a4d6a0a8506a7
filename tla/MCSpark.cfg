SPECIFICATION MCSpec
CONSTANTS
  pa = pa
  pb = pb
  j1 = j1
  j2 = j2
  j3 = j3
  c1 = c1
  c2 = c2
  None = None
  Profiles = {pa, pb}
  Jobs = {j1, j2, j3}
  Calls = {c1, c2}
  Plans <- MCPlans
  Conflict <- OneGroup
  MaxOps = 2
  MaxEvents = 3
SYMMETRY Sym
INVARIANTS EffectOnce EntitledEffects StoppedIsStopped NotAttemptedIsTrue 
PROPERTY NothingRevived
\* No request may be left to execute.
CHECK_DEADLOCK FALSE
