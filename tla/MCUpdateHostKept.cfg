SPECIFICATION Spec
CONSTANTS
  Builds = {A, B, C}
  Initial = A
  None = None
  MaxRequests = 2
  MaxFaults = 1
  MaxCrashes = 0
  MaxExits = 1
INVARIANTS RunnableKept
CHECK_DEADLOCK FALSE
