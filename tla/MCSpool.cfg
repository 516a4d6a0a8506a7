SPECIFICATION FairSpec
CONSTANTS
  N = 4
  MaxItems = 2
  BatchLimit = 2
  ListMax = 2
  MaxDropped = 3
  MaxFaults = 1
  MaxCrashes = 1
INVARIANTS  NoSilentLoss
PROPERTIES SpoolDrains
