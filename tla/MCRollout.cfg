SPECIFICATION MCSpec
CONSTANTS
    Agents = {1, 2, 3, 4, 5}
    Platforms = {1, 2, 3}
    BatchSizes = {1, 2, 3}
    Members = {1, 2}
    Platform <- OnePlatform
    BatchSize = 2
    Observe = 1
    Gap = 1
    MaxTime = 4
    MaxTurns = 3
    MaxControls = 2
    MaxFaults = 1
INVARIANTS CanariesFirst RolloutSound PlanSound
PROPERTIES WatchedBeforeMoving ControlSafe Settles
CHECK_DEADLOCK FALSE
