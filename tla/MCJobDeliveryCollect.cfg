SPECIFICATION Spec
CONSTANTS
    Jobs = {1, 2}
    Scenarios <- Collection
    TrialLimit = 1
    BatchLimit = 1
INVARIANTS CollectedIsAccepted
CHECK_DEADLOCK FALSE
