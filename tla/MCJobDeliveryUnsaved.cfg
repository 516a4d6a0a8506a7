SPECIFICATION Spec
CONSTANTS
    Jobs = {1, 2}
    Scenarios <- Direct
    TrialLimit = 1
    BatchLimit = 1
INVARIANTS JournalFailureProtects
CHECK_DEADLOCK FALSE
