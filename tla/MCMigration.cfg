SPECIFICATION MigrationSpec
CONSTANTS
    Candidate <- MCCandidate
    HomeUrl = "a"
    AcksNeeded = 2
    ConfirmAge = 1
    FallbackAge = 2
    LossAge = 1
    TrialPause = 1
    RebindScripts <- MCScripts
    MaxTrouble = 1
PROPERTY GivenUpUnconfirmed
CHECK_DEADLOCK FALSE
