SPECIFICATION MCSpec
CONSTANTS
    Builds = {A, B, C}
    Initial = A
    None = None
    MaxRequests = 3
    MaxFaults = 1
    MaxCrashes = 2
    MaxExits = 1
    Packages <- MCPackages
    SignedWorkers = {2, 4}
    MaxOperations = 5
    Candidate <- MCCandidate
    HomeUrl = "a"
    AcksNeeded = 2
    ConfirmAge = 1
    FallbackAge = 2
    LossAge = 1
    TrialPause = 1
    RebindScripts <- MCScripts
    MaxTrouble = 1
    BatchLimit = 2
    Ids = {1, 2, 3, 4, 5}
    MaxRestarts = 1
    MaxSigns = 3
    MaxImports = 2
    MaxMischance = 2
INVARIANTS Recoverable HostSound WayBack TrialGuarded InstalledIsSigned
PROPERTIES HostLives FindsController RotationCarries PublicationSafe
CHECK_DEADLOCK FALSE
