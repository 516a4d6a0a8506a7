SPECIFICATION MCSpec
CONSTANTS
    Jobs = {1, 2}
    Scenarios <- Mixed
    TrialLimit = 1
    BatchLimit = 1
    Listeners = {l1}
    RawRetention = 1
    ReceiptLife = 2
    MaxAhead = 1
    AbsenceGrace = 1
    InventoryMaxAge = 1
    ReportPlans <- MCReportPlans
    Sockets = {s1}
    MaxOrders = 2
    MaxPosts = 4
    MaxUpsets = 3
    Levels = {0, 1, 2, 3}
    Thresholds <- MCThresholds
    Policies = {"host", "service"}
    PersistFor = 2
    RecoverFor = 1
    MaxGap = 1
    Staleness = 1
    MaxSamples = 5
    MaxActs = 1
    LastTick = 3
INVARIANTS CancelledNeverRuns RepeatedOnlyWhenLate ReceiptsHonest HistoryExact MissingIsSustained
    ConfigHonest ConfigConverges IncidentEarned
PROPERTIES TerminalStays 
CHECK_DEADLOCK FALSE
