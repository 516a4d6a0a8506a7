SPECIFICATION MCSpec
CONSTANTS
    Devices <- MCDevices
    WayOf <- MCWayOf
    MaxCandidates = 1
    MaxRotations = 2
    MaxSlips = 2
    Owners = {o1, o2}
    Ids = {1, 2}
    Room = 1
    Watches <- MCWatches
    MaxReaders = 2
    MaxTurns = 1
    Tabs = {1, 2}
    OutRoom = 1
    MaxChannels = 2
    Visits <- MCVisits
INVARIANTS ProofHonoured RevokedIsOut TerminalsApart
PROPERTIES  ReadersMatch ShellFollowsTab
CHECK_DEADLOCK FALSE
