SPECIFICATION InstallSpec
CONSTANTS
    Packages <- MCPackages
    SignedWorkers = {2, 4}
    MaxOperations = 4
PROPERTY SnapshotIsWhole
CHECK_DEADLOCK FALSE
