CONSTANTS
    MaxConnections = 3
    MaxConcurrent = 2
    Operations = {"inference"}
    NativeCalls = 2
    MaxFaults = 1
SPECIFICATION FairSpec
INVARIANTS
    KeptTokenIsCurrent
    ReleasedMeansJoined
PROPERTIES
    FenceHolds
    CleanupEnds
CHECK_DEADLOCK FALSE
