SPECIFICATION MCFairSpec
CONSTANTS
    MaxEvents = 3
    Targets <- MCTargets
    Programs = {"codex", "mock", "untrusted"}
    TheLimits = {2, 3}
    MaxAhead = 1
    MaxFaults = 1
INVARIANTS
    SnapshotAlwaysValid
    RoomForTheOutcome
    OurRunnersConform
PROPERTIES
    BlameFits
    EveryRunEnds
CHECK_DEADLOCK FALSE
