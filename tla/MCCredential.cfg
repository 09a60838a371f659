SPECIFICATION FairSpec
CONSTANTS
    s1 = s1
    s2 = s2
    o1 = o1
    o2 = o2
    t1 = t1
    t2 = t2
    t3 = t3
    Slots = {s1, s2}
    MaxGeneration = 2
    Objects = {o1, o2}
    NoObject = NoObject
    Revisions = {t1, t2, t3}
    Configs <- OperatorConfigs
    MaxRuns = 2
    NoRun = NoRun
    NoRef = NoRef
    NoTarget = NoTarget
    NoSlot = NoSlot
    MaxEdits = 1
    MaxSwaps = 2
    MaxFaults = 1
    MaxCrashes = 1
    MaxTrouble = 3
INVARIANTS
    ReleasedSeesEnrolled
    EveryDatabaseOpens
    ServedStaysAccepted
PROPERTIES
    NoWorkOnTainted
    LeaseReleased
CHECK_DEADLOCK FALSE
