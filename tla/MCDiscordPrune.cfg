\* The same channel with one failed call, when agentd may be away for longer than the Connector keeps its records.
SPECIFICATION FairSpec
CONSTANTS
    MaxMessage = 3
    Admissible = {2, 3}
    Unpostable = {}
    CatchUpLimit = 2
    ClaimLimit = 2
    Parts = 2
    NoCursor = NoCursor
    LongOutage = TRUE
    MaxEdits = 0
    MaxFaults = 1
PROPERTY RecordedNeverResent
CHECK_DEADLOCK FALSE
