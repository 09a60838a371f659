\* Three messages, two of them admissible, replies of two chunks, two faults or crashes, one edit or other policy.
SPECIFICATION FairSpec
CONSTANTS
    MaxMessage = 3
    Admissible = {2, 3}
    Unpostable = {3}
    CatchUpLimit = 2
    ClaimLimit = 2
    Parts = 2
    NoCursor = NoCursor
    LongOutage = FALSE
    MaxEdits = 1
    MaxFaults = 2
INVARIANTS RepetitionsArePaidFor DeliveredIsPosted
PROPERTIES NothingSkipped NothingWedged
CHECK_DEADLOCK FALSE
