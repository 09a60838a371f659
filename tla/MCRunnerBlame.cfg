SPECIFICATION MCSpec
CONSTANTS
    MaxEvents = 3
    Targets <- MCTargets
    Programs = {"untrusted"}
    TheLimits = {3}
    MaxAhead = 1
    MaxFaults = 0
PROPERTY
    ProtocolViolationIsNamed
CHECK_DEADLOCK FALSE
