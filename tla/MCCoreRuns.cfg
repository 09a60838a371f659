\* Two Runs in two scopes: claims, prepared starts and session pointers over requeues,
\* resets and successive Runs, with clock samples that waited for the writer.
SPECIFICATION Spec
CONSTANTS
    c1 = c1
    e1 = e1
    e2 = e2
    e3 = e3
    e4 = e4
    e5 = e5
    s1 = s1
    s2 = s2
    s3 = s3
    Connectors = {c1}
    Events = {e1, e2}
    Scopes = {s1, s2}
    Refs = {ref1}
    NoRef = NoRef
    NoEvent = NoEvent
    NoScope = NoScope
    RunIds = {1, 2}
    Details = {d1}
    NoDetail = NoDetail
    EventConnector <- OneConnector
    ScopeConnector <- OneConnectorScopes
    OccurredAt <- OccurredEarly
    AcceptWindow = 5
    ReceiptWindow = 6
    FutureSkew = 1
    MaxReceipts = 2
    MaxQueued = 1
    MaxNonTerminal = 2
    MaxPending = 2
    MaxRetained = 3
    DispatchLease = 1
    RunTimeout = 2
    DeliveryLease = 2
    ClaimLimit = 1
    RetryBackoff <- ShortBackoff
    ClockStepsBack = FALSE
    StaleSamples = TRUE
    MaxClock = 2
    MaxDispatches = 2
    MaxSends = 0
SYMMETRY Symmetry
INVARIANTS
    GlobalOneExecution
PROPERTIES
    StartedRunNeverRestarts
    PreparedStartFrozen
    LiveDispatchLeaseKept
CHECK_DEADLOCK FALSE
