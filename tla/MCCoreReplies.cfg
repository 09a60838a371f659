\* Receipts, horizon, compaction and replies over three Runs, under a clock that is
\* set back: replies leased, retried, expired, and settled after their receipts.  A call
\* reads the clock as it stands; setting it back reaches every reading a wait would.
SPECIFICATION Spec
CONSTANTS
    c1 = c1
    e1 = e1
    e2 = e2
    e3 = e3
    e4 = e4
    e5 = e5
    s1 = s1
    s2 = s2
    s3 = s3
    Connectors = {c1}
    Events = {e1, e2, e3}
    Scopes = {s1}
    Refs = {}
    NoRef = NoRef
    NoEvent = NoEvent
    NoScope = NoScope
    RunIds = {1, 2, 3}
    Details = {}
    NoDetail = NoDetail
    EventConnector <- OneConnector
    ScopeConnector <- OneConnectorScopes
    OccurredAt <- OccurredInTurn
    AcceptWindow = 1
    ReceiptWindow = 2
    FutureSkew = 1
    MaxReceipts = 1
    MaxQueued = 1
    MaxNonTerminal = 1
    MaxPending = 1
    MaxRetained = 9
    DispatchLease = 9
    RunTimeout = 2
    DeliveryLease = 1
    ClaimLimit = 1
    RetryBackoff <- ShortBackoff
    ClockStepsBack = TRUE
    StaleSamples = FALSE
    MaxClock = 4
    MaxDispatches = 1
    MaxSends = 2
INVARIANTS
    AtMostOneRunPerEvent
PROPERTIES
    RetainsOnlyWhatIsNeeded
    ReplyKeptUntilSettled
    LiveDeliveryLeaseKept
CHECK_DEADLOCK FALSE
