\* A Run that writes its workspace, with repeated StartRun calls, and one that only
\* reads it: one worker, one queue slot, one fault.  Both are published in the end and
\* the system stops.
SPECIFICATION Spec
CONSTANTS
    Runs = {r1, r2}
    NoRun = NoRun
    Writable = {r1}
    Cancellable = {}
    Expiring = {}
    Duplicates = {r1}
    QueueCapacity = 1
    MaxFaults = 1
    MaxCrashes = 0
    MaxBoots = 1
INVARIANTS OneOwner WriterKeepsWorkspace
PROPERTY ImplementsAuthority
CHECK_DEADLOCK FALSE
