\* One Run with two faults, a crash, shutdown or reboot anywhere in its life, a
\* cancellation and a deadline, under fairness.  A published Run is the end of the
\* behaviour.
SPECIFICATION FairSpec
CONSTANTS
    Runs = {r1}
    NoRun = NoRun
    Writable = {r1}
    Cancellable = {r1}
    Expiring = {r1}
    Duplicates = {}
    QueueCapacity = 1
    MaxFaults = 2
    MaxCrashes = 1
    MaxBoots = 2
INVARIANT ProofIsTrue
PROPERTIES ImplementsAuthority EventuallyPublished
CHECK_DEADLOCK FALSE
