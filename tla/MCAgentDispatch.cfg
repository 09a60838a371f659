\* The second and third Run of a conversation of at most two turns in one lineage,
\* one fault, one crash of either side.
SPECIFICATION MCFairSpec
CONSTANTS
    Runs = {r1, r2, r3}
    NoRun = NoRun
    Scopes = {s1}
    ScopeOf <- OneScope
    Refs = {f1, f2, f3}
    NoRef = NoRef
    First = r1
    FirstRef = f1
    MaxTurns = 2
    Cancellable = {r2}
    MaxFaults = 1
    MaxCrashes = 1
INVARIANTS CoreRepeatsSandbox ResumedOnce PointerFollowsLineage
PROPERTY EveryRunEnds
