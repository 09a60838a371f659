SPECIFICATION Spec
CONSTANTS
    Configs <- MCConfigs
    Policies <- MCPolicies
    Actors = {"alice", "bot"}
    Conversations = {"room"}
    Self = "bot"
    Directories = {"d1", "d2"}
    Procs = {p1, p2}
    NoProc = NoProc
    Runs = {r1, r2}
    None = None
    MaxStarts = 2
    MaxEdits = 2
    MaxCrashes = 1
    MaxLate = 1
INVARIANTS
    ExecutesTheGrant
    RevisionMeansOneThing
    OneRevisionPerDirectory
    RefusesOnlyHandMade
SYMMETRY Symmetry
CHECK_DEADLOCK FALSE
