SPECIFICATION FairSpec
CONSTANTS
    Fetchers = {f1, f2}
    None = None
    Events = {"force", "maintain", "restore"}
    MaxHeads = 3
    MaxOps = 2
INVARIANTS
    FetchInv
PROPERTIES
    EveryFetchEnds
CHECK_DEADLOCK FALSE
