SPECIFICATION Spec
CONSTANTS
    Fetchers = {f1, f2}
    None = None
    Events = {"push", "force", "maintain", "set-head", "restore"}
    MaxHeads = 3
    MaxOps = 3
SYMMETRY Symmetry
INVARIANTS
    TypeOK
    AdvertisedWasHead
    OnlyRemoteFailures
PROPERTIES
    CursorVerified
CHECK_DEADLOCK FALSE
