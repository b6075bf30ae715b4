SPECIFICATION Spec
CONSTANTS
    Fetchers = {f1}
    None = None
    Events = {"push", "maintain"}
    MaxHeads = 4
    MaxOps = 3
INVARIANTS
    RequestedPresent
CHECK_DEADLOCK FALSE
