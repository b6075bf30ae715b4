SPECIFICATION Spec
CONSTANTS
    Workers = {w1, w2}
    None = None
    Genesis = Genesis
    Tip = 1
    Fanouts = {2}
    MaxLevel = 2
    MaxOps = 3
    MaxFaults = 0
    Overlap = TRUE
INVARIANTS
    LiveKeysStored
CHECK_DEADLOCK FALSE
