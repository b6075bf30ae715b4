SPECIFICATION Spec
CONSTANTS
    Workers = {w1, w2}
    None = None
    Genesis = Genesis
    Tip = 2
    Fanouts = {2}
    MaxLevel = 2
    MaxOps = 2
    MaxFaults = 1
    Overlap = FALSE
SYMMETRY Symmetry
INVARIANTS
    TypeOK
    LiveKeysStored
    BarrierProtects
    BranchCovered
    CollectInv
PROPERTIES
    DeletesAnnounced
CHECK_DEADLOCK FALSE
