SPECIFICATION Spec
CONSTANTS
    Workers = {w1}
    None = None
    Genesis = Genesis
    Tip = 1
    Fanouts = {4}
    MaxLevel = 2
    MaxOps = 5
    MaxFaults = 0
    Overlap = FALSE
INVARIANTS
    MaintenanceAccepted
CHECK_DEADLOCK FALSE
