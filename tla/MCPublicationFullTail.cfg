SPECIFICATION Spec
CONSTANTS
    Pushers = {p1, p2}
    Admins = {a1}
    Refs <- MCRefs
    Oids <- MCOids
    Ancestors <- MCAncestors
    Batches <- MCFewBatches
    None = None
    main = main
    dev = dev
    MaxRecords = 2
    MaxTailBytes = 32
    MaxAttempts = 1
    MaxOps <- MCMaxOps
    PushOps = 2
    AdminOps = 1
    MaxFaults = 0
    MaxGeneration = 3
INVARIANTS
    HeadReadable
CHECK_DEADLOCK FALSE
