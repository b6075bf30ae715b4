SPECIFICATION Spec
CONSTANTS
    Pushers = {p1, p2}
    Admins = {a1}
    Refs <- MCRefs
    Oids <- MCOids
    Ancestors <- MCAncestors
    Batches <- MCBatches
    None = None
    main = main
    dev = dev
    MaxRecords = 32
    MaxTailBytes = 1
    MaxAttempts = 2
    MaxOps <- MCMaxOps
    PushOps = 2
    AdminOps = 1
    MaxFaults = 1
    MaxGeneration = 3
PROPERTIES
    ImplementsRefLog
    HeadReplacements
    NoFalseRefusal
SYMMETRY Symmetry
INVARIANTS
    ChainGapFree
    AcknowledgedOnChain
    HeadReadable
    RefsAreReplayOfChain
    LogOnChain
    PublicationInv
    ReadInv
CHECK_DEADLOCK FALSE
