SPECIFICATION FairSpec
CONSTANTS
    c1 = c1
    c2 = c2
    Callers = {c1, c2}
    Units = {1, 2, 3, 4, 5, 6, 7}
    Sources <- MCSources
    None = None
    PartSize = 2
    Threshold = 3
    Concurrency = 2
    MaxParts = 3
    TrailerSize = 3
    MaxFaults = 2
INVARIANTS
    PartsSettled
    UploadsClosed
    TrailerIsObjectEnd
    UploadInv
PROPERTIES
    ImplementsWriteOnce
    EveryPutEnds
CHECK_DEADLOCK FALSE
