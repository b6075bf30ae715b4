SPECIFICATION FairSpec
CONSTANTS
    Files <- MCFiles
    Wals <- MCWals
    Spans <- MCSpans
    Workers = {w1, w2}
INVARIANTS
    DownloadVerified
    WalVerified
    CauseReported
    KeepsHandedOver
    InstallInv
PROPERTIES
    EveryInstallEnds
CHECK_DEADLOCK FALSE
