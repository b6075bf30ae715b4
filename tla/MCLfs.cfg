SPECIFICATION Spec
CONSTANTS
    Keys = {"empty", "small", "large"}
    Spans <- MCSpans
    Large = {"large"}
    Uploaders = {u1, u2}
    Workers = {w1, w2}
    MaxRequests = 2
    MaxCauses = 2
SYMMETRY Symmetry
INVARIANTS
    UploadedIsStored
    UploadsAgree
    DownloadedIsWhole
    IntegrityMeansDamage
    LfsInv
CHECK_DEADLOCK FALSE
