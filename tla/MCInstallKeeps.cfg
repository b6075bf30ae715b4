SPECIFICATION Spec
CONSTANTS
    Files <- MCFiles
    Wals <- MCWals
    Spans <- MCSpans
    Workers = {w1, w2}
INVARIANTS
    StaleKeepsCleaned
CHECK_DEADLOCK FALSE
