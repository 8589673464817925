SPECIFICATION FairSpec
CONSTANTS
    Xfers = {t1, b1}
    Bulk = {b1}
    MaxSubmits = 2
    MaxReapers = 1
    MaxResets = 0
    Faults = {}
CHECK_DEADLOCK FALSE
INVARIANTS TypeOK BufferReturned SuccessIsLatest CloseWaitsForReaper
PROPERTY CloseReleases
