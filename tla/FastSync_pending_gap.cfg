CONSTANTS
    Origin = 0
    InitHead = 5
    MaxHeight = 7
    BadHeaders <- MCNoBadHeaders
    FsMinFullBlocks = 2
    ReorgProtHeaderDelay = 1
    ReorgProtThreshold = 1
    PivotConfirmGap = 1
    FsHeaderSafetyNet = 3
    MaxHeaderFetch = 2
    MaxSkeletonSize = 2
    MaxHeadersProcess = 2
    MaxQueuedHeaders = 4
    MaxResultsProcess = 3
    StateSyncFails = TRUE
    HeaderTimeouts = TRUE
SPECIFICATION Spec
CHECK_DEADLOCK FALSE
INVARIANTS
    PendingResultsContiguous
