CONSTANTS
    Origin = 0
    InitHead = 7
    MaxHeight = 7
    BadHeaders <- MCNoBadHeaders
    FsMinFullBlocks = 2
    ReorgProtHeaderDelay = 1
    ReorgProtThreshold = 1
    PivotConfirmGap = 1
    FsHeaderSafetyNet = 3
    MaxHeaderFetch = 2
    MaxSkeletonSize = 2
    MaxHeadersProcess = 2
    MaxQueuedHeaders = 4
    MaxResultsProcess = 3
    StateSyncFails = FALSE
    HeaderTimeouts = FALSE
SPECIFICATION Spec
CHECK_DEADLOCK FALSE
INVARIANTS
    HonestPeerNotBlamed
PROPERTIES
    Termination
