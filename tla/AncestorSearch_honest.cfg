CONSTANTS
    MaxHeaderFetch = 192
    FullMaxForkAncestry = 20
    LightMaxForkAncestry = 10
    MaxHeight = 28
    ModeTexts <- MCModeTexts
    PeerLies = FALSE
SPECIFICATION Spec
CHECK_DEADLOCK FALSE
INVARIANTS
    TypeOK
    HonestAncestor
    ModeTextRoundTrip
PROPERTIES
    Termination
