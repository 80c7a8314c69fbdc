CONSTANTS
    MaxHeaderFetch = 192
    FullMaxForkAncestry = 20
    LightMaxForkAncestry = 10
    MaxHeight = 28
    ModeTexts <- MCModeTexts
    PeerLies = TRUE
SPECIFICATION Spec
CHECK_DEADLOCK FALSE
PROPERTIES
    ImplementsAncestorSpec
