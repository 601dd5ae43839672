SPECIFICATION FairFrontendSpec
CONSTANTS
    Calls = {1, 2}
    MaxRev = 2
    MaxLosses = 1
INVARIANTS
    FrontendTypeOK
    ButtonsAwaited
PROPERTIES
    ActionShown
    UserPageCatchesUp
    PortalCatchesUp
CHECK_DEADLOCK FALSE
