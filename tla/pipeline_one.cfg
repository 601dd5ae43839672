SPECIFICATION FairSpec
CONSTANTS
    Messages = {file}
    Files = {file}
    Checked = {file}
    Attempts = 3
    MaxFaults = 2
    MaxCrashes = 2
    MayDelete = TRUE
PROPERTIES JobsSettle ImplementsDelivery
CHECK_DEADLOCK FALSE
