SPECIFICATION Spec
CONSTANTS
    Messages = {text, file}
    Files = {file}
    Checked = {file}
    Attempts = 2
    MaxFaults = 1
    MaxCrashes = 1
    MayDelete = TRUE
INVARIANTS TypeOK SentMeansDelivered CompletedHasResult CountersMatch
PROPERTIES ResultNotRequeued ImplementsDelivery
CHECK_DEADLOCK FALSE
