SPECIFICATION ServicesSpec
CONSTANTS
    Slots = {1, 2}
    Workflow = workflow
    Retain = 1
    MaxSeconds = 1
    MaxEvents = 3
    Clients = {"a", "b"}
    Policies = {"login"}
    Limit <- OneLimit
    Window = 2
    Capacity = 1
    MaxRestarts = 1
    MaxLate = 2
    RetainCount = 2
    MaxFailures = 5
INVARIANTS
    BackupTypeOK
    Exclusive
    SafetyHolds
    RateBound
    HealthIsTrue
    DeadLettersAreLatest
PROPERTIES
    CreatedIsComplete
    LastCompleteKept
    OperationsEnd
    NoLockout
CHECK_DEADLOCK FALSE
