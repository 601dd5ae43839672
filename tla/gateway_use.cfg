SPECIFICATION FairSpec
CONSTANTS
    Qr = qr
    Attempts <- MCAttempts
    MaxJobs <- MCMaxJobs
    Users = {send}
    QrJobs = 0
    UserJobs = 1
    QrTries = 1
    UserTries = 2
    MaxRuntimes = 2
    MaxConns = 2
    MaxRestarts = 0
    MaxFaults = 1
    MayDelete = FALSE
    MayExpire = FALSE
    Overlap = 1
INVARIANTS TypeOK SingleFlight ConnectedIsCurrent
PROPERTY JobsFinish
CHECK_DEADLOCK FALSE
