SPECIFICATION WatchedFairSpec
CONSTANTS
    Qr = qr
    Attempts <- MCAttempts
    MaxJobs <- MCMaxJobs
    Users = {}
    QrJobs = 0
    UserJobs = 1
    QrTries = 1
    UserTries = 1
    MaxRuntimes = 2
    MaxConns = 2
    MaxRestarts = 1
    MaxFaults = 1
    MayDelete = TRUE
    MayExpire = TRUE
    Overlap = 2
INVARIANTS StoresAgree 
PROPERTIES Reconnects DeletedStops
CHECK_DEADLOCK FALSE
