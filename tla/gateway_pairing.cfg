SPECIFICATION Spec
CONSTANTS
    Qr = qr
    Attempts <- MCAttempts
    MaxJobs <- MCMaxJobs
    Users = {}
    QrJobs = 1
    UserJobs = 1
    QrTries = 1
    UserTries = 1
    MaxRuntimes = 2
    MaxConns = 3
    MaxRestarts = 1
    MaxFaults = 1
    MayDelete = TRUE
    MayExpire = TRUE
    Overlap = 1
VIEW MemoryView
INVARIANTS OneListener PromisePending ConnectedOrConnecting
CHECK_DEADLOCK FALSE
