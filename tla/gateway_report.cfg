SPECIFICATION Spec
CONSTANTS
    Qr = qr
    Attempts <- MCAttempts
    MaxJobs <- MCMaxJobs
    Users = {}
    QrJobs = 1
    UserJobs = 1
    QrTries = 1
    UserTries = 1
    MaxRuntimes = 2
    MaxConns = 3
    MaxRestarts = 0
    MaxFaults = 0
    MayDelete = FALSE
    MayExpire = FALSE
    Overlap = 2
INVARIANT ActiveReportIsTrue
CHECK_DEADLOCK FALSE
