SPECIFICATION Spec
CONSTANTS
    Messages = {file}
    Files = {file}
    Checked = {}
    Attempts = 3
    MaxFaults = 0
    MaxCrashes = 0
    MayDelete = FALSE
INVARIANT UploadKeptUntilFinished
CHECK_DEADLOCK FALSE
