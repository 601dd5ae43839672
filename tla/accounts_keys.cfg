SPECIFICATION Spec
CONSTANTS
    FirstAdmin = a
    SecondAdmin = b
    FirstUser = u
    Root = root
    None = none
    Threads = {p, q}
    Admins = {a}
    Users = {u}
    Manager <- MCManagerOne
    Keys = {1, 2, 3, 4}
    Labels = {1, 2, 3, 4}
    MaxRequests = 2
    MaxFaults = 0
INVARIANT OneActiveKey
CHECK_DEADLOCK FALSE
