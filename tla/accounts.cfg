SPECIFICATION Spec
CONSTANTS
    FirstAdmin = a
    SecondAdmin = b
    FirstUser = u
    Root = root
    None = none
    Threads = {p, q, r}
    Admins = {a, b}
    Users = {u, v}
    Manager <- MCManager
    Keys = {1, 2, 3, 4}
    Labels = {1, 2, 3, 4}
    MaxRequests = 3
    MaxFaults = 1
SYMMETRY ThreadSymmetry
INVARIANTS TypeOK NoLeftovers UserComplete KeysBounded
PROPERTIES Tenancy RevocationHolds
CHECK_DEADLOCK FALSE
