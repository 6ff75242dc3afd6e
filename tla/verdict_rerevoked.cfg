SPECIFICATION VSpec
CONSTANTS
    Worker = {w1, w2}
    Client = {c1}
    Key = {k1}
    None = none
    Torn = torn
    Requests = {"revoke", "sign"}
    CanCrash = TRUE
    MaxReplace = 0
    MaxClock = 3
    MaxPackages = 1
SYMMETRY Symmetry
INVARIANT RevokedFirstRejected
