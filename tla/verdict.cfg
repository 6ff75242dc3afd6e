SPECIFICATION VSpec
CONSTANTS
    Worker = {w1, w2}
    Client = {c1}
    Key = {k1, k2, k3}
    None = none
    Torn = torn
    Requests = {"revoke", "sign", "stamp", "replace"}
    CanCrash = TRUE
    MaxReplace = 1
    MaxClock = 3
    MaxPackages = 1
SYMMETRY Symmetry
INVARIANT VerdictTypeOK
INVARIANT TokensVerify
 
INVARIANT RevokedOnceRejected
