SPECIFICATION SignSpec
CONSTANTS
    e1 = e1
    s1 = s1
    Worker = {w1, w2}
    Enrollment = {e1}
    Serial = {s1}
    DemoEnrollment = demoE
    DemoSerial = demoS
    Email = {alice}
    Alice = alice
    None = none
    Preissued <- Nothing
    Requests = {"activate", "revoke", "revokeRegistry", "sync"}
    Lapsing = {s1, demoS}
    Sequential = FALSE
    SerialRevocation = TRUE
    CanCrash = TRUE
    Request = {r1}
    File = {f1}
    ClientHeld = {}
SYMMETRY Symmetry
INVARIANT TypeOK
INVARIANT RevokedStaysRevoked
INVARIANT NoLateSignature
