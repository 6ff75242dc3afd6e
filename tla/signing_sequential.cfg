SPECIFICATION SignSpec
CONSTANTS
    e1 = e1
    s1 = s1
    Worker = {w1}
    Enrollment = {e1}
    Serial = {s1}
    DemoEnrollment = demoE
    DemoSerial = demoS
    Email = {alice}
    Alice = alice
    None = none
    Preissued <- OneIssued
    Requests = {"activate", "revoke"}
    Lapsing = {}
    Sequential = TRUE
    SerialRevocation = TRUE
    CanCrash = FALSE
    Request = {r1, r2}
    File = {f1, f2}
    ClientHeld = {s1}
INVARIANT SignTypeOK
INVARIANT OneSignaturePerRequest
PROPERTY PromiseSpec
