SPECIFICATION Spec
CONSTANTS
    e1 = e1
    s1 = s1
    Worker = {w1}
    Enrollment = {e1, e2}
    Serial = {s1, s2}
    DemoEnrollment = demoE
    DemoSerial = demoS
    Email = {alice, bob}
    Alice = alice
    None = none
    Preissued <- OneIssued
    Requests = {"enroll", "enrollDemo", "issue", "activate", "revoke", "revokeRegistry", "sync"}
    Lapsing = {s1}
    Sequential = TRUE
    SerialRevocation = TRUE
    CanCrash = TRUE
SYMMETRY Symmetry
INVARIANT OneCertificatePerEnrollment
INVARIANT IssuedOnProof
INVARIANT RevokedStaysRevoked
INVARIANT ActiveIsOwn
