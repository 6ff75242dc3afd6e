SPECIFICATION Spec
CONSTANTS
    e1 = e1
    s1 = s1
    Worker = {w1}
    Enrollment = {e1}
    Serial = {s1}
    DemoEnrollment = demoE
    DemoSerial = demoS
    Email = {alice}
    Alice = alice
    None = none
    Preissued <- OneIssued
    Requests = {"activate"}
    Lapsing = {}
    Sequential = TRUE
    SerialRevocation = TRUE
    CanCrash = FALSE
SYMMETRY Symmetry
INVARIANT SupersededNotInUse
