SPECIFICATION KeySpec
CONSTANTS
    Worker = {w1, w2}
    Enrollment = {e1, e2}
    Serial = {s1}
    Challenge = {c1}
    MaxAttempts = 2
    TTL = 1
    MaxClock = 1
    DemoEnrollment = demoE
    DemoSerial = demoS
    Email = {alice}
    Alice = alice
    None = none
    Preissued <- Nothing
    Requests = {}
    Lapsing = {s1, demoS}
    Sequential = FALSE
    SerialRevocation = TRUE
    CanCrash = TRUE
SYMMETRY Symmetry
INVARIANT AttemptsBounded
