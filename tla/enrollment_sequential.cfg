SPECIFICATION FairKeySpec
CONSTANTS
    Worker = {w1}
    Enrollment = {e1, e2}
    Serial = {s1}
    Challenge = {c1, c2}
    MaxAttempts = 3
    TTL = 1
    MaxClock = 2
    DemoEnrollment = demoE
    DemoSerial = demoS
    Email = {alice, bob}
    Alice = alice
    None = none
    Preissued <- Nothing
    Requests = {"issue"}
    Lapsing = {}
    Sequential = TRUE
    SerialRevocation = TRUE
    CanCrash = FALSE
INVARIANT KeyTypeOK
 
INVARIANT SingleUse
INVARIANT LockoutHolds
INVARIANT UsedNamesEnrollment
PROPERTY ClosedStaysClosed
PROPERTY PolicySpec
PROPERTY AcceptedIsRecorded
PROPERTY IssuedGetsRecord
