SPECIFICATION PadesSpec
CONSTANTS
    Worker = {w1, w2}
    Gen = {g1, g2}
    None = none
    Torn = torn
    Requests = {"init", "demo", "issue", "revoke", "sign"}
    CanCrash = TRUE
    MaxIssued = 1
    MaxPdfs = 1
SYMMETRY Symmetry
INVARIANT PadesTypeOK
INVARIANT LevelHolds
INVARIANT CurrentIsWhole
INVARIANT DemoIsListed
INVARIANT WrittenIsCurrent
INVARIANT RevokedGetsNoEvidence
 
