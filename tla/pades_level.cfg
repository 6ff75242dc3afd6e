SPECIFICATION PadesSpec
CONSTANTS
    Worker = {w1}
    Gen = {g1, g2}
    None = none
    Torn = torn
    Requests = {"init", "issue", "sign"}
    CanCrash = FALSE
    MaxIssued = 1
    MaxPdfs = 1
SYMMETRY Symmetry
INVARIANT LevelIsHonest
