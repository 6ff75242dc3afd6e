SPECIFICATION TokenSpec
CONSTANTS
    Worker = {w1, w2}
    None = none
    Token = {t1}
    Key = {k1, k2}
    Torn = torn
    CanCrash = TRUE
    MaxEvents = 4
SYMMETRY Symmetry
INVARIANT TokenTypeOK
 
INVARIANT HeldVerifies
INVARIANT ChainUnbroken
