SPECIFICATION Spec
CONSTANTS
    pp = 23
    nn = 17
    b = 15
    gx = 1
    gy = 6
    Word = 32
    PublicKeys <- Points
    Rs <- MCScalars
    Ss <- MCScalars
    Hashes = {0, 1, 6, 16, 17, 30}
INVARIANTS
    TypeOK
    LoopInvariant
    
    SignedIsAccepted
CHECK_DEADLOCK FALSE
