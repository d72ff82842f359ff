SPECIFICATION Spec
CONSTANTS
    Lanes = 3
    SegmentLength = 2
    Word = 32
    Threads = 2
    Passes = 1
    Type = "id"
    Version10 = FALSE
    Opt = TRUE
    AddressesInBlock = 2
    JoinMayFail = FALSE
INVARIANTS
    NoUndefinedJoin
