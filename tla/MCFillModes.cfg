SPECIFICATION ModesSpec
CONSTANTS
    Lanes = 3
    SegmentLength = 2
    Word = 32
    Threads = 2
    Passes = 2
    Type = "i"
    Version10 = TRUE
    Opt = FALSE
    AddressesInBlock = 2
    JoinMayFail = TRUE
INVARIANTS
    ThreadBound
PROPERTIES
    ImplementsSchedule
