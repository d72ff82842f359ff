SPECIFICATION FairSpec
CONSTANTS
    Lanes = 2
    SegmentLength = 3
    Word = 32
    Threads = 2
    Passes = 2
    Type = "id"
    Version10 = FALSE
    Opt = TRUE
    AddressesInBlock = 2
    JoinMayFail = FALSE
INVARIANTS
    TypeOK
    ReadsAreSequential
    NoDataRace
    AddressBlockFresh
    CompleteOnOK
    NoThreadOutlivesCall
    NoUndefinedJoin
PROPERTIES
    Termination
