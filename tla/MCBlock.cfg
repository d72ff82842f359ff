SPECIFICATION BlockSpec
CONSTANTS
    Lanes = 2
    SegmentLength = 4
    Word = 64
INVARIANTS
    ReferenceAllowed
    EveryReferenceReachable
    StoresReferenceBlock
PROPERTIES
    LargerIsOlder
CHECK_DEADLOCK FALSE
