SPECIFICATION Spec
CONSTANTS
    BLOCKBYTES = 4
    OUTBYTES = 4
    KEYBYTES = 3
    Word64 = 8
    LENBYTES = 2
    MaxOutlen = 11
    MaxGiven = 13
    Outlens = {0, 1, 4, 5, 6, 7, 8, 9, 10, 11, 12}
    Inlens = {0, 1, 2, 3, 4, 5, 8, 9}
INVARIANTS
    LongOutput
    BuffersHold
PROPERTIES
    DigestOfMessage
