SPECIFICATION Spec
CONSTANTS
    MaxSafe = 130
    MaxIndex = 127
    MaxFields = 5
    Names <- MCNames
    Padded <- MCPadded
    Word = 64
    MinOutlen = 4
    MinSaltLength = 4
    MaxMemory = 63
    MaxLanes = 7
    ULONG_MAX = 137
    AccWord = 4096
    CodecCalls <- MCCodecCalls
    MaxText = 5
    Letters <- HighLetters
INVARIANT
    StopsAtNonBase64
CHECK_DEADLOCK FALSE
