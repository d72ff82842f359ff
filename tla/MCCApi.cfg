SPECIFICATION ProgramSpec
CHECK_DEADLOCK FALSE
CONSTANTS
    Calls = {1, 2}
    Word = 64
    SizeWord = 128
    BlockSize = 4
    MinOutlen = 1
    MinSaltLength = 2
    MaxMemory = 63
    MaxLanes = 6
    Contexts <- MCContexts
    Contents <- MCContents
    Programs <- MCPrograms
    HashArguments <- MCHashArguments
    Attempts <- MCAttempts
    Strings <- MCStrings
    ULongMax = 1000
    MaxMemoryBits = 6
    T_COST_DEF = 3
    LOG_M_COST_DEF = 4
    OUTLEN_DEF = 3
    MAX_PASS_LEN = 5
    Words <- MCWords
    CommandLines <- MCCommandLines
    Inputs <- MCInputs
    MaxOptions = 3
INVARIANTS
    GeometryEstablished
    AllocationCoversMatrix
    SecretsGoneWhileFilling
    VerdictIsRight
    OutputsMatchArguments
    BuffersFreed
    EncodedLenExact
    PrintsWhatIsAsked
