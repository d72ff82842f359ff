SPECIFICATION FairSpec
CONSTANTS
    Calls = {1, 2}
    Word = 32
    SizeWord = 128
    BlockSize = 4
    MinOutlen = 1
    MinSaltLength = 2
    MaxMemory = 31
    MaxLanes = 3
    PoolSize = 1
    Arguments <- MCArguments
    HashCall = TRUE
    VerifyCall = TRUE
    BadCall = TRUE
    SerialCall = FALSE
INVARIANTS
    NoResidue
    MatricesAccountedFor
PROPERTIES
    ImplementsService
