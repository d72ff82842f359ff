SPECIFICATION Spec
CONSTANTS
    Hashes = {"h1"}
    Verifies = {"v1"}
    MaxSafe = 130
    MaxIndex = 127
    MaxCost = 120
    MaxParallelism = 8
    AdText = "124"
    Writable = {"password"}
    Short = {"", "tiny"}
    Names <- MCNames
    Padded <- MCPadded
    Readings <- MCReadings
    Requests <- MCRequests
    Attempts <- MCAttempts
    Stored <- MCStored
INVARIANTS
    DigestVerifies
