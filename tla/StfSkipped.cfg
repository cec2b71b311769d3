SPECIFICATION Spec
CHECK_DEADLOCK FALSE
CONSTANTS
    N = 3
    MaxGas = 2
    BlockGasLimit = 2
    MaxU64 = 4
    MaxObjects = 1
    Minting = {"execute"}
INVARIANT SkippedCount
