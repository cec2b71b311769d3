SPECIFICATION MCSpec
CHECK_DEADLOCK FALSE
CONSTANTS
    N = 2
    MaxGas = 2
    BlockGasLimit = 1
    MaxU64 = 3
    MaxObjects = 1
    Minting = {"begin", "resolve", "bootstrap", "validate", "recipient", "execute", "post", "end"}
    a = a
    b = b
    d = d
    c1 = c1
    c2 = c2
    gold = gold
    silver = silver
    Runtime = Runtime
    UnknownCode = UnknownCode
    NoCode = NoCode
INVARIANTS UniqueIdsDistinct ResultsTellState GasWithinBlock CallsContained
PROPERTY CallsDeliver
SYMMETRY Alike
