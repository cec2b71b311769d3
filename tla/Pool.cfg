SPECIFICATION MCSpec
CONSTANTS
    t1 = t1
    t2 = t2
    t3 = t3
    alice = alice
    NoSender = NoSender
    Tx <- MCTx
    Sender <- MCSender
    SenderOf <- MCSenderOf
    GasPrice <- MCGasPrice
    Nonce <- MCNonce
    GasLimit <- MCGasLimit
    Budget <- MCBudget
    MaxU64 = 5
    MaxHeap = 2
    MaxSeq = 3
INVARIANTS PoolConsistent SelectionHolds AdmittedProperly
PROPERTY ImplementsPool
CHECK_DEADLOCK FALSE
