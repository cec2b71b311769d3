SPECIFICATION MCSpec
CONSTANTS
    Tx = {1, 2}
    MaxBlocks = 3
    Capacity = 2
    Retention = 1
    Section = 1
    FaultSets = {{"execution", "batch"}, {"batch", "commit"}, {"batch", "interrupt"}, {"commit", "crash"}}
    Call = {c1, c2}
    Txs = {large, small}
    Gas <- MCGas
    Bytes <- MCBytes
    MaxGas = 3
    MaxBytes = 2
    MaxHeight = 2
    MaxSerial = 3
    MaxPending = 1
    Mishaps = {{"giveup", "batch", "index"}, {"twice", "giveup", "batch"}, {"empty", "twice", "batch"},
               {"empty", "giveup"}, {"unfiltered", "giveup"},
               {"noroot", "cancel", "commit"}, {"giveup", "noroot", "crash"},
               {"reinit", "noroot", "cancel", "batch", "commit", "crash"},
               {"empty", "reinit", "noroot", "crash"}}
    Clients = {client1}
    Worlds <- MCWorlds
    large = large
    small = small
CHECK_DEADLOCK FALSE
INVARIANTS ProducedOnce ShownIsCommitted StartsAgreeWithDisk LinearWhileAlive LiveTxsKept ClientToldTruth
SYMMETRY Interchangeable
