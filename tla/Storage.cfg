SPECIFICATION Spec
CONSTANTS
    Key = {k1, k2, k3}
    Reader = {r1, r2}
    Writer = Writer
    Pruner = Pruner
    MaxBatches = 1
    MaxEntries = 2
    MaxRetries = 0
    Usages = {{"get", "overlap", "crash"}, {"async"}, {"warm"}, {"many"}}
INVARIANTS CacheBounded CommittedSurvives SerialReadsAreCurrent
SYMMETRY Interchangeable
