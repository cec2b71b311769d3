SPECIFICATION Spec
CONSTANTS
    Key = {k1}
    Reader = {r1, r2}
    Writer = Writer
    Pruner = Pruner
    MaxBatches = 1
    MaxEntries = 2
    MaxRetries = 1
    Usages = {{"get", "overlap"}}
INVARIANT ReadsAreCurrent
