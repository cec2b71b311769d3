SPECIFICATION MCSpec
CONSTANTS
    Elem = {"k1", "k2", "k3", "k4"}
    Value = {"v1", "v2"}
    Batches = {}
    MaxLength = 4
    a = a
    b = b
    c = c
    rt = rt
    t1 = t1
    t2 = t2
    t3 = t3
CHECK_DEADLOCK FALSE
INVARIANT ErrorsToldApart
