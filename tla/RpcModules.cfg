SPECIFICATION ModulesSpec
CONSTANTS
    r1 = r1
    r2 = r2
    Block <- Chain
    Reader = {r1, r2}
    InOrder = FALSE
    MayRestart = FALSE
CHECK_DEADLOCK FALSE
PROPERTY ModulesAnswered
