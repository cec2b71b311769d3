SPECIFICATION Spec
CONSTANTS
    Writer = Writer
    Pruner = Pruner
    a = a
    c1 = c1
    c2 = c2
    r1 = r1
    r2 = r2
CHECK_DEADLOCK FALSE
PROPERTIES EveryoneGetsThrough CallersAnswered CommittedArrives
