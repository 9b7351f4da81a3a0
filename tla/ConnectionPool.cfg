SPECIFICATION FairSpec
CONSTANTS
    r1 = r1
    r2 = r2
    n1 = n1
    n2 = n2
    n3 = n3
    None = None
    Requests = {r1, r2}
    Slots = {n1, n2, n3}
    Kinds <- Shapes
    MaxRuns = 2
    MaxFaults = 1
CHECK_DEADLOCK FALSE
INVARIANTS TypeOK OnePlace LeakBound NeverStuck
PROPERTY EveryRequestEnds
