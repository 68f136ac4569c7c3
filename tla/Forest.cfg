SPECIFICATION FairSpec
CONSTANTS
    n1 = n1
    n2 = n2
    n3 = n3
    n4 = n4
    Node = {n1, n2, n3, n4}
    Depths = {0, 2}
    Config <- RingConfig
    MaxRestarts = 1
    NoEdge = NoEdge
CHECK_DEADLOCK FALSE
INVARIANTS
    TypeOK
    NoLoop
    DepthKept
PROPERTIES
    KnowsReachable
    NoDirectTwice
