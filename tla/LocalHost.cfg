SPECIFICATION FairSpec
CONSTANTS
    g1 = g1
    g2 = g2
    p1 = p1
    p2 = p2
    Probe = {p1, p2}
    Level = {100, 300}
    Goroutine = {g1, g2}
    Of <- TwoProbes
    Updater = g1
    NoResult = NoResult
    OnTime = TRUE
INVARIANTS
    TypeOK
PROPERTIES
    GoneForGood
    StatusHeals
