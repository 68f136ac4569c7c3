SPECIFICATION FairSpec
CONSTANTS
    h1 = h1
    h2 = h2
    g1 = g1
    g2 = g2
    Host = {h1, h2}
    GroupOf <- OneEach
    Probe = {p1}
    Status = {100, 300}
    Client = {c1}
    Filter = {"host"}
    MaxRequests = 2
    MaxClicks = 1
    MaxOffset = 1
    None = None
CHECK_DEADLOCK FALSE
INVARIANTS
    TypeOK
    CountsMatchRows
    RowsBelong
    OneTimer
PROPERTIES
    PageHeals
