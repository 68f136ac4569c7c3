SPECIFICATION FairSpec
CONSTANTS
    d1 = d1
    d2 = d2
    p1 = p1
    p2 = p2
    Dir = {d1, d2}
    Weird = {d2}
    Probe = {p1, p2}
    Leaves <- DeletedOrRenamed
    Starts = {{}, {d1}}
    Holds <- OneOrTwo
    MaxLoops = 2
    MaxChanges <- FewerForTwo
    NoLoop = NoLoop
CHECK_DEADLOCK FALSE
INVARIANTS
    TypeOK
    InStep
PROPERTIES
    KeepsRunning
    ForgottenInTheEnd
