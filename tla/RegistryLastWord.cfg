SPECIFICATION Spec
CONSTANTS
    Remote = {r1}
    Pushers = {}
    Status = {1}
    AliveTimeout = 1
    UpdateGap = 0
    Probe = {p1}
    MinLevelToSend = 2
    OnProbeChange = TRUE
    NoWigo = NoWigo
    NoProbe = NoProbe
    NoUpdate = NoUpdate
INVARIANTS
    LastWordIsTrue
