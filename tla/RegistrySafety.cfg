SPECIFICATION Spec
CONSTANTS
    Remote = {r1, r2}
    Pushers = {r1, r2}
    Probe = {p1}
    Status = {1, 2, 3}
    AliveTimeout = 0
    MinLevelToSend = 2
    OnProbeChange = TRUE
    UpdateGap = 0
    NoWigo = NoWigo
    NoProbe = NoProbe
    NoUpdate = NoUpdate
SYMMETRY RemoteSymmetry
INVARIANTS
    TypeOK
    ToldProbeStatus
    AliveNever999
PROPERTIES
    UpAfterDown
