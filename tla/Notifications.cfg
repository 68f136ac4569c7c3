SPECIFICATION NFairSpec
CONSTANTS
    Remote = {r1}
    Local = Local
    LocalSender = {l1}
    Pushers = {r1}
    Status = {1, 2}
    AliveTimeout = 4
    UpdateGap = 3
    Probe = {p1}
    MinLevelToSend = 2
    OnProbeChange = TRUE
    HttpEnabled = TRUE
    EmailEnabled = 2
    MaxCallbacks = 2
    NoWigo = NoWigo
    NoProbe = NoProbe
    NoUpdate = NoUpdate
VIEW WithoutHistory
INVARIANTS
    NTypeOK
PROPERTIES
    SilentReported
    Recovered
    SendersReturn
    SilenceIsHeard
