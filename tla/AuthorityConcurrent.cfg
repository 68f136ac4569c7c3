SPECIFICATION Spec
CONSTANTS
    Client = {c1, c2}
    Token = {t1, t2, t3}
    Handler = {h1, h2}
    Pushes <- AnyUuid
    MaxWaitingClients = 1
    AutoAcceptClients = TRUE
    NoClient = NoClient
    NoToken = NoToken
SYMMETRY AuthoritySymmetry
INVARIANTS
    TypeOK
    OnlyApproved
    TokensBounded
    NobodyLeftWaiting
