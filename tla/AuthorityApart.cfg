SPECIFICATION ApartSpec
CONSTANTS
    Client = {c1, c2}
    Token = {t1, t2, t3}
    Handler = {h1, h2}
    Pushes <- OwnUuid
    MaxWaitingClients = 1
    AutoAcceptClients = FALSE
    NoClient = NoClient
    NoToken = NoToken
SYMMETRY AuthoritySymmetry
INVARIANTS
    FileIsAllowed
    RevokedIsGone
    RevokedStaysOut
    WaitingBound
PROPERTY
    ImplementsAdmission
