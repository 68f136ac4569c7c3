SPECIFICATION Spec
CONSTANTS
    Client = {c1}
    Token = {t1, t2}
    Handler = {h1, h2}
    Pushes <- OwnUuid
    MaxWaitingClients = 1
    AutoAcceptClients = FALSE
    NoClient = NoClient
    NoToken = NoToken
INVARIANTS
    RevokedIsGone
