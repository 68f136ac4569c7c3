SPECIFICATION FairSpec
CONSTANTS
    Me = me
    Token = {t1, t2, t3, t4}
    Handler = {h1, h2, a1}
    Admin = {a1}
    NoHandler = NoHandler
    NoClient = NoClient
    NoToken = NoToken
    MaxWaitingClients = 1
    AutoAcceptClients = FALSE
    SslEnabled = TRUE
    MaxFaults = 2
INVARIANTS
    TypeOK
    SignedWasApproved
PROPERTIES
    AllowedPushes
    AsksAgain
