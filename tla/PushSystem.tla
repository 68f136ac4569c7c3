------------------------------ MODULE PushSystem ------------------------------
(***************************************************************************)
(* A push client and the push server it talks to: PushClient and Authority *)
(* over rpc calls.  A call is a handler of the server; the client waits    *)
(* for its end, or gives up after five seconds and calls again while the   *)
(* handler still runs.  Either process may stop and start again, which     *)
(* breaks the connection, and an administrator allows and revokes.         *)
(***************************************************************************)
EXTENDS Integers, FiniteSets

CONSTANTS
    Me,                 \* the uuid of the client
    Token, NoToken,
    Handler,            \* goroutines of the push server ...
    Admin,              \* ... and those of its http server
    NoHandler,
    NoClient,
    MaxWaitingClients, AutoAcceptClients, SslEnabled,
    MaxFaults           \* bound on the timeouts and crashes

ASSUME SystemAssumption ==
    /\ IsFiniteSet(Token)
    /\ IsFiniteSet(Handler) /\ Handler # {}
    /\ Admin \subseteq Handler
    /\ MaxWaitingClients \in Nat
    /\ AutoAcceptClients \in BOOLEAN
    /\ NoClient # Me
    /\ NoHandler \notin Handler
    /\ NoToken \notin Token
    /\ SslEnabled \in BOOLEAN
    /\ MaxFaults \in Nat

VARIABLES
    up, waiting, allowed, tokens, remote, file, task, verdict,
    step, certFile, sigFile, token,
    connected,  \* the client's connection leads to the running server
    call,       \* the handler the client waits for
    faults      \* timeouts and crashes so far

serverVars == <<up, waiting, allowed, tokens, remote, file, task, verdict>>
clientVars == <<step, certFile, sigFile, token>>
vars == <<serverVars, clientVars, connected, call, faults>>

\* The server with what is proved of it.  The client pushes its own wigo, which
\* the server decodes and stores.
OwnWigo == [c \in {Me} |-> {Me}]
Server == INSTANCE AuthorityProofs WITH Client <- {Me}, Pushes <- OwnWigo
Client == INSTANCE PushClient

TypeOK ==
    /\ Server!TypeOK
    /\ Client!TypeOK
    /\ connected \in BOOLEAN
    /\ call \in Handler \cup {NoHandler}
    /\ faults \in 0 .. MaxFaults
    /\ call # NoHandler => connected /\ step \in {"Register", "Hello", "Update"}

Init ==
    /\ Server!Init
    /\ Client!Init
    /\ connected = FALSE
    /\ call = NoHandler
    /\ faults = 0

-----------------------------------------------------------------------------
(* Steps of the client alone.  It needs a server that runs to connect.     *)

Connect ==
    /\ up
    /\ Client!Connect
    /\ connected' = TRUE
    /\ UNCHANGED <<serverVars, call, faults>>

Local ==
    /\ Client!Fatal \/ Client!WriteCertificate \/ Client!WriteSignature \/ Client!Start
    /\ connected' = FALSE
    /\ UNCHANGED <<serverVars, call, faults>>

\* A call over a connection that is gone.
Lost ==
    /\ ~connected
    /\ Client!Failed
    /\ UNCHANGED <<serverVars, connected, call, faults>>

-----------------------------------------------------------------------------
(* Calls that change nothing at the server.                                *)

CanAsk == connected /\ call = NoHandler

GetServerCertificate ==
    /\ CanAsk
    /\ Client!Certified
    /\ UNCHANGED <<serverVars, connected, call, faults>>

MaySignAnybody == TRUE
MaySign == Me \in allowed

Refused == IF Me \in waiting THEN Client!ToldToWait ELSE Client!Failed

GetUuidSignature ==
    /\ CanAsk
    /\ step = "SignUuid"
    /\ IF MaySign THEN Client!Signed ELSE Refused
    /\ UNCHANGED <<serverVars, connected, call, faults>>

\* A signature that was cut is not the server's.
HelloCut ==
    /\ CanAsk
    /\ step = "Hello" /\ sigFile # "whole"
    /\ IF Me \in allowed THEN Client!Failed ELSE Refused
    /\ UNCHANGED <<serverVars, connected, call, faults>>

-----------------------------------------------------------------------------
(* Calls that are served step by step.                                     *)

Handled == [Register |-> "Register", Hello |-> "Hello", Update |-> "Auth"]

Send(h) ==
    /\ CanAsk
    /\ step \in DOMAIN Handled
    /\ step = "Hello" => sigFile = "whole"
    /\ Server!Call(h, Handled[step], Me, token)
    /\ call' = h
    /\ UNCHANGED <<clientVars, connected, faults>>

\* uuid.NewV4 does not return the token the client still has, valid or not.
NoTokenTwice == token \in Token /\ tokens[token] = NoClient => tokens'[token] = NoClient

\* The server goes on, and does not answer the client yet.
Serve(h) ==
    /\ Server!Serve(h)
    /\ NoTokenTwice
    /\ call = h => task'[h].pc # "Idle"
    /\ UNCHANGED <<clientVars, connected, call, faults>>

\* What a handler answers at its last step.
Answer(h) ==
    \/ task[h].pc \in {"Register", "AddWaiting", "PutWaiting", "Allow", "AllowEnd", "AllowWrite"}
         /\ Client!Registered
    \/ task[h].pc = "Hello" /\ Me \in waiting /\ Client!ToldToWait
    \/ task[h].pc \in {"Hello", "Auth"} /\ ~(step = "Hello" /\ Me \in waiting) /\ Client!Failed
    \/ task[h].pc = "PutToken" /\ \E t \in Token : tokens[t] # tokens'[t] /\ Client!Greeted(t)
    \/ task[h].pc = "Store" /\ Client!Updated

Return(h) ==
    /\ call = h
    /\ Server!Serve(h)
    /\ NoTokenTwice
    /\ task'[h].pc = "Idle"
    /\ Answer(h)
    /\ call' = NoHandler
    /\ UNCHANGED <<connected, faults>>

CallKept == call
CallOver == NoHandler

\* CallWithTimeout gives up; the handler, if there is one, does not know.
Timeout ==
    /\ faults < MaxFaults
    /\ faults' = faults + 1
    /\ connected
    /\ Client!Failed
    /\ call' = CallOver
    /\ connected' = FALSE
    /\ UNCHANGED serverVars

-----------------------------------------------------------------------------
Administrate(h) ==
    /\ Server!Call(h, "Allow", Me, NoToken) \/ Server!CallRevoke(h, Me)
    /\ UNCHANGED <<clientVars, connected, call, faults>>

ServerCrash ==
    /\ faults < MaxFaults
    /\ faults' = faults + 1
    /\ Server!Crash
    /\ connected' = FALSE
    /\ call' = CallOver
    /\ UNCHANGED clientVars

ServerRestart ==
    /\ Server!Restart
    /\ UNCHANGED <<clientVars, connected, call, faults>>

ClientCrash ==
    /\ faults < MaxFaults
    /\ faults' = faults + 1
    /\ Client!Crash
    /\ connected' = FALSE
    /\ call' = CallOver
    /\ UNCHANGED serverVars

ClientStep ==
    \/ Connect \/ Local \/ Lost
    \/ GetServerCertificate \/ GetUuidSignature \/ HelloCut
    \/ \E h \in Handler \ Admin : Send(h)

Next ==
    \/ ClientStep
    \/ \E h \in Handler : Serve(h) \/ Return(h)
    \/ \E h \in Admin : Administrate(h)
    \/ Timeout
    \/ ServerCrash \/ ServerRestart \/ ClientCrash

Spec == Init /\ [][Next]_vars

\* threadPush loops for ever, handlers run to their end, a process that stopped
\* is started again.  Nothing makes an administrator decide.
FairSpec ==
    /\ Spec
    /\ WF_vars(ClientStep)
    /\ WF_vars(ServerRestart)
    /\ \A h \in Handler : WF_vars(Serve(h) \/ Return(h))

-----------------------------------------------------------------------------
\* A client only ever gets a signature of its uuid after it was approved: not
\* while it waits, and not by calls that cross a revocation.
SignedWasApproved == sigFile # "none" => verdict[Me] # "never"

Intact == certFile # "cut" /\ sigFile # "cut"

\* A client that stays allowed ends up pushing, again and again, whatever
\* timeouts, crashes, revocations and late handlers of its own calls there were
\* before, if no crash has cut one of its files.
AllowedPushes ==
    <>[](Me \in allowed /\ Intact) => <>[](Me \in remote) /\ []<><<Client!Updated /\ call # call'>>_vars

\* A client that is not allowed and has no token left keeps coming back to the
\* waiting list, where an administrator sees it: after a revocation, and after
\* the server forgot it.  One whose Hello crossed the revocation may keep a token
\* and push with it for ever instead.
AsksAgain ==
    <>[](Me \notin allowed /\ Server!TokensOf(Me) = {} /\ certFile # "cut")
        => []<>(Me \in waiting)
=============================================================================
