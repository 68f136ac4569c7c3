---------------------------- MODULE PushSystemProofs ----------------------------
(***************************************************************************)
(* A push client and its server together: types, the signature, and that   *)
(* either of them takes only steps of its own module, for any number of    *)
(* handlers and tokens and any bound on the faults.                        *)
(***************************************************************************)
EXTENDS PushSystem, FiniteSetTheorems, TLAPS

\* A token is only held while it is used.
TokenInv == step # "Update" => token = NoToken

\* The signature is of a client that was approved; it is about to be written
\* when the file has been opened for it.
SignatureInv ==
    /\ SignedWasApproved
    /\ step = "WriteSignature" => sigFile # "none"

SystemInv == TypeOK /\ TokenInv /\ Server!ApprovedInv /\ SignatureInv

-----------------------------------------------------------------------------
(* The server's steps.                                                     *)

LEMMA ServerAssumption == Server!AuthorityAssumption
<1>1. \A S : IsFiniteSet(S) => Server!IsFiniteSet(S)
  BY DEF IsFiniteSet, Server!IsFiniteSet
<1>2. IsFiniteSet({Me})
  BY FS_Singleton
<1>3. OwnWigo \in [{Me} -> SUBSET {Me}]
  BY DEF OwnWigo
<1> QED BY <1>1, <1>2, <1>3, SystemAssumption DEF Server!AuthorityAssumption

\* An Update with a token that the server has forgotten.  Authority has no such
\* request: it is refused like one without a token.
OutdatedUpdate == \E h \in Handler : Server!Call(h, "Auth", Me, token)

ServerStep == [Server!Next \/ OutdatedUpdate]_(Server!vars)

LEMMA SendIsServerStep ==
    ASSUME TokenInv, NEW h \in Handler, Send(h)
    PROVE  ServerStep
<1>1. \/ step = "Register" /\ Server!Call(h, "Register", Me, token)
      \/ step = "Hello" /\ Server!Call(h, "Hello", Me, token)
      \/ step = "Update" /\ Server!Call(h, "Auth", Me, token)
  BY DEF Send, Handled
<1>2. CASE step # "Update"
  <2>1. Server!Request(h, Me)
    BY <1>1, <1>2 DEF TokenInv, Server!Request
  <2> QED BY <2>1 DEF ServerStep, Server!Next
<1>3. CASE step = "Update"
  BY <1>1, <1>3 DEF ServerStep, OutdatedUpdate
<1> QED BY <1>2, <1>3

LEMMA NextIsServerStep == TokenInv /\ [Next]_vars => ServerStep
<1> SUFFICES ASSUME TokenInv, [Next]_vars PROVE ServerStep
  OBVIOUS
<1>1. ASSUME UNCHANGED serverVars PROVE ServerStep
  BY <1>1 DEF serverVars, ServerStep, Server!vars
<1>2. CASE ClientStep
  BY <1>1, <1>2, SendIsServerStep
  DEF ClientStep, Connect, Local, Lost, GetServerCertificate, GetUuidSignature, HelloCut
<1>3. ASSUME NEW h \in Handler, Serve(h) \/ Return(h) PROVE ServerStep
  BY <1>3 DEF Serve, Return, ServerStep, Server!Next
<1>4. ASSUME NEW h \in Admin, Administrate(h) PROVE ServerStep
  <2>1. h \in Handler
    BY SystemAssumption
  <2>2. Server!Request(h, Me)
    BY <1>4 DEF Administrate, Server!Request
  <2> QED BY <2>1, <2>2 DEF ServerStep, Server!Next
<1>5. CASE ServerCrash \/ ServerRestart
  BY <1>5 DEF ServerCrash, ServerRestart, ServerStep, Server!Next
<1>6. CASE Timeout \/ ClientCrash \/ UNCHANGED vars
  BY <1>1, <1>6 DEF Timeout, ClientCrash, vars
<1> QED BY <1>2, <1>3, <1>4, <1>5, <1>6 DEF Next

\* What Authority keeps it keeps here, with outdated tokens as well.
LEMMA NextServer ==
    ASSUME Server!ApprovedInv, token \in Token \cup {NoToken}, ServerStep
    PROVE  /\ Server!ApprovedInv'
           /\ verdict[Me] # "never" => verdict'[Me] # "never"
<1> USE DEF Server!ApprovedInv
<1>1. CASE [Server!Next]_(Server!vars)
  BY <1>1, ServerAssumption, Server!NextApproved, Server!VerdictKept
<1>2. ASSUME NEW h \in Handler, Server!Call(h, "Auth", Me, token)
      PROVE  /\ Server!ApprovedInv'
             /\ verdict[Me] # "never" => verdict'[Me] # "never"
  <2>1. "Auth" \in Server!Steps \ Server!Trusted
    BY DEF Server!Steps, Server!Trusted
  <2>2. /\ task' = [task EXCEPT ![h] = Server!Serving("Auth", Me, token)]
        /\ UNCHANGED <<up, waiting, allowed, tokens, remote, file, verdict>>
    BY <1>2 DEF Server!Call
  <2>3. /\ task' \in [Handler -> Server!Task]
        /\ \A k \in Handler : task'[k].pc # "Idle" => task'[k].who \in {Me}
        /\ task'[h].pc = "Auth"
        /\ \A k \in Handler \ {h} : task'[k] = task[k]
    BY <2>1, <2>2, ServerAssumption, Server!CallType
  <2>4. Server!TypeOK'
    BY <2>2, <2>3 DEF Server!TypeOK
  <2>5. Server!TrustedApproved'
    BY <2>1, <2>2, <2>3 DEF Server!TrustedApproved
  <2>6. Server!OnlyApproved'
    BY <2>2 DEF Server!OnlyApproved, Server!TokensOf, Server!Listed
  <2> QED BY <2>2, <2>4, <2>5, <2>6
<1> QED BY <1>1, <1>2 DEF ServerStep, OutdatedUpdate

-----------------------------------------------------------------------------
(* The client's steps.                                                     *)

\* Whatever the system does is a step of the client, or nothing to it.
LEMMA NextIsClientStep ==
    ASSUME [Next]_vars
    PROVE  [Client!Next]_clientVars
<1>1. CASE ClientStep
  <2>1. CASE GetUuidSignature
    BY <2>1 DEF GetUuidSignature, Refused, Client!Next
  <2>2. CASE HelloCut
    BY <2>2 DEF HelloCut, Refused, Client!Next
  <2> QED
    BY <1>1, <2>1, <2>2
    DEF ClientStep, Connect, Local, Lost, GetServerCertificate, Send, Client!Next
<1>2. ASSUME NEW h \in Handler, Serve(h) PROVE [Client!Next]_clientVars
  BY <1>2 DEF Serve
<1>3. ASSUME NEW h \in Handler, Return(h) PROVE Client!Next
  BY <1>3 DEF Return, Answer, Client!Next
<1>4. ASSUME NEW h \in Admin, Administrate(h) PROVE UNCHANGED clientVars
  BY <1>4 DEF Administrate
<1>5. CASE Timeout \/ ClientCrash
  BY <1>5 DEF Timeout, ClientCrash, Client!Next
<1>6. CASE ServerCrash \/ ServerRestart \/ UNCHANGED vars
  BY <1>6 DEF ServerCrash, ServerRestart, vars
<1> QED BY <1>1, <1>2, <1>3, <1>4, <1>5, <1>6 DEF Next

LEMMA NextClientType ==
    ASSUME Client!TypeOK, TokenInv, [Client!Next]_clientVars
    PROVE  Client!TypeOK' /\ TokenInv'
BY DEF Client!TypeOK, TokenInv, clientVars, Client!Next, Client!Connect, Client!Fatal,
       Client!Certified, Client!WriteCertificate, Client!Registered, Client!Signed,
       Client!WriteSignature, Client!Greeted, Client!ToldToWait, Client!Updated,
       Client!Failed, Client!Crash, Client!Start, Client!Goto, Client!FirstCall,
       Client!AfterRegister, Client!AfterFailure, Client!clientVars, Client!Steps,
       Client!Calls, Client!Contents

\* The client writes no signature but one that the server has just given to a
\* client it allows.
LEMMA NextSignature ==
    ASSUME [Next]_vars
    PROVE  \/ Me \in allowed /\ sigFile' = "cut" /\ UNCHANGED serverVars
           \/ /\ sigFile' # "none" => sigFile # "none" \/ step = "WriteSignature"
              /\ step' = "WriteSignature" => step = "WriteSignature" /\ sigFile' = sigFile
<1> DEFINE Kept == /\ sigFile' # "none" => sigFile # "none" \/ step = "WriteSignature"
                   /\ step' = "WriteSignature" =>
                          step = "WriteSignature" /\ sigFile' = sigFile
<1>1. UNCHANGED clientVars => Kept
  BY DEF clientVars
<1>2. /\ Client!Connect \/ Client!Fatal \/ Client!Certified \/ Client!WriteCertificate => Kept
      /\ Client!Registered \/ Client!WriteSignature \/ Client!Failed => Kept
      /\ Client!Crash \/ Client!Start => Kept
      /\ \A t \in Token : Client!Greeted(t) => Kept
  BY DEF Client!Connect, Client!Fatal, Client!Certified, Client!WriteCertificate,
         Client!Registered, Client!WriteSignature, Client!Greeted, Client!Failed,
         Client!Crash, Client!Start, Client!Goto, Client!FirstCall, Client!AfterRegister,
         Client!AfterFailure
<1>3. Client!ToldToWait \/ Client!Updated => Kept
  BY DEF Client!ToldToWait, Client!Updated, Client!clientVars
<1>4. CASE GetUuidSignature
  BY <1>2, <1>3, <1>4 DEF GetUuidSignature, MaySign, Refused, Client!Signed
<1>5. CASE HelloCut
  BY <1>2, <1>3, <1>5 DEF HelloCut, Refused
<1>6. CASE Connect \/ Local \/ Lost \/ GetServerCertificate \/ Timeout \/ ClientCrash
  BY <1>2, <1>6 DEF Connect, Local, Lost, GetServerCertificate, Timeout, ClientCrash
<1>7. ASSUME NEW h \in Handler, Return(h) PROVE Kept
  BY <1>2, <1>3, <1>7 DEF Return, Answer
<1>8. ASSUME NEW h \in Handler, Send(h) \/ Serve(h) PROVE Kept
  BY <1>1, <1>8 DEF Send, Serve
<1>9. ASSUME NEW h \in Admin, Administrate(h) PROVE Kept
  BY <1>1, <1>9 DEF Administrate
<1>10. CASE ServerCrash \/ ServerRestart \/ UNCHANGED vars
  BY <1>1, <1>10 DEF ServerCrash, ServerRestart, vars
<1> QED
  BY <1>4, <1>5, <1>6, <1>7, <1>8, <1>9, <1>10 DEF Next, ClientStep

-----------------------------------------------------------------------------
(* The invariant.                                                          *)

\* The client waits for a call only where it makes one, over a connection.
CallInv ==
    /\ connected \in BOOLEAN
    /\ call \in Handler \cup {NoHandler}
    /\ faults \in 0 .. MaxFaults
    /\ call # NoHandler => connected /\ step \in {"Register", "Hello", "Update"}

LEMMA NextCall ==
    ASSUME CallInv, [Next]_vars
    PROVE  CallInv'
<1> USE DEF CallInv
<1>1. CASE Connect \/ Local \/ Lost
  BY <1>1
  DEF Connect, Local, Lost, Client!Connect, Client!Fatal, Client!WriteCertificate,
      Client!WriteSignature, Client!Start
<1>2. CASE GetServerCertificate \/ GetUuidSignature \/ HelloCut
  BY <1>2 DEF GetServerCertificate, GetUuidSignature, HelloCut, CanAsk
<1>3. ASSUME NEW h \in Handler, Send(h) PROVE CallInv'
  BY <1>3 DEF Send, CanAsk, Handled, clientVars
<1>4. ASSUME NEW h \in Handler, Serve(h) PROVE CallInv'
  BY <1>4 DEF Serve, clientVars
<1>5. ASSUME NEW h \in Handler, Return(h) PROVE CallInv'
  BY <1>5 DEF Return
<1>6. ASSUME NEW h \in Admin, Administrate(h) PROVE CallInv'
  BY <1>6 DEF Administrate, clientVars
<1>7. CASE Timeout \/ ServerCrash \/ ClientCrash
  <2>1. /\ faults < MaxFaults /\ faults' = faults + 1
        /\ call' = NoHandler /\ connected' = FALSE
    BY <1>7 DEF Timeout, ServerCrash, ClientCrash, CallOver
  <2>2. faults' \in 0 .. MaxFaults
    BY <2>1, SystemAssumption
  <2> QED BY <2>1, <2>2
<1>8. CASE ServerRestart \/ UNCHANGED vars
  BY <1>8 DEF ServerRestart, vars, clientVars
<1> QED
  BY <1>1, <1>2, <1>3, <1>4, <1>5, <1>6, <1>7, <1>8 DEF Next, ClientStep

LEMMA InitSystem == Init => SystemInv
<1> SUFFICES ASSUME Init PROVE SystemInv
  OBVIOUS
<1>1. Server!ApprovedInv
  BY ServerAssumption, Server!InitApproved DEF Init
<1>2. TypeOK
  <2>1. Client!TypeOK
    BY DEF Init, Client!Init, Client!TypeOK, Client!Steps, Client!Contents
  <2>2. 0 \in 0 .. MaxFaults
    BY SystemAssumption
  <2> QED BY <1>1, <2>1, <2>2 DEF Init, TypeOK, Server!ApprovedInv
<1>3. TokenInv /\ SignatureInv
  BY DEF Init, Client!Init, TokenInv, SignatureInv, SignedWasApproved
<1> QED BY <1>1, <1>2, <1>3 DEF SystemInv

LEMMA NextSystem == SystemInv /\ [Next]_vars => SystemInv'
<1> SUFFICES ASSUME SystemInv, [Next]_vars PROVE SystemInv'
  OBVIOUS
<1>1. Client!TypeOK' /\ TokenInv'
  BY NextIsClientStep, NextClientType DEF SystemInv, TypeOK
<1>2. /\ Server!ApprovedInv'
      /\ verdict[Me] # "never" => verdict'[Me] # "never"
  BY NextIsServerStep, NextServer DEF SystemInv, TypeOK, Client!TypeOK
<1>3. TypeOK'
  BY <1>1, <1>2, NextCall DEF SystemInv, TypeOK, CallInv, Server!ApprovedInv
<1>4. Me \in allowed => verdict[Me] # "never"
  BY DEF SystemInv, Server!ApprovedInv, Server!OnlyApproved
<1>5. SignatureInv'
  BY <1>2, <1>4, NextSignature DEF SystemInv, SignatureInv, SignedWasApproved, serverVars
<1> QED BY <1>1, <1>2, <1>3, <1>5 DEF SystemInv

LEMMA SystemCorrect == Spec => []SystemInv
BY InitSystem, NextSystem, PTL DEF Spec

-----------------------------------------------------------------------------
\* Types, in every state of client and server together.
THEOREM SystemTypeCorrect == Spec => []TypeOK
<1>1. SystemInv => TypeOK
  BY DEF SystemInv
<1> QED BY <1>1, SystemCorrect, PTL

\* A client has a signature of its uuid only after it was approved, over any
\* number of calls that cross each other, timeouts, crashes and revocations.
THEOREM SignatureApproved == Spec => []SignedWasApproved
<1>1. SystemInv => SignedWasApproved
  BY DEF SystemInv, SignatureInv
<1> QED BY <1>1, SystemCorrect, PTL

\* The server has a token, data or a line in its file of the client only after it
\* was approved, whatever the client does and however its calls cross.
THEOREM ServerApproved == Spec => []Server!OnlyApproved
<1>1. SystemInv => Server!OnlyApproved
  BY DEF SystemInv, Server!ApprovedInv
<1> QED BY <1>1, SystemCorrect, PTL

\* The composition restricts when the client takes its steps, and adds none: it
\* implements PushClient.
THEOREM ImplementsClient == Spec => Client!Spec
<1>1. Init => Client!Init
  BY DEF Init
<1>2. [Next]_vars => [Client!Next]_(Client!clientVars)
  BY NextIsClientStep DEF clientVars, Client!clientVars
<1> QED BY <1>1, <1>2, PTL DEF Spec, Client!Spec

\* And for the server it is the behaviour of Authority, with one client, who may
\* also update with a token that the server has forgotten.
THEOREM ImplementsServer ==
    Spec => Server!Init /\ [][Server!Next \/ OutdatedUpdate]_(Server!vars)
<1>1. Init => Server!Init
  BY DEF Init
<1>2. SystemInv /\ [Next]_vars => [Server!Next \/ OutdatedUpdate]_(Server!vars)
  BY NextIsServerStep DEF SystemInv, ServerStep
<1> QED BY <1>1, <1>2, SystemCorrect, PTL DEF Spec
=============================================================================
