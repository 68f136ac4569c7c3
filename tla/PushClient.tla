------------------------------ MODULE PushClient ------------------------------
(***************************************************************************)
(* threadPush and its PushClient: connect, download the server's           *)
(* certificate, register, have the uuid signed, say hello for a token, then *)
(* send the local wigo again and again.  Whatever fails closes the         *)
(* connection and starts over.  The certificate and the signature are kept *)
(* in files, which are truncated and then written: a process that stops in *)
(* between leaves a file that is cut.                                      *)
(*                                                                         *)
(* The server's answers are the actions' names; when they come is said     *)
(* where the client is composed with the server.                           *)
(***************************************************************************)
CONSTANTS
    Token, NoToken,
    SslEnabled      \* PushClient.SslEnabled

VARIABLES
    step,      \* where threadPush is
    certFile,  \* PushClient.SslCert
    sigFile,   \* PushClient.UuidSig
    token      \* the token of the current PushClient

clientVars == <<step, certFile, sigFile, token>>

\* The steps that wait for an answer of the server.
Calls == {"GetServerCertificate", "Register", "SignUuid", "Hello", "Update"}
Steps == Calls \cup {"Stopped", "Connect", "WriteCertificate", "WriteSignature"}
Contents == {"none", "cut", "whole"}

TypeOK ==
    /\ step \in Steps
    /\ certFile \in Contents
    /\ sigFile \in Contents
    /\ token \in Token \cup {NoToken}

Init ==
    /\ step = "Stopped"
    /\ certFile = "none"
    /\ sigFile = "none"
    /\ token = NoToken

Goto(next) == step' = next

-----------------------------------------------------------------------------
(* NewPushClient.                                                          *)

\* Without the certificate there is nothing to verify the server with: it is
\* downloaded first.
FirstCall == IF SslEnabled /\ certFile = "none" THEN "GetServerCertificate" ELSE "Register"

Connect ==
    /\ step = "Connect"
    /\ SslEnabled => certFile # "cut"
    /\ Goto(FirstCall)
    /\ UNCHANGED <<certFile, sigFile, token>>

\* A certificate that cannot be decoded ends the process.
Fatal ==
    /\ step = "Connect"
    /\ SslEnabled /\ certFile = "cut"
    /\ Goto("Stopped")
    /\ UNCHANGED <<certFile, sigFile, token>>

Certified ==
    /\ step = "GetServerCertificate"
    /\ certFile' = "cut"
    /\ Goto("WriteCertificate")
    /\ UNCHANGED <<sigFile, token>>

WriteCertificate ==
    /\ step = "WriteCertificate"
    /\ certFile' = "whole"
    /\ Goto("Connect")
    /\ UNCHANGED <<sigFile, token>>

\* A signature that was saved is used as it is.
AfterRegisterHello == "Hello"
AfterRegister == IF sigFile = "none" THEN "SignUuid" ELSE "Hello"

Registered ==
    /\ step = "Register"
    /\ Goto(AfterRegister)
    /\ UNCHANGED <<certFile, sigFile, token>>

Signed ==
    /\ step = "SignUuid"
    /\ sigFile' = "cut"
    /\ Goto("WriteSignature")
    /\ UNCHANGED <<certFile, token>>

WriteSignature ==
    /\ step = "WriteSignature"
    /\ sigFile' = "whole"
    /\ Goto("Connect")
    /\ UNCHANGED <<certFile, token>>

-----------------------------------------------------------------------------
(* Hello and Update.                                                       *)

Greeted(t) ==
    /\ step = "Hello"
    /\ token' = t
    /\ Goto("Update")
    /\ UNCHANGED <<certFile, sigFile>>

\* "WAITING": the same call again after PushInterval, over the same connection.
ToldToWait ==
    /\ step \in {"SignUuid", "Hello"}
    /\ UNCHANGED clientVars

Updated ==
    /\ step = "Update"
    /\ UNCHANGED clientVars

AfterFailureStays == step
AfterFailure == "Connect"

\* Any other error, a timeout included: Close, and a new PushClient.
Failed ==
    /\ step \in Calls
    /\ Goto(AfterFailure)
    /\ token' = NoToken
    /\ UNCHANGED <<certFile, sigFile>>

-----------------------------------------------------------------------------
Crash ==
    /\ step # "Stopped"
    /\ Goto("Stopped")
    /\ token' = NoToken
    /\ UNCHANGED <<certFile, sigFile>>

Start ==
    /\ step = "Stopped"
    /\ Goto("Connect")
    /\ UNCHANGED <<certFile, sigFile, token>>

Next ==
    \/ Connect \/ Fatal
    \/ Certified \/ WriteCertificate
    \/ Registered
    \/ Signed \/ WriteSignature
    \/ \E t \in Token : Greeted(t)
    \/ ToldToWait
    \/ Updated
    \/ Failed
    \/ Crash \/ Start

Spec == Init /\ [][Next]_clientVars
=============================================================================
