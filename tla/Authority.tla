------------------------------- MODULE Authority -------------------------------
(***************************************************************************)
(* The push server and its Authority: who may push, kept in the plain maps *)
(* Waiting, Allowed and Tokens, in the allowed clients file, and in the    *)
(* registry of remote wigos.                                               *)
(*                                                                         *)
(* net/rpc runs every request in a goroutine of its own and so does the    *)
(* http server for the administrator's Allow and Revoke; nothing locks the *)
(* maps.  A handler is a goroutine: a record of its program counter and    *)
(* locals, with one step per access to what the others share.  The process *)
(* may stop between any two steps, on SIGTERM or because the go runtime    *)
(* found two goroutines in one map; it restarts with what the file holds.  *)
(***************************************************************************)
EXTENDS Integers, FiniteSets

CONSTANTS
    Client,             \* uuids of push clients
    Token,              \* tokens; one that nobody holds any more stands for a fresh one
    Handler,            \* goroutines serving requests at the same time
    Pushes,             \* the uuids in the wigos that a client sends: its own, or any
    MaxWaitingClients,  \* PushServer.MaxWaitingClients
    AutoAcceptClients,  \* PushServer.AutoAcceptClients
    NoClient, NoToken

ASSUME AuthorityAssumption ==
    /\ IsFiniteSet(Client)
    /\ IsFiniteSet(Token)
    /\ IsFiniteSet(Handler) /\ Handler # {}
    /\ Pushes \in [Client -> SUBSET Client]
    /\ MaxWaitingClients \in Nat
    /\ AutoAcceptClients \in BOOLEAN
    /\ NoClient \notin Client
    /\ NoToken \notin Token

VARIABLES
    up,       \* the server process runs
    waiting,  \* Authority.Waiting
    allowed,  \* Authority.Allowed
    tokens,   \* Authority.Tokens: the client of each token
    remote,   \* the push clients that have an entry in LocalWigo.RemoteWigos
    file,     \* AllowedClientsFile: the client on each of its lines
    task,     \* what each handler is doing
    verdict   \* what the administrator has decided of each client

vars == <<up, waiting, allowed, tokens, remote, file, task, verdict>>

Line == 1 .. Cardinality(Client)
EmptyFile == [n \in Line |-> NoClient]
NoTokens == [t \in Token |-> NoClient]

\* "verdict" is "granted" from the end of an AllowClient to the start of the
\* next RevokeClient, "revoked" from the end of that to the next AllowClient.
Verdict == {"never", "approved", "granted", "revoked"}

Steps == {"Idle", "Register", "AddWaiting", "PutWaiting",
          "Allow", "PutAllowed", "AllowOpen", "AllowWrite",
          "Revoke", "DropAllowed", "RevokeOpen", "RevokeWrite", "RevokeTokens", "RevokeData",
          "Hello", "DropTokens", "PutToken", "Auth", "Store", "Goodbye", "RevokeToken"}

\* In SaveAllowedList, "todo" are the clients the loop over Allowed has to
\* visit and "wrote" those it has written.
Task == [pc : Steps, who : Client \cup {NoClient}, token : Token \cup {NoToken},
         todo : SUBSET Client, wrote : SUBSET Client]
Idle == [pc |-> "Idle", who |-> NoClient, token |-> NoToken, todo |-> {}, wrote |-> {}]

TypeOK ==
    /\ up \in BOOLEAN
    /\ waiting \subseteq Client
    /\ allowed \subseteq Client
    /\ tokens \in [Token -> Client \cup {NoClient}]
    /\ remote \subseteq Client
    /\ file \in [Line -> Client \cup {NoClient}]
    /\ task \in [Handler -> Task]
    /\ verdict \in [Client -> Verdict]
    /\ \A h \in Handler : task[h].pc # "Idle" => task[h].who \in Client

-----------------------------------------------------------------------------
At(h, step) == up /\ task[h].pc = step

Goto(h, step) == task' = [task EXCEPT ![h].pc = step]

Return(h) == task' = [task EXCEPT ![h] = Idle]

Listed == {file[n] : n \in Line} \ {NoClient}

TokensOf(c) == {t \in Token : tokens[t] = c}

WithoutTokensOf(c) == [t \in Token |-> IF tokens[t] = c THEN NoClient ELSE tokens[t]]

\* uuid.NewV4 never returns a token that is in use.
FreshToken(t) == tokens[t] = NoClient /\ \A h \in Handler : task[h].token # t

Decide(c, decision) == verdict' = [verdict EXCEPT ![c] = decision]

Init ==
    /\ up = TRUE
    /\ waiting = {}
    /\ allowed = {}
    /\ tokens = NoTokens
    /\ remote = {}
    /\ file = EmptyFile
    /\ task = [h \in Handler |-> Idle]
    /\ verdict = [c \in Client |-> "never"]

-----------------------------------------------------------------------------
(* Requests.  A client that timed out calls again while its first call is  *)
(* still served.                                                           *)

ServingNobody(step, c, t) == [Idle EXCEPT !.pc = step, !.token = t]
Serving(step, c, t) == [Idle EXCEPT !.pc = step, !.who = c, !.token = t]

Call(h, step, c, t) ==
    /\ At(h, "Idle")
    /\ task' = [task EXCEPT ![h] = Serving(step, c, t)]
    /\ UNCHANGED <<up, waiting, allowed, tokens, remote, file, verdict>>

\* A revocation puts in doubt what was granted until it has returned.
CallRevoke(h, c) ==
    /\ At(h, "Idle")
    /\ task' = [task EXCEPT ![h] = Serving("Revoke", c, NoToken)]
    /\ Decide(c, IF verdict[c] = "granted" THEN "approved" ELSE verdict[c])
    /\ UNCHANGED <<up, waiting, allowed, tokens, remote, file>>

\* An outdated token is refused like none at all: it needs no call.
Request(h, c) ==
    \/ Call(h, "Register", c, NoToken)
    \/ Call(h, "Allow", c, NoToken)
    \/ Call(h, "Hello", c, NoToken)
    \/ \E t \in TokensOf(c) : Call(h, "Auth", c, t) \/ Call(h, "Goodbye", c, t)
    \/ CallRevoke(h, c)

-----------------------------------------------------------------------------
(* Register, and AddClientToWaitingList, which it calls.                   *)

Registered(h) ==
    IF AutoAcceptClients THEN Goto(h, "Allow") ELSE Return(h)

Register(h) ==
    /\ At(h, "Register")
    /\ IF task[h].who \in allowed THEN Return(h) ELSE Goto(h, "AddWaiting")
    /\ UNCHANGED <<up, waiting, allowed, tokens, remote, file, verdict>>

RoomLate == Cardinality(waiting) <= MaxWaitingClients
Room == Cardinality(waiting) < MaxWaitingClients

AddWaiting(h) ==
    /\ At(h, "AddWaiting")
    /\ IF task[h].who \notin waiting /\ Room THEN Goto(h, "PutWaiting") ELSE Registered(h)
    /\ UNCHANGED <<up, waiting, allowed, tokens, remote, file, verdict>>

PutWaiting(h) ==
    /\ At(h, "PutWaiting")
    /\ waiting' = waiting \cup {task[h].who}
    /\ Registered(h)
    /\ UNCHANGED <<up, allowed, tokens, remote, file, verdict>>

-----------------------------------------------------------------------------
(* AllowClient.                                                            *)

MayAllowOnce(c) == c \in waiting \ allowed
MayAllow(c) == c \in waiting

StillWaiting(c) == waiting
LeftWaiting(c) == waiting \ {c}

Allow(h) ==
    /\ At(h, "Allow")
    /\ MayAllow(task[h].who)
    /\ waiting' = LeftWaiting(task[h].who)
    /\ Decide(task[h].who, "approved")
    /\ Goto(h, "PutAllowed")
    /\ UNCHANGED <<up, allowed, tokens, remote, file>>

AllowNobody(h) ==
    /\ At(h, "Allow")
    /\ ~MayAllow(task[h].who)
    /\ Return(h)
    /\ UNCHANGED <<up, waiting, allowed, tokens, remote, file, verdict>>

PutAllowed(h) ==
    /\ At(h, "PutAllowed")
    /\ allowed' = allowed \cup {task[h].who}
    /\ Goto(h, "AllowOpen")
    /\ UNCHANGED <<up, waiting, tokens, remote, file, verdict>>

-----------------------------------------------------------------------------
(* SaveAllowedList: truncate, then one line per client, ranging over the   *)
(* map the other handlers change.                                          *)

AfterOpen == [AllowOpen |-> "AllowWrite", RevokeOpen |-> "RevokeWrite"]

SaveOpen(h, step) ==
    /\ At(h, step)
    /\ file' = EmptyFile
    /\ task' = [task EXCEPT ![h].pc = AfterOpen[step], ![h].todo = allowed, ![h].wrote = {}]
    /\ UNCHANGED <<up, waiting, allowed, tokens, remote, verdict>>

\* Each handler writes at its own offset in the file.
Offset(h) == Cardinality(task[h].wrote) + 1

SaveWrite(h, step, c) ==
    /\ At(h, step)
    /\ c \in allowed \ task[h].wrote
    /\ file' = [file EXCEPT ![Offset(h)] = c]
    /\ task' = [task EXCEPT ![h].wrote = @ \cup {c}]
    /\ UNCHANGED <<up, waiting, allowed, tokens, remote, verdict>>

\* The loop visits every client that was in the map when it began and still
\* is; one that came meanwhile may be missed.
Saved(h) == task[h].todo \cap allowed \subseteq task[h].wrote

AllowEnd(h) ==
    /\ At(h, "AllowWrite")
    /\ Saved(h)
    /\ Decide(task[h].who,
              IF verdict[task[h].who] = "approved" THEN "granted" ELSE verdict[task[h].who])
    /\ Return(h)
    /\ UNCHANGED <<up, waiting, allowed, tokens, remote, file>>

-----------------------------------------------------------------------------
(* RevokeClient.                                                           *)

Revoke(h) ==
    /\ At(h, "Revoke")
    /\ waiting' = LeftWaiting(task[h].who)
    /\ Goto(h, "DropAllowed")
    /\ UNCHANGED <<up, allowed, tokens, remote, file, verdict>>

NextSaveNever(c) == "RevokeTokens"
NextSave(c) == IF c \in allowed THEN "RevokeOpen" ELSE "RevokeTokens"

DropAllowed(h) ==
    /\ At(h, "DropAllowed")
    /\ Goto(h, NextSave(task[h].who))
    /\ allowed' = allowed \ {task[h].who}
    /\ UNCHANGED <<up, waiting, tokens, remote, file, verdict>>

RevokeSaved(h) ==
    /\ At(h, "RevokeWrite")
    /\ Saved(h)
    /\ Goto(h, "RevokeTokens")
    /\ UNCHANGED <<up, waiting, allowed, tokens, remote, file, verdict>>

RevokeTokens(h) ==
    /\ At(h, "RevokeTokens")
    /\ tokens' = WithoutTokensOf(task[h].who)
    /\ Goto(h, "RevokeData")
    /\ UNCHANGED <<up, waiting, allowed, remote, file, verdict>>

WithoutDataKept(c) == remote
WithoutData(c) == remote \ {c}

RevokeData(h) ==
    /\ At(h, "RevokeData")
    /\ remote' = WithoutData(task[h].who)
    /\ Decide(task[h].who,
              IF verdict[task[h].who] = "never" THEN "never" ELSE "revoked")
    /\ Return(h)
    /\ UNCHANGED <<up, waiting, allowed, tokens, file>>

-----------------------------------------------------------------------------
(* Hello and GetToken; Update and Goodbye, which auth checks.              *)

MayEnterAnybody(c) == TRUE
MayEnter(c) == c \in allowed

Hello(h) ==
    /\ At(h, "Hello")
    /\ IF MayEnter(task[h].who) THEN Goto(h, "DropTokens") ELSE Return(h)
    /\ UNCHANGED <<up, waiting, allowed, tokens, remote, file, verdict>>

KeptTokens(c) == tokens
LeftTokens(c) == WithoutTokensOf(c)

DropTokens(h) ==
    /\ At(h, "DropTokens")
    /\ tokens' = LeftTokens(task[h].who)
    /\ Goto(h, "PutToken")
    /\ UNCHANGED <<up, waiting, allowed, remote, file, verdict>>

PutToken(h, t) ==
    /\ At(h, "PutToken")
    /\ FreshToken(t)
    /\ tokens' = [tokens EXCEPT ![t] = task[h].who]
    /\ Return(h)
    /\ UNCHANGED <<up, waiting, allowed, remote, file, verdict>>

\* VerifyToken
Valid(h) == task[h].token \in TokensOf(task[h].who)

Auth(h) ==
    /\ At(h, "Auth")
    /\ IF Valid(h) THEN Goto(h, "Store") ELSE Return(h)
    /\ UNCHANGED <<up, waiting, allowed, tokens, remote, file, verdict>>

\* Update hands the wigo it was sent to AddOrUpdateRemoteWigo, which stores it
\* under the uuid that is in it: nothing compares that with the client's.
Store(h) ==
    /\ At(h, "Store")
    /\ \E c \in Pushes[task[h].who] : remote' = remote \cup {c}
    /\ Return(h)
    /\ UNCHANGED <<up, waiting, allowed, tokens, file, verdict>>

\* Or nothing is stored: it is of an old format, cannot be decoded, has the uuid
\* of the local wigo or of no client, or has a remote under a uuid not its own.
Discard(h) ==
    /\ At(h, "Store")
    /\ Return(h)
    /\ UNCHANGED <<up, waiting, allowed, tokens, remote, file, verdict>>

Goodbye(h) ==
    /\ At(h, "Goodbye")
    /\ IF Valid(h) THEN Goto(h, "RevokeToken") ELSE Return(h)
    /\ UNCHANGED <<up, waiting, allowed, tokens, remote, file, verdict>>

RevokeToken(h) ==
    /\ At(h, "RevokeToken")
    /\ tokens' = IF Valid(h) THEN [tokens EXCEPT ![task[h].token] = NoClient] ELSE tokens
    /\ Return(h)
    /\ UNCHANGED <<up, waiting, allowed, remote, file, verdict>>

-----------------------------------------------------------------------------
(* The process.                                                            *)

Crash ==
    /\ up
    /\ up' = FALSE
    /\ waiting' = {}
    /\ allowed' = {}
    /\ tokens' = NoTokens
    /\ remote' = {}
    /\ task' = [h \in Handler |-> Idle]
    /\ UNCHANGED <<file, verdict>>

\* LoadAllowedList
LoadedFirst == {file[1]} \ {NoClient}
Loaded == Listed

Restart ==
    /\ ~up
    /\ up' = TRUE
    /\ allowed' = Loaded
    /\ UNCHANGED <<waiting, tokens, remote, file, task, verdict>>

Serve(h) ==
    \/ Register(h) \/ AddWaiting(h) \/ PutWaiting(h)
    \/ Allow(h) \/ AllowNobody(h) \/ PutAllowed(h) \/ AllowEnd(h)
    \/ \E step \in {"AllowOpen", "RevokeOpen"} : SaveOpen(h, step)
    \/ \E step \in {"AllowWrite", "RevokeWrite"}, c \in Client : SaveWrite(h, step, c)
    \/ Revoke(h) \/ DropAllowed(h) \/ RevokeSaved(h) \/ RevokeTokens(h) \/ RevokeData(h)
    \/ Hello(h) \/ DropTokens(h) \/ (\E t \in Token : PutToken(h, t))
    \/ Auth(h) \/ Store(h) \/ Goodbye(h) \/ RevokeToken(h)

Next ==
    \/ \E h \in Handler, c \in Client : Request(h, c)
    \/ \E h \in Handler : Serve(h) \/ Discard(h)
    \/ Crash
    \/ Restart

Spec == Init /\ [][Next]_vars

-----------------------------------------------------------------------------
(* Whatever the handlers do at the same time.                              *)

\* Nobody gets a token or a place in the file who was not let in by an
\* administrator (or by AutoAcceptClients), and no data gets in the registry
\* that nobody who was let in sends, if under another's uuid: not by racing
\* requests, and not by a crash in the middle of a save.
OnlyApproved ==
    \A c \in Client :
        /\ c \in allowed \/ TokensOf(c) # {} \/ c \in Listed => verdict[c] # "never"
        /\ c \in remote => \E d \in Client : c \in Pushes[d] /\ verdict[d] # "never"

\* MaxWaitingClients is checked in one step and the client added in another:
\* with those that are past the check, the list outgrows it by the other
\* handlers at most.
WaitingBound ==
    Cardinality(waiting) + Cardinality({h \in Handler : task[h].pc = "PutWaiting"})
        < MaxWaitingClients + Cardinality(Handler)

\* GetToken drops the client's tokens before it adds one, in two steps: a
\* client never has more tokens than there are handlers, and with one handler
\* at a time exactly one.
TokensBounded ==
    \A c \in Client : Cardinality(TokensOf(c)) <= Cardinality(Handler)

-----------------------------------------------------------------------------
(* When no handler is running.                                             *)

Quiet == up /\ \A h \in Handler : task[h] = Idle

\* With AutoAcceptClients nobody is left on the waiting list for an
\* administrator who is not expected to come: whoever Register puts there is
\* taken off, although other registrations and revocations move in between and
\* a client already allowed may be put there again.
NobodyLeftWaiting == AutoAcceptClients /\ Quiet => waiting = {}

-----------------------------------------------------------------------------
(* When requests that contradict each other keep apart.  Nothing in the    *)
(* code sees to that: each of these says which overlap a promise of the    *)
(* authority would break on.  All other steps interleave.                  *)

Saving == {"AllowOpen", "AllowWrite", "RevokeOpen", "RevokeWrite"}

\* "Dropped" are the steps of RevokeClient with the client off the allowed list.
Dropped == {"RevokeOpen", "RevokeWrite", "RevokeTokens", "RevokeData"}
PastCheck == {"DropTokens", "PutToken", "Store"}

\* Two handlers on behalf of one client.
Together(h, k, steps, others) ==
    /\ h # k
    /\ task[h].who = task[k].who
    /\ task[h].pc \in steps
    /\ task[k].pc \in others

\* One SaveAllowedList at a time is writing; the map may change meanwhile.
WritesApart ==
    \A h, k \in Handler :
        {task[h].pc, task[k].pc} \subseteq {"AllowWrite", "RevokeWrite"} => h = k

\* No Hello or Update of a client is past its check while the client is revoked.
RevocationsUncrossed ==
    \A h, k \in Handler : ~Together(h, k, PastCheck, Dropped)

\* A client is not allowed while it is revoked, nor revoked twice at a time.
DecisionsApart ==
    \A h, k \in Handler :
        ~Together(h, k, Dropped \cup {"PutAllowed"}, Dropped \cup {"DropAllowed"})

\* No Register of a client is past its check while the client is being allowed.
RegistrationsApart ==
    \A h, k \in Handler : ~Together(h, k, {"AddWaiting", "PutWaiting"}, {"PutAllowed"})

Apart == WritesApart /\ RevocationsUncrossed /\ DecisionsApart /\ RegistrationsApart

ApartSpec == Init /\ [][Next /\ Apart']_vars

\* What the push clients of this program send is their own wigo.
OwnUuids == \A c \in Client : Pushes[c] \subseteq {c}

\* The file holds the allowed list, which is "persisted on the file system"
\* (authority.go, the comment of Authority), after any number of approvals,
\* revocations and restarts, although the list changes while it is written.
FileIsAllowed == Quiet => Listed = allowed

\* RevokeClient removes the client "from the allowed list, revoke tokens if
\* any and remove client data" (its comment): what is left belongs to clients
\* that are still allowed.
RevokedIsGone ==
    Quiet => \A c \in Client : TokensOf(c) # {} \/ c \in remote => c \in allowed

\* Once a revocation has returned the client is out, over any number of
\* restarts, until it is approved again.
RevokedStaysOut ==
    \A c \in Client :
        verdict[c] = "revoked" =>
            c \notin allowed /\ c \notin remote /\ TokensOf(c) = {} /\ c \notin Listed
-----------------------------------------------------------------------------
(* The atomic authority of Admission.  A client is allowed when it leaves   *)
(* the waiting list, has a session from the moment its tokens are replaced  *)
(* and until an Update that found one is served, and what a revocation has  *)
(* not removed yet counts no more.  The waiting list has a place for each   *)
(* other handler that may be past the check of its length.                  *)

ServedAt(step) == {task[h].who : h \in {k \in Handler : task[k].pc = step}}

Phase ==
    IF ~up THEN "stopped"
    ELSE IF \E h \in Handler : task[h].pc \in Saving \cup {"PutAllowed"} THEN "saving"
    ELSE "ready"

Accepted == allowed \cup ServedAt("PutAllowed")

Inside ==
    {c \in allowed : TokensOf(c) # {} \/ c \in ServedAt("PutToken") \cup ServedAt("Store")}

Known == remote \cap allowed

Promise == INSTANCE Admission WITH
    Places <- MaxWaitingClients + Cardinality(Handler) - 1,
    phase <- Phase, allowed <- Accepted, disk <- Listed, inside <- Inside, known <- Known

\* Served at the same time, but for the overlaps above, the requests are atomic,
\* whatever steps they are made of: a client moves from the waiting list to the
\* allowed one, a revocation takes away list, tokens and data together, and a
\* stop anywhere leaves nothing but what the list held since its last save.
ImplementsAdmission == Promise!Spec
=============================================================================
