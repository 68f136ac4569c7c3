---------------------------- MODULE AuthorityProofs ----------------------------
(***************************************************************************)
(* What Authority keeps whatever the handlers do at the same time, for any *)
(* number of clients, tokens and handlers; and what it keeps besides where *)
(* requests that contradict each other do not overlap: then it implements  *)
(* Admission.                                                              *)
(***************************************************************************)
EXTENDS Authority, FiniteSetTheorems, TLAPS

\* The steps a handler only reaches for a client that was let in.
Trusted == {"PutAllowed", "DropTokens", "PutToken", "Store"}

TrustedApproved ==
    \A h \in Handler :
        task[h].pc \in Trusted => verdict[task[h].who] # "never"

ApprovedInv == TypeOK /\ TrustedApproved /\ OnlyApproved

-----------------------------------------------------------------------------
LEMMA IdleType == Idle \in Task
BY DEF Idle, Task, Steps

\* Moving one handler on, or ending it, keeps the type of the tasks.
LEMMA GotoType ==
    ASSUME TypeOK, NEW h \in Handler, NEW step \in Steps, Goto(h, step),
           task[h].who \in Client
    PROVE  /\ task' \in [Handler -> Task]
           /\ \A k \in Handler : task'[k].pc # "Idle" => task'[k].who \in Client
           /\ task'[h].pc = step /\ task'[h].who = task[h].who
           /\ task'[h].token = task[h].token
           /\ \A k \in Handler \ {h} : task'[k] = task[k]
BY DEF TypeOK, Task, Goto

LEMMA ReturnType ==
    ASSUME TypeOK, NEW h \in Handler, Return(h)
    PROVE  /\ task' \in [Handler -> Task]
           /\ \A k \in Handler : task'[k].pc # "Idle" => task'[k].who \in Client
           /\ task'[h].pc = "Idle"
           /\ \A k \in Handler \ {h} : task'[k] = task[k]
<1>1. task' = [task EXCEPT ![h] = Idle] /\ task \in [Handler -> Task]
  BY DEF Return, TypeOK
<1>2. Idle.pc = "Idle"
  BY DEF Idle
<1> QED BY <1>1, <1>2, IdleType DEF TypeOK

LEMMA CallType ==
    ASSUME TypeOK, NEW h \in Handler, NEW c \in Client, NEW step \in Steps,
           NEW t \in Token \cup {NoToken},
           task' = [task EXCEPT ![h] = Serving(step, c, t)]
    PROVE  /\ task' \in [Handler -> Task]
           /\ \A k \in Handler : task'[k].pc # "Idle" => task'[k].who \in Client
           /\ task'[h].pc = step
           /\ \A k \in Handler \ {h} : task'[k] = task[k]
BY DEF TypeOK, Task, Idle, Serving

LEMMA TokensType ==
    ASSUME TypeOK, NEW c
    PROVE  WithoutTokensOf(c) \in [Token -> Client \cup {NoClient}]
BY DEF TypeOK, WithoutTokensOf

LEMMA ListedType == TypeOK => Listed \subseteq Client
BY DEF TypeOK, Listed

\* Each handler writes within the lines the file may have.
LEMMA OffsetType ==
    ASSUME TypeOK, NEW h \in Handler, NEW c \in Client \ task[h].wrote
    PROVE  Offset(h) \in Line
<1>1. task[h].wrote \subseteq Client
  BY DEF TypeOK, Task
<1>2. IsFiniteSet(task[h].wrote) /\ Cardinality(task[h].wrote) <= Cardinality(Client)
  BY <1>1, AuthorityAssumption, FS_Subset
<1>3. Cardinality(task[h].wrote) # Cardinality(Client)
  BY <1>1, <1>2, AuthorityAssumption, FS_Subset
<1>4. Cardinality(task[h].wrote) \in Nat /\ Cardinality(Client) \in Nat
  BY <1>2, AuthorityAssumption, FS_CardinalityType
<1> QED BY <1>2, <1>3, <1>4 DEF Offset, Line

LEMMA InitApproved == Init => ApprovedInv
<1> SUFFICES ASSUME Init PROVE ApprovedInv
  OBVIOUS
<1>1. TypeOK
  BY IdleType
  DEF Init, TypeOK, NoTokens, EmptyFile, Verdict, Idle
<1>2. TrustedApproved
  BY DEF Init, TrustedApproved, Trusted, Idle
<1>3. OnlyApproved
  <2>1. Listed = {}
    BY DEF Init, Listed, EmptyFile
  <2>2. \A c \in Client : TokensOf(c) = {}
    BY AuthorityAssumption DEF Init, TokensOf, NoTokens
  <2> QED BY <2>1, <2>2 DEF Init, OnlyApproved
<1> QED BY <1>1, <1>2, <1>3 DEF ApprovedInv

-----------------------------------------------------------------------------
(* Types.                                                                  *)

\* A new request.
LEMMA RequestTypeOK ==
    ASSUME TypeOK, NEW h \in Handler, NEW c \in Client, Request(h, c)
    PROVE  TypeOK'
<1>1. ASSUME NEW step \in Steps, NEW t \in Token \cup {NoToken}, Call(h, step, c, t)
      PROVE  TypeOK'
  <2>1. /\ task' \in [Handler -> Task]
        /\ \A k \in Handler : task'[k].pc # "Idle" => task'[k].who \in Client
    BY <1>1, CallType DEF Call
  <2> QED BY <1>1, <2>1 DEF Call, TypeOK
<1>2. CASE CallRevoke(h, c)
  <2>1. /\ task' \in [Handler -> Task]
        /\ \A k \in Handler : task'[k].pc # "Idle" => task'[k].who \in Client
    BY <1>2, CallType DEF CallRevoke, Steps
  <2>2. verdict' \in [Client -> Verdict]
    BY <1>2 DEF CallRevoke, Decide, TypeOK, Verdict
  <2> QED BY <1>2, <2>1, <2>2 DEF CallRevoke, TypeOK
<1> QED BY <1>1, <1>2 DEF Request, Steps, TokensOf

\* A step of a handler.
LEMMA ServeTypeOK ==
    ASSUME TypeOK, NEW h \in Handler, Serve(h)
    PROVE  TypeOK'
<1> DEFINE Tasks == /\ task' \in [Handler -> Task]
                    /\ \A k \in Handler : task'[k].pc # "Idle" => task'[k].who \in Client
           who == task[h].who
<1>1. task[h].pc # "Idle" => who \in Client
  BY DEF TypeOK
<1>2. ASSUME NEW step \in Steps, task[h].pc # "Idle", Goto(h, step) \/ Return(h)
      PROVE  Tasks
  BY <1>1, <1>2, GotoType, ReturnType
<1>3. ASSUME task[h].pc # "Idle", Registered(h) PROVE Tasks
  BY <1>2, <1>3 DEF Registered, Steps
<1>4. ASSUME Tasks, UNCHANGED <<up, waiting, allowed, tokens, remote, file, verdict>>
      PROVE  TypeOK'
  BY <1>4 DEF TypeOK
<1>5. CASE Register(h) \/ AddWaiting(h) \/ AllowNobody(h) \/ RevokeSaved(h)
           \/ Hello(h) \/ Auth(h) \/ Goodbye(h)
  <2>1. Tasks
    BY <1>5, <1>2, <1>3
    DEF Register, AddWaiting, AllowNobody, RevokeSaved, Hello, Auth, Goodbye, At, Steps
  <2> QED
    BY <1>5, <1>4, <2>1
    DEF Register, AddWaiting, AllowNobody, RevokeSaved, Hello, Auth, Goodbye
<1>6. CASE PutWaiting(h)
  <2>1. Tasks
    BY <1>6, <1>3 DEF PutWaiting, At
  <2> QED BY <1>6, <1>1, <2>1 DEF PutWaiting, At, TypeOK
<1>7. CASE Allow(h)
  <2>1. Tasks
    BY <1>7, <1>2 DEF Allow, At, Steps
  <2>2. verdict' \in [Client -> Verdict]
    BY <1>7 DEF Allow, Decide, TypeOK, Verdict
  <2> QED BY <1>7, <2>1, <2>2 DEF Allow, LeftWaiting, TypeOK
<1>8. CASE PutAllowed(h)
  <2>1. Tasks
    BY <1>8, <1>2 DEF PutAllowed, At, Steps
  <2> QED BY <1>8, <1>1, <2>1 DEF PutAllowed, At, TypeOK
<1>9. CASE AllowEnd(h)
  <2>1. Tasks
    BY <1>9, <1>2 DEF AllowEnd, At, Steps
  <2>2. verdict' \in [Client -> Verdict]
    BY <1>9, <1>1 DEF AllowEnd, Decide, TypeOK, Verdict, At
  <2> QED BY <1>9, <2>1, <2>2 DEF AllowEnd, TypeOK
<1>10. ASSUME NEW step \in {"AllowOpen", "RevokeOpen"}, SaveOpen(h, step) PROVE TypeOK'
  <2>1. AfterOpen[step] \in {"AllowWrite", "RevokeWrite"}
    BY DEF AfterOpen
  <2>2. [task[h] EXCEPT !.pc = AfterOpen[step], !.todo = allowed, !.wrote = {}] \in Task
    BY <2>1 DEF TypeOK, Task, Steps
  <2>3. [task[h] EXCEPT !.pc = AfterOpen[step], !.todo = allowed, !.wrote = {}].who
            = task[h].who
    BY DEF TypeOK, Task
  <2>4. task' = [task EXCEPT ![h] =
                    [task[h] EXCEPT !.pc = AfterOpen[step], !.todo = allowed, !.wrote = {}]]
    BY <1>10 DEF SaveOpen
  <2>5. Tasks
    BY <1>10, <1>1, <2>2, <2>3, <2>4 DEF SaveOpen, At, TypeOK
  <2> QED BY <1>10, <2>5 DEF SaveOpen, TypeOK, EmptyFile
<1>11. ASSUME NEW step \in {"AllowWrite", "RevokeWrite"}, NEW c \in Client,
              SaveWrite(h, step, c)
       PROVE  TypeOK'
  <2>1. Tasks
    BY <1>11, <1>1 DEF SaveWrite, At, TypeOK, Task
  <2>2. file' \in [Line -> Client \cup {NoClient}]
    BY <1>11, OffsetType DEF SaveWrite, TypeOK
  <2> QED BY <1>11, <2>1, <2>2 DEF SaveWrite, TypeOK
<1>12. CASE Revoke(h)
  <2>1. Tasks
    BY <1>12, <1>2 DEF Revoke, At, Steps
  <2> QED BY <1>12, <2>1 DEF Revoke, LeftWaiting, TypeOK
<1>13. CASE DropAllowed(h)
  <2>1. Tasks
    BY <1>13, <1>2 DEF DropAllowed, NextSave, At, Steps
  <2> QED BY <1>13, <2>1 DEF DropAllowed, TypeOK
<1>14. CASE RevokeTokens(h)
  <2>1. Tasks
    BY <1>14, <1>2 DEF RevokeTokens, At, Steps
  <2> QED BY <1>14, <2>1, TokensType DEF RevokeTokens, TypeOK
<1>15. CASE RevokeData(h)
  <2>1. Tasks
    BY <1>15, <1>2 DEF RevokeData, At, Steps
  <2>2. verdict' \in [Client -> Verdict]
    BY <1>15 DEF RevokeData, Decide, TypeOK, Verdict
  <2> QED BY <1>15, <2>1, <2>2 DEF RevokeData, WithoutData, TypeOK
<1>16. CASE DropTokens(h)
  <2>1. Tasks
    BY <1>16, <1>2 DEF DropTokens, At, Steps
  <2> QED BY <1>16, <2>1, TokensType DEF DropTokens, LeftTokens, TypeOK
<1>17. ASSUME NEW t \in Token, PutToken(h, t) PROVE TypeOK'
  <2>1. Tasks
    BY <1>17, <1>2 DEF PutToken, At, Steps
  <2>2. tokens' \in [Token -> Client \cup {NoClient}]
    BY <1>17, <1>1 DEF PutToken, At, TypeOK
  <2> QED BY <1>17, <2>1, <2>2 DEF PutToken, TypeOK
<1>18. CASE Store(h)
  <2>1. Tasks
    BY <1>18, <1>2 DEF Store, At, Steps
  <2>2. PICK c \in Pushes[who] : remote' = remote \cup {c}
    BY <1>18 DEF Store
  <2>3. c \in Client
    BY <1>18, <1>1, <2>2, AuthorityAssumption DEF Store, At
  <2> QED BY <1>18, <2>1, <2>2, <2>3 DEF Store, TypeOK
<1>19. CASE RevokeToken(h)
  <2>1. Tasks
    BY <1>19, <1>2 DEF RevokeToken, At, Steps
  <2> QED BY <1>19, <2>1 DEF RevokeToken, TypeOK
<1> QED
  BY <1>5, <1>6, <1>7, <1>8, <1>9, <1>10, <1>11, <1>12, <1>13, <1>14, <1>15, <1>16,
     <1>17, <1>18, <1>19
  DEF Serve

\* A wigo that is not stored.
LEMMA Discarded ==
    ASSUME TypeOK, NEW h \in Handler, Discard(h)
    PROVE  /\ TypeOK'
           /\ up /\ task[h].pc = "Store" /\ task[h].who \in Client /\ task'[h].pc = "Idle"
           /\ \A k \in Handler \ {h} : task'[k] = task[k]
           /\ UNCHANGED <<up, waiting, allowed, tokens, remote, file, verdict>>
<1>1. /\ up /\ task[h].pc = "Store" /\ Return(h)
      /\ UNCHANGED <<up, waiting, allowed, tokens, remote, file, verdict>>
  BY DEF Discard, At
<1>2. task[h].who \in Client
  BY <1>1 DEF TypeOK
<1>3. /\ task' \in [Handler -> Task]
      /\ \A k \in Handler : task'[k].pc # "Idle" => task'[k].who \in Client
      /\ task'[h].pc = "Idle"
      /\ \A k \in Handler \ {h} : task'[k] = task[k]
  BY <1>1, ReturnType
<1>4. TypeOK'
  BY <1>1, <1>3 DEF TypeOK
<1> QED BY <1>1, <1>2, <1>3, <1>4

LEMMA NextTypeOK == TypeOK /\ [Next]_vars => TypeOK'
<1> SUFFICES ASSUME TypeOK, [Next]_vars PROVE TypeOK'
  OBVIOUS
<1>1. CASE Crash
  BY <1>1, IdleType DEF Crash, TypeOK, NoTokens, Idle
<1>2. CASE Restart
  BY <1>2, ListedType DEF Restart, Loaded, TypeOK
<1>3. CASE UNCHANGED vars
  BY <1>3 DEF vars, TypeOK
<1> QED BY <1>1, <1>2, <1>3, RequestTypeOK, ServeTypeOK, Discarded DEF Next

-----------------------------------------------------------------------------
(* OnlyApproved.                                                           *)

\* Having been decided on is never undone.
LEMMA VerdictKept ==
    ASSUME TypeOK, [Next]_vars, NEW c \in Client, verdict[c] # "never"
    PROVE  verdict'[c] # "never"
<1>1. ASSUME NEW d \in Client, NEW decision \in Verdict, Decide(d, decision),
             decision # "never" \/ verdict[d] = "never"
      PROVE  verdict'[c] # "never"
  BY <1>1 DEF Decide, TypeOK
<1>2. ASSUME NEW h \in Handler, NEW d \in Client, Request(h, d)
      PROVE  verdict'[c] # "never"
  <2>1. CASE CallRevoke(h, d)
    BY <1>1, <2>1 DEF CallRevoke, TypeOK, Verdict
  <2> QED BY <1>2, <2>1 DEF Request, Call
<1>3. ASSUME NEW h \in Handler, Serve(h)
      PROVE  verdict'[c] # "never"
  <2>1. CASE Allow(h) \/ AllowEnd(h) \/ RevokeData(h)
    <3>1. task[h].who \in Client
      BY <2>1 DEF Allow, AllowEnd, RevokeData, At, TypeOK
    <3> QED
      BY <1>1, <2>1, <3>1 DEF Allow, AllowEnd, RevokeData, TypeOK, Verdict
  <2>2. CASE UNCHANGED verdict
    BY <2>2
  <2> QED
    BY <1>3, <2>1, <2>2
    DEF Serve, Register, AddWaiting, PutWaiting, AllowNobody, PutAllowed, SaveOpen,
        SaveWrite, Revoke, DropAllowed, RevokeSaved, RevokeTokens, Hello, DropTokens,
        PutToken, Auth, Store, Goodbye, RevokeToken
<1>4. CASE UNCHANGED verdict
  BY <1>4
<1> QED BY <1>2, <1>3, <1>4, Discarded DEF Next, Crash, Restart, vars

\* A handler is only Trusted for a client that has been decided on.
LEMMA NextTrusted == ApprovedInv /\ [Next]_vars => TrustedApproved'
<1> SUFFICES ASSUME ApprovedInv, [Next]_vars, NEW k \in Handler, task'[k].pc \in Trusted
             PROVE  verdict'[task'[k].who] # "never"
  BY DEF TrustedApproved
<1> USE DEF ApprovedInv
<1> DEFINE who == task[k].who
<1>1. CASE task'[k] = task[k]
  <2>1. who \in Client /\ verdict[who] # "never"
    BY <1>1 DEF TrustedApproved, Trusted, TypeOK
  <2> QED BY <1>1, <2>1, VerdictKept
<1>2. ASSUME NEW step \in Steps, Goto(k, step), task[k].pc # "Idle"
      PROVE  task'[k].pc = step /\ task'[k].who = who /\ who \in Client
  BY <1>2, GotoType DEF TypeOK
<1>3. ASSUME Return(k) PROVE FALSE
  BY <1>3, ReturnType DEF Trusted
<1>4. ASSUME Registered(k), task[k].pc # "Idle" PROVE FALSE
  BY <1>2, <1>3, <1>4 DEF Registered, Trusted, Steps
<1>5. ASSUME NEW step \in Steps \ Trusted, Goto(k, step), task[k].pc # "Idle" PROVE FALSE
  BY <1>2, <1>5
<1>6. ASSUME NEW h \in Handler, NEW c \in Client, Request(h, c)
      PROVE  verdict'[task'[k].who] # "never"
  <2>1. CASE h = k
    <3>1. ASSUME NEW step \in Steps \ Trusted, NEW t \in Token \cup {NoToken},
                 task' = [task EXCEPT ![k] = Serving(step, c, t)]
          PROVE  FALSE
      BY <3>1, CallType
    <3>2. ASSUME NEW step \in {"Register", "Allow", "Hello", "Auth", "Goodbye"},
                 NEW t \in Token \cup {NoToken}, Call(k, step, c, t)
          PROVE  FALSE
      <4>1. step \in Steps \ Trusted
        BY DEF Steps, Trusted
      <4>2. task' = [task EXCEPT ![k] = Serving(step, c, t)]
        BY <3>2 DEF Call
      <4> QED BY <3>1, <4>1, <4>2
    <3>3. CASE CallRevoke(k, c)
      BY <3>1, <3>3 DEF CallRevoke, Steps, Trusted
    <3> QED BY <1>6, <2>1, <3>2, <3>3 DEF Request, TokensOf
  <2>2. CASE h # k
    <3>1. task'[k] = task[k]
      BY <1>6, <2>2 DEF Request, Call, CallRevoke, TypeOK
    <3> QED BY <1>1, <3>1
  <2> QED BY <2>1, <2>2
<1>7. CASE Allow(k)
  BY <1>2, <1>7 DEF Allow, At, Decide, TypeOK, Steps
<1>8. CASE Hello(k) \/ DropTokens(k) \/ Auth(k)
  <2>1. who \in Client
    BY <1>8 DEF Hello, DropTokens, Auth, At, TypeOK
  <2>2. CASE Hello(k)
    <3>1. who \in allowed /\ Goto(k, "DropTokens")
      BY <1>3, <2>2 DEF Hello, MayEnter
    <3>2. verdict[who] # "never"
      BY <2>1, <3>1 DEF OnlyApproved
    <3> QED BY <1>2, <2>1, <2>2, <3>1, <3>2, VerdictKept DEF Hello, At, Steps
  <2>3. CASE DropTokens(k)
    <3>1. verdict[who] # "never"
      BY <2>3 DEF DropTokens, At, TrustedApproved, Trusted
    <3> QED BY <1>2, <2>1, <2>3, <3>1, VerdictKept DEF DropTokens, At, Steps
  <2>4. CASE Auth(k)
    <3>1. TokensOf(who) # {} /\ Goto(k, "Store")
      BY <1>3, <2>4 DEF Auth, Valid
    <3>2. verdict[who] # "never"
      BY <2>1, <3>1 DEF OnlyApproved
    <3> QED BY <1>2, <2>1, <2>4, <3>1, <3>2, VerdictKept DEF Auth, At, Steps
  <2> QED BY <1>8, <2>2, <2>3, <2>4
<1>9. ASSUME NEW h \in Handler, Serve(h), h # k
      PROVE  task'[k] = task[k]
  BY <1>9
  DEF Serve, Register, AddWaiting, PutWaiting, Registered, Allow, AllowNobody, PutAllowed,
      AllowEnd, SaveOpen, SaveWrite, Revoke, DropAllowed, RevokeSaved, RevokeTokens,
      RevokeData, Hello, DropTokens, PutToken, Auth, Store, Goodbye, RevokeToken,
      Goto, Return, TypeOK
<1>10. CASE Register(k) \/ AddWaiting(k) \/ PutWaiting(k)
  BY <1>3, <1>4, <1>5, <1>10
  DEF Register, AddWaiting, PutWaiting, At, Steps, Trusted
<1>11. CASE AllowNobody(k) \/ PutAllowed(k) \/ AllowEnd(k) \/ Revoke(k) \/ DropAllowed(k)
            \/ RevokeSaved(k) \/ RevokeTokens(k) \/ RevokeData(k)
  BY <1>3, <1>5, <1>11
  DEF AllowNobody, PutAllowed, AllowEnd, Revoke, DropAllowed, NextSave, RevokeSaved,
      RevokeTokens, RevokeData, At, Steps, Trusted
<1>12. CASE Store(k) \/ Goodbye(k) \/ RevokeToken(k) \/ \E t \in Token : PutToken(k, t)
  BY <1>3, <1>5, <1>12 DEF Store, Goodbye, RevokeToken, PutToken, At, Steps, Trusted
<1>13. ASSUME NEW step \in {"AllowOpen", "RevokeOpen"}, SaveOpen(k, step) PROVE FALSE
  <2>1. task'[k].pc = AfterOpen[step]
    BY <1>13 DEF SaveOpen, TypeOK, Task
  <2> QED BY <2>1 DEF AfterOpen, Trusted
<1>14. ASSUME NEW step \in {"AllowWrite", "RevokeWrite"}, NEW c \in Client,
              SaveWrite(k, step, c)
       PROVE  FALSE
  <2>1. task'[k].pc = step
    BY <1>14 DEF SaveWrite, At, TypeOK, Task
  <2> QED BY <2>1 DEF Trusted
<1>15. CASE Crash
  BY <1>15 DEF Crash, Idle, Trusted
<1>16. CASE Restart \/ UNCHANGED vars
  BY <1>1, <1>16 DEF Restart, vars
<1>17. CASE \E h \in Handler : Serve(h)
  BY <1>1, <1>7, <1>8, <1>9, <1>10, <1>11, <1>12, <1>13, <1>14, <1>17 DEF Serve
<1>18. ASSUME NEW h \in Handler, Discard(h)
       PROVE  verdict'[task'[k].who] # "never"
  BY <1>1, <1>18, Discarded DEF Trusted
<1> QED BY <1>6, <1>15, <1>16, <1>17, <1>18 DEF Next

\* Data only gets in the registry through an Update that is past its check.
LEMMA NextStoresApproved ==
    ASSUME ApprovedInv, [Next]_vars, NEW c \in Client, c \in remote'
    PROVE  \E d \in Client : c \in Pushes[d] /\ verdict'[d] # "never"
<1> USE DEF ApprovedInv
<1>1. CASE c \in remote
  <2>1. PICK d \in Client : c \in Pushes[d] /\ verdict[d] # "never"
    BY <1>1 DEF OnlyApproved
  <2> QED BY <2>1, VerdictKept
<1>2. ASSUME NEW h \in Handler, Store(h), c \notin remote
      PROVE  \E d \in Client : c \in Pushes[d] /\ verdict'[d] # "never"
  <2>1. task[h].who \in Client /\ verdict[task[h].who] # "never"
    BY <1>2 DEF Store, At, TypeOK, TrustedApproved, Trusted
  <2>2. c \in Pushes[task[h].who]
    BY <1>2 DEF Store
  <2> QED BY <2>1, <2>2, VerdictKept
<1>3. CASE remote' \subseteq remote
  BY <1>1, <1>3
<1> QED
  BY <1>1, <1>2, <1>3
  DEF Next, Serve, Request, Call, CallRevoke, Register, AddWaiting, PutWaiting, Allow,
      AllowNobody, PutAllowed, AllowEnd, SaveOpen, SaveWrite, Revoke, DropAllowed,
      RevokeSaved, RevokeTokens, RevokeData, WithoutData, Hello, DropTokens, PutToken,
      Auth, Discard, Goodbye, RevokeToken, Crash, Restart, vars

\* A client only gets in anywhere through a handler that is Trusted, or from
\* the file or the allowed list, where it was before.
LEMMA NextOnlyApproved == ApprovedInv /\ [Next]_vars => OnlyApproved'
<1> SUFFICES ASSUME ApprovedInv, [Next]_vars, NEW c \in Client,
                    c \in allowed' \/ TokensOf(c)' # {} \/ c \in Listed'
             PROVE  verdict'[c] # "never"
  BY NextStoresApproved DEF OnlyApproved
<1> USE DEF ApprovedInv
<1>1. CASE c \in allowed \/ TokensOf(c) # {} \/ c \in Listed
  BY <1>1, VerdictKept DEF OnlyApproved
<1>2. ASSUME NEW h \in Handler, task[h].pc \in Trusted, task[h].who = c
      PROVE  verdict'[c] # "never"
  BY <1>2, VerdictKept DEF TrustedApproved
<1>3. CASE c \in allowed' \ allowed
  <2>1. CASE \E h \in Handler : PutAllowed(h)
    BY <1>2, <1>3, <2>1 DEF PutAllowed, At, Trusted
  <2>2. CASE Restart
    BY <1>1, <1>3, <2>2 DEF Restart, Loaded
  <2>3. CASE allowed' \subseteq allowed
    BY <1>3, <2>3
  <2> QED
    BY <2>1, <2>2, <2>3
    DEF Next, Serve, Request, Call, CallRevoke, Register, AddWaiting, PutWaiting, Allow,
        AllowNobody, AllowEnd, SaveOpen, SaveWrite, Revoke, DropAllowed, RevokeSaved,
        RevokeTokens, RevokeData, Hello, DropTokens, PutToken, Auth, Store, Discard,
        Goodbye, RevokeToken, Crash, vars
<1>4. CASE TokensOf(c)' # {}
  <2> PICK t \in Token : tokens'[t] = c
    BY <1>4 DEF TokensOf
  <2>1. CASE tokens[t] = c
    BY <1>1, <2>1 DEF TokensOf
  <2>2. CASE tokens[t] # c
    <3>1. c # NoClient
      BY AuthorityAssumption
    <3>2. CASE \E h \in Handler, s \in Token : PutToken(h, s)
      BY <1>2, <2>2, <3>2 DEF PutToken, At, Trusted, TypeOK
    <3>3. CASE tokens' = NoTokens
      BY <3>1, <3>3 DEF NoTokens
    <3>4. CASE \E d : tokens' = WithoutTokensOf(d)
      BY <2>2, <3>1, <3>4 DEF WithoutTokensOf
    <3>5. ASSUME NEW h \in Handler, RevokeToken(h) PROVE FALSE
      BY <2>2, <3>1, <3>5 DEF RevokeToken, TypeOK
    <3>6. CASE tokens' = tokens
      BY <2>2, <3>6
    <3> QED
      BY <3>2, <3>3, <3>4, <3>5, <3>6
      DEF Next, Serve, Request, Call, CallRevoke, Register, AddWaiting, PutWaiting, Allow,
          AllowNobody, PutAllowed, AllowEnd, SaveOpen, SaveWrite, Revoke, DropAllowed,
          RevokeSaved, RevokeTokens, RevokeData, Hello, DropTokens, LeftTokens, Auth,
          Store, Discard, Goodbye, Crash, Restart, vars
  <2> QED BY <2>1, <2>2
<1>5. CASE c \in Listed' \ Listed
  <2>1. ASSUME NEW h \in Handler, NEW step \in {"AllowWrite", "RevokeWrite"},
               NEW d \in Client, SaveWrite(h, step, d)
        PROVE  verdict'[c] # "never"
    <3>1. PICK n \in Line : file'[n] = c
      BY <1>5 DEF Listed
    <3>2. file[n] # c
      BY <1>5 DEF Listed
    <3>3. d = c /\ d \in allowed
      BY <2>1, <3>1, <3>2 DEF SaveWrite, TypeOK
    <3> QED BY <1>1, <3>3
  <2>2. CASE file' = EmptyFile
    BY <1>5, <2>2 DEF Listed, EmptyFile
  <2>3. CASE file' = file
    BY <1>5, <2>3 DEF Listed
  <2> QED
    BY <2>1, <2>2, <2>3
    DEF Next, Serve, Request, Call, CallRevoke, Register, AddWaiting, PutWaiting, Allow,
        AllowNobody, PutAllowed, AllowEnd, SaveOpen, Revoke, DropAllowed, RevokeSaved,
        RevokeTokens, RevokeData, Hello, DropTokens, PutToken, Auth, Store, Discard,
        Goodbye, RevokeToken, Crash, Restart, vars
<1> QED BY <1>1, <1>3, <1>4, <1>5

LEMMA NextApproved == ApprovedInv /\ [Next]_vars => ApprovedInv'
BY NextTypeOK, NextTrusted, NextOnlyApproved DEF ApprovedInv

\* The lists, the tokens, the file and the handlers keep their types.
THEOREM TypeCorrect == Spec => []TypeOK
<1>1. ApprovedInv => TypeOK
  BY DEF ApprovedInv
<1> QED BY <1>1, InitApproved, NextApproved, PTL DEF Spec

\* Whatever the requests in flight and wherever the process stops, nobody who
\* was never let in holds a token or is in the file, and what is in the registry
\* somebody who was let in may have sent.
THEOREM ApprovedCorrect == Spec => []OnlyApproved
<1>1. ApprovedInv => OnlyApproved
  BY DEF ApprovedInv
<1> QED BY <1>1, InitApproved, NextApproved, PTL DEF Spec

-----------------------------------------------------------------------------
(* The bounds.                                                             *)

\* The handlers about to add to the waiting list, and those about to add a
\* token of c.
Adding == {h \in Handler : task[h].pc = "PutWaiting"}
Granting(c) == {h \in Handler : task[h].pc = "PutToken" /\ task[h].who = c}

TokensInv ==
    \A c \in Client :
        Cardinality(TokensOf(c)) + Cardinality(Granting(c)) <= Cardinality(Handler)

\* The sets counted are finite.
LEMMA Finite ==
    ASSUME TypeOK, NEW c \in Client
    PROVE  /\ IsFiniteSet(waiting) /\ Cardinality(waiting) \in Nat
           /\ IsFiniteSet(Adding) /\ Cardinality(Adding) \in Nat
           /\ IsFiniteSet(TokensOf(c)) /\ Cardinality(TokensOf(c)) \in Nat
           /\ IsFiniteSet(Granting(c)) /\ Cardinality(Granting(c)) \in Nat
           /\ Cardinality(Adding) <= Cardinality(Handler)
           /\ Cardinality(Granting(c)) <= Cardinality(Handler)
           /\ Cardinality(Handler) \in Nat \ {0}
<1>1. /\ waiting \subseteq Client /\ Adding \subseteq Handler
      /\ TokensOf(c) \subseteq Token /\ Granting(c) \subseteq Handler
  BY DEF TypeOK, Adding, TokensOf, Granting
<1>2. /\ IsFiniteSet(waiting) /\ IsFiniteSet(Adding)
      /\ IsFiniteSet(TokensOf(c)) /\ IsFiniteSet(Granting(c))
      /\ Cardinality(Adding) <= Cardinality(Handler)
      /\ Cardinality(Granting(c)) <= Cardinality(Handler)
  BY <1>1, AuthorityAssumption, FS_Subset
<1>3. Cardinality(Handler) \in Nat \ {0}
  BY AuthorityAssumption, FS_CardinalityType, FS_EmptySet
<1> QED BY <1>2, <1>3, FS_CardinalityType

\* What a step does to the two sums: a handler joins the adders, an adder adds
\* one, or nothing grows.
LEMMA NextAdding ==
    ASSUME TypeOK, [Next]_vars
    PROVE  \/ Room /\ waiting' = waiting
           \/ \E h \in Adding, c \in Client :
                  waiting' = waiting \cup {c} /\ Adding' = Adding \ {h}
           \/ waiting' \subseteq waiting /\ Adding' \subseteq Adding
<1>1. ASSUME NEW h \in Handler, NEW step \in Steps \ {"PutWaiting"},
             Goto(h, step) \/ Return(h), task[h].pc # "Idle"
      PROVE  Adding' = Adding \ {h}
  <2>1. task[h].who \in Client
    BY <1>1 DEF TypeOK
  <2>2. task'[h].pc # "PutWaiting" /\ \A k \in Handler \ {h} : task'[k] = task[k]
    BY <1>1, <2>1, GotoType, ReturnType
  <2> QED BY <2>2 DEF Adding
<1>2. ASSUME NEW h \in Handler, Registered(h), task[h].pc # "Idle"
      PROVE  Adding' = Adding \ {h}
  BY <1>1, <1>2 DEF Registered, Steps
<1>3. ASSUME NEW h \in Handler, NEW c \in Client, Request(h, c)
      PROVE  waiting' = waiting /\ Adding' \subseteq Adding
  <2>1. ASSUME NEW step \in Steps \ {"PutWaiting"}, NEW t \in Token \cup {NoToken},
               task' = [task EXCEPT ![h] = Serving(step, c, t)]
        PROVE  Adding' \subseteq Adding
    BY <2>1, CallType DEF Adding
  <2>2. ASSUME NEW step \in {"Register", "Allow", "Hello", "Auth", "Goodbye"},
               NEW t \in Token \cup {NoToken}, Call(h, step, c, t)
        PROVE  waiting' = waiting /\ Adding' \subseteq Adding
    <3>1. step \in Steps \ {"PutWaiting"}
      BY DEF Steps
    <3> QED BY <2>1, <2>2, <3>1 DEF Call
  <2>3. CASE CallRevoke(h, c)
    BY <2>1, <2>3 DEF CallRevoke, Steps
  <2> QED BY <1>3, <2>2, <2>3 DEF Request, TokensOf
<1>4. ASSUME NEW h \in Handler, AddWaiting(h)
      PROVE  waiting' = waiting /\ (Room \/ Adding' \subseteq Adding)
  BY <1>2, <1>4 DEF AddWaiting, At
<1>5. ASSUME NEW h \in Handler, PutWaiting(h)
      PROVE  \E k \in Adding, c \in Client :
                 waiting' = waiting \cup {c} /\ Adding' = Adding \ {k}
  <2>1. h \in Adding /\ task[h].who \in Client
    BY <1>5 DEF PutWaiting, At, Adding, TypeOK
  <2> QED BY <1>2, <1>5, <2>1 DEF PutWaiting, At
<1>6. ASSUME NEW h \in Handler,
             Register(h) \/ Allow(h) \/ AllowNobody(h) \/ PutAllowed(h) \/ AllowEnd(h)
                 \/ Revoke(h) \/ DropAllowed(h) \/ RevokeSaved(h)
      PROVE  waiting' \subseteq waiting /\ Adding' \subseteq Adding
  BY <1>1, <1>6
  DEF Register, Allow, AllowNobody, PutAllowed, AllowEnd, Revoke, LeftWaiting, DropAllowed,
      NextSave, RevokeSaved, At, Steps
<1>7. ASSUME NEW h \in Handler,
             RevokeTokens(h) \/ RevokeData(h) \/ Hello(h) \/ DropTokens(h)
                 \/ (\E t \in Token : PutToken(h, t))
                 \/ Auth(h) \/ Store(h) \/ Goodbye(h) \/ RevokeToken(h)
      PROVE  waiting' \subseteq waiting /\ Adding' \subseteq Adding
  BY <1>1, <1>7
  DEF RevokeTokens, RevokeData, Hello, DropTokens, PutToken, Auth, Store, Goodbye,
      RevokeToken, At, Steps
<1>8. ASSUME NEW h \in Handler, NEW step \in {"AllowOpen", "RevokeOpen"}, SaveOpen(h, step)
      PROVE  waiting' \subseteq waiting /\ Adding' \subseteq Adding
  <2>1. task'[h].pc = AfterOpen[step] /\ \A k \in Handler \ {h} : task'[k] = task[k]
    BY <1>8 DEF SaveOpen, TypeOK, Task
  <2>2. AfterOpen[step] # "PutWaiting"
    BY DEF AfterOpen
  <2>3. waiting' = waiting
    BY <1>8 DEF SaveOpen
  <2> QED BY <2>1, <2>2, <2>3 DEF Adding
<1>9. ASSUME NEW h \in Handler, NEW step \in {"AllowWrite", "RevokeWrite"},
             NEW c \in Client, SaveWrite(h, step, c)
      PROVE  waiting' \subseteq waiting /\ Adding' \subseteq Adding
  <2>1. task'[h].pc = task[h].pc /\ \A k \in Handler \ {h} : task'[k] = task[k]
    BY <1>9 DEF SaveWrite, TypeOK, Task
  <2> QED BY <1>9, <2>1 DEF SaveWrite, Adding
<1>10. CASE Crash
  BY <1>10 DEF Crash, Adding, Idle
<1>11. CASE Restart \/ UNCHANGED vars
  BY <1>11 DEF Restart, vars, Adding
<1>12. ASSUME NEW h \in Handler, Serve(h)
       PROVE  \/ Room /\ waiting' = waiting
              \/ \E k \in Adding, c \in Client :
                     waiting' = waiting \cup {c} /\ Adding' = Adding \ {k}
              \/ waiting' \subseteq waiting /\ Adding' \subseteq Adding
  BY <1>4, <1>5, <1>6, <1>7, <1>8, <1>9, <1>12 DEF Serve
<1>13. ASSUME NEW h \in Handler, Discard(h)
       PROVE  waiting' \subseteq waiting /\ Adding' \subseteq Adding
  BY <1>13, Discarded DEF Adding
<1> QED BY <1>3, <1>10, <1>11, <1>12, <1>13 DEF Next

LEMMA NextWaitingBound == TypeOK /\ WaitingBound /\ [Next]_vars => WaitingBound'
<1> SUFFICES ASSUME TypeOK, WaitingBound, [Next]_vars
             PROVE  Cardinality(waiting') + Cardinality(Adding')
                        < MaxWaitingClients + Cardinality(Handler)
  BY DEF WaitingBound, Adding
<1>0. Cardinality(waiting) + Cardinality(Adding) < MaxWaitingClients + Cardinality(Handler)
  BY DEF WaitingBound, Adding
<1>1. /\ IsFiniteSet(waiting) /\ Cardinality(waiting) \in Nat
      /\ IsFiniteSet(Adding) /\ Cardinality(Adding) \in Nat
      /\ Cardinality(Handler) \in Nat
  BY AuthorityAssumption, FS_CardinalityType, FS_Subset DEF TypeOK, Adding
<1>2. /\ IsFiniteSet(Adding') /\ Cardinality(Adding') \in Nat
      /\ Cardinality(Adding') <= Cardinality(Handler)
  BY AuthorityAssumption, FS_CardinalityType, FS_Subset DEF Adding
<1>3. CASE Room /\ waiting' = waiting
  BY <1>1, <1>2, <1>3, AuthorityAssumption DEF Room
<1>4. ASSUME NEW h \in Adding, NEW c \in Client,
             waiting' = waiting \cup {c}, Adding' = Adding \ {h}
      PROVE  Cardinality(waiting') + Cardinality(Adding')
                 < MaxWaitingClients + Cardinality(Handler)
  <2>1. /\ IsFiniteSet(waiting \cup {c})
        /\ Cardinality(waiting \cup {c})
               = IF c \in waiting THEN Cardinality(waiting) ELSE Cardinality(waiting) + 1
    BY <1>1, FS_AddElement
  <2>2. Cardinality(waiting') \in Nat /\ Cardinality(waiting') <= Cardinality(waiting) + 1
    BY <1>1, <1>4, <2>1, FS_CardinalityType
  <2>3. Cardinality(Adding') = Cardinality(Adding) - 1
    BY <1>1, <1>4, FS_RemoveElement
  <2> QED BY <1>0, <1>1, <1>2, <2>2, <2>3, AuthorityAssumption
<1>5. CASE waiting' \subseteq waiting /\ Adding' \subseteq Adding
  <2>1. /\ Cardinality(waiting') <= Cardinality(waiting)
        /\ Cardinality(Adding') <= Cardinality(Adding)
        /\ IsFiniteSet(waiting')
    BY <1>1, <1>5, FS_Subset
  <2>2. Cardinality(waiting') \in Nat
    BY <2>1, FS_CardinalityType
  <2> QED BY <1>0, <1>1, <1>2, <2>1, <2>2, AuthorityAssumption
<1> QED BY <1>3, <1>4, <1>5, NextAdding

LEMMA InitBounds == Init => WaitingBound /\ TokensInv
<1> SUFFICES ASSUME Init PROVE WaitingBound /\ TokensInv
  OBVIOUS
<1>1. waiting = {} /\ Adding = {}
  BY DEF Init, Adding, Idle
<1>2. \A c \in Client : TokensOf(c) = {} /\ Granting(c) = {}
  BY AuthorityAssumption DEF Init, TokensOf, NoTokens, Granting, Idle
<1>3. Cardinality({}) = 0 /\ Cardinality(Handler) \in Nat /\ Cardinality(Handler) # 0
  BY AuthorityAssumption, FS_CardinalityType, FS_EmptySet
<1>4. Cardinality(waiting) = 0 /\ Cardinality(Adding) = 0
  BY <1>1, <1>3
<1>5. WaitingBound
  <2>1. 0 + 0 < MaxWaitingClients + Cardinality(Handler)
    BY <1>3, AuthorityAssumption
  <2> QED BY <1>4, <2>1 DEF WaitingBound, Adding
<1>6. TokensInv
  BY <1>2, <1>3 DEF TokensInv
<1> QED BY <1>5, <1>6

\* The waiting list and the handlers that are past the check of its length
\* together outgrow MaxWaitingClients by the number of handlers, less one, and no
\* more.
THEOREM WaitingBounded == Spec => []WaitingBound
<1>1. Init => TypeOK
  BY InitApproved DEF ApprovedInv
<1> QED BY <1>1, InitBounds, NextTypeOK, NextWaitingBound, PTL DEF Spec

\* What a step does to a client's tokens: one handler drops them all, one that
\* has done so adds one, or nothing grows.
LEMMA NextGranting ==
    ASSUME TypeOK, [Next]_vars, NEW c \in Client
    PROVE  \/ TokensOf(c)' = {}
           \/ \E h \in Granting(c), t \in Token :
                  /\ TokensOf(c)' = TokensOf(c) \cup {t}
                  /\ Granting(c)' = Granting(c) \ {h}
           \/ TokensOf(c)' \subseteq TokensOf(c) /\ Granting(c)' \subseteq Granting(c)
<1> USE AuthorityAssumption
<1>1. ASSUME NEW h \in Handler, NEW step \in Steps \ {"PutToken"},
             Goto(h, step) \/ Return(h), task[h].pc # "Idle"
      PROVE  Granting(c)' = Granting(c) \ {h}
  <2>1. task[h].who \in Client
    BY <1>1 DEF TypeOK
  <2>2. task'[h].pc # "PutToken" /\ \A k \in Handler \ {h} : task'[k] = task[k]
    BY <1>1, <2>1, GotoType, ReturnType
  <2> QED BY <2>2 DEF Granting
<1>2. ASSUME NEW h \in Handler, Registered(h), task[h].pc # "Idle"
      PROVE  Granting(c)' = Granting(c) \ {h}
  BY <1>1, <1>2 DEF Registered, Steps
<1>3. ASSUME NEW h \in Handler, NEW d \in Client, Request(h, d)
      PROVE  TokensOf(c)' = TokensOf(c) /\ Granting(c)' \subseteq Granting(c)
  <2>1. ASSUME NEW step \in Steps \ {"PutToken"}, NEW t \in Token \cup {NoToken},
               task' = [task EXCEPT ![h] = Serving(step, d, t)]
        PROVE  Granting(c)' \subseteq Granting(c)
    BY <2>1, CallType DEF Granting
  <2>2. ASSUME NEW step \in {"Register", "Allow", "Hello", "Auth", "Goodbye"},
               NEW t \in Token \cup {NoToken}, Call(h, step, d, t)
        PROVE  tokens' = tokens /\ Granting(c)' \subseteq Granting(c)
    <3>1. step \in Steps \ {"PutToken"}
      BY DEF Steps
    <3> QED BY <2>1, <2>2, <3>1 DEF Call
  <2>3. ASSUME CallRevoke(h, d)
        PROVE  tokens' = tokens /\ Granting(c)' \subseteq Granting(c)
    BY <2>1, <2>3 DEF CallRevoke, Steps
  <2>4. tokens' = tokens /\ Granting(c)' \subseteq Granting(c)
    BY <1>3, <2>2, <2>3 DEF Request, TokensOf
  <2> QED BY <2>4 DEF TokensOf
<1>4. ASSUME NEW h \in Handler, DropTokens(h)
      PROVE  \/ TokensOf(c)' = {}
             \/ TokensOf(c)' \subseteq TokensOf(c) /\ Granting(c)' \subseteq Granting(c)
  <2>1. CASE task[h].who = c
    BY <1>4, <2>1 DEF DropTokens, LeftTokens, WithoutTokensOf, TokensOf, TypeOK
  <2>2. CASE task[h].who # c
    <3>1. task[h].who \in Client /\ Goto(h, "PutToken")
      BY <1>4 DEF DropTokens, At, TypeOK
    <3>2. task'[h].who # c /\ \A k \in Handler \ {h} : task'[k] = task[k]
      BY <2>2, <3>1, GotoType DEF Steps
    <3>3. TokensOf(c)' \subseteq TokensOf(c)
      BY <1>4 DEF DropTokens, LeftTokens, WithoutTokensOf, TokensOf
    <3> QED BY <3>2, <3>3 DEF Granting
  <2> QED BY <2>1, <2>2
<1>5. ASSUME NEW h \in Handler, NEW t \in Token, PutToken(h, t)
      PROVE  \/ \E k \in Granting(c), s \in Token :
                    /\ TokensOf(c)' = TokensOf(c) \cup {s}
                    /\ Granting(c)' = Granting(c) \ {k}
             \/ TokensOf(c)' \subseteq TokensOf(c) /\ Granting(c)' \subseteq Granting(c)
  <2>1. Granting(c)' = Granting(c) \ {h}
    BY <1>1, <1>5 DEF PutToken, At, Steps
  <2>2. CASE task[h].who = c
    <3>1. h \in Granting(c)
      BY <1>5, <2>2 DEF PutToken, At, Granting
    <3>2. TokensOf(c)' = TokensOf(c) \cup {t}
      BY <1>5, <2>2 DEF PutToken, TokensOf, TypeOK
    <3> QED BY <2>1, <3>1, <3>2
  <2>3. CASE task[h].who # c
    BY <1>5, <2>1, <2>3 DEF PutToken, TokensOf, TypeOK
  <2> QED BY <2>2, <2>3
<1>6. ASSUME NEW h \in Handler,
             RevokeTokens(h) \/ RevokeToken(h)
      PROVE  TokensOf(c)' \subseteq TokensOf(c) /\ Granting(c)' \subseteq Granting(c)
  <2>1. Granting(c)' \subseteq Granting(c)
    BY <1>1, <1>6 DEF RevokeTokens, RevokeToken, At, Steps
  <2>2. TokensOf(c)' \subseteq TokensOf(c)
    BY <1>6 DEF RevokeTokens, RevokeToken, WithoutTokensOf, TokensOf, TypeOK
  <2> QED BY <2>1, <2>2
<1>7. ASSUME NEW h \in Handler,
             Register(h) \/ AddWaiting(h) \/ PutWaiting(h) \/ Allow(h) \/ AllowNobody(h)
                 \/ PutAllowed(h) \/ AllowEnd(h)
      PROVE  TokensOf(c)' = TokensOf(c) /\ Granting(c)' \subseteq Granting(c)
  BY <1>1, <1>2, <1>7
  DEF Register, AddWaiting, PutWaiting, Allow, AllowNobody, PutAllowed, AllowEnd, At, Steps,
      TokensOf
<1>8. ASSUME NEW h \in Handler,
             Revoke(h) \/ DropAllowed(h) \/ RevokeSaved(h) \/ RevokeData(h) \/ Hello(h)
                 \/ Auth(h) \/ Store(h) \/ Goodbye(h)
      PROVE  TokensOf(c)' = TokensOf(c) /\ Granting(c)' \subseteq Granting(c)
  BY <1>1, <1>8
  DEF Revoke, DropAllowed, NextSave, RevokeSaved, RevokeData, Hello, Auth, Store, Goodbye,
      At, Steps, TokensOf
<1>9. ASSUME NEW h \in Handler, NEW step \in {"AllowOpen", "RevokeOpen"}, SaveOpen(h, step)
      PROVE  TokensOf(c)' = TokensOf(c) /\ Granting(c)' \subseteq Granting(c)
  <2>1. task'[h].pc = AfterOpen[step] /\ \A k \in Handler \ {h} : task'[k] = task[k]
    BY <1>9 DEF SaveOpen, TypeOK, Task
  <2>2. AfterOpen[step] # "PutToken"
    BY DEF AfterOpen
  <2>3. tokens' = tokens
    BY <1>9 DEF SaveOpen
  <2> QED BY <2>1, <2>2, <2>3 DEF Granting, TokensOf
<1>10. ASSUME NEW h \in Handler, NEW step \in {"AllowWrite", "RevokeWrite"},
              NEW d \in Client, SaveWrite(h, step, d)
       PROVE  TokensOf(c)' = TokensOf(c) /\ Granting(c)' \subseteq Granting(c)
  <2>1. /\ task'[h].pc = task[h].pc /\ task'[h].who = task[h].who
        /\ \A k \in Handler \ {h} : task'[k] = task[k]
    BY <1>10 DEF SaveWrite, TypeOK, Task
  <2> QED BY <1>10, <2>1 DEF SaveWrite, Granting, TokensOf
<1>11. CASE Crash
  BY <1>11 DEF Crash, TokensOf, NoTokens
<1>12. CASE Restart \/ UNCHANGED vars
  BY <1>12 DEF Restart, vars, TokensOf, Granting
<1>13. ASSUME NEW h \in Handler, Serve(h)
       PROVE  \/ TokensOf(c)' = {}
              \/ \E k \in Granting(c), t \in Token :
                     /\ TokensOf(c)' = TokensOf(c) \cup {t}
                     /\ Granting(c)' = Granting(c) \ {k}
              \/ TokensOf(c)' \subseteq TokensOf(c) /\ Granting(c)' \subseteq Granting(c)
  BY <1>4, <1>5, <1>6, <1>7, <1>8, <1>9, <1>10, <1>13 DEF Serve
<1>14. ASSUME NEW h \in Handler, Discard(h)
       PROVE  TokensOf(c)' \subseteq TokensOf(c) /\ Granting(c)' \subseteq Granting(c)
  BY <1>14, Discarded DEF TokensOf, Granting
<1> QED BY <1>3, <1>11, <1>12, <1>13, <1>14 DEF Next

LEMMA NextTokensInv == TypeOK /\ TokensInv /\ [Next]_vars => TokensInv'
<1> SUFFICES ASSUME TypeOK, TokensInv, [Next]_vars, NEW c \in Client
             PROVE  Cardinality(TokensOf(c)') + Cardinality(Granting(c)')
                        <= Cardinality(Handler)
  BY DEF TokensInv
<1>1. /\ IsFiniteSet(TokensOf(c)) /\ Cardinality(TokensOf(c)) \in Nat
      /\ IsFiniteSet(Granting(c)) /\ Cardinality(Granting(c)) \in Nat
      /\ Cardinality(TokensOf(c)) + Cardinality(Granting(c)) <= Cardinality(Handler)
      /\ Cardinality(Handler) \in Nat
  BY Finite DEF TokensInv
<1>2. /\ IsFiniteSet(Granting(c)') /\ Cardinality(Granting(c)') \in Nat
      /\ Cardinality(Granting(c)') <= Cardinality(Handler)
  BY AuthorityAssumption, FS_CardinalityType, FS_Subset DEF Granting
<1>3. CASE TokensOf(c)' = {}
  BY <1>1, <1>2, <1>3, FS_EmptySet
<1>4. ASSUME NEW h \in Granting(c), NEW t \in Token,
             TokensOf(c)' = TokensOf(c) \cup {t}, Granting(c)' = Granting(c) \ {h}
      PROVE  Cardinality(TokensOf(c)') + Cardinality(Granting(c)') <= Cardinality(Handler)
  <2>1. /\ IsFiniteSet(TokensOf(c) \cup {t})
        /\ Cardinality(TokensOf(c) \cup {t})
               = IF t \in TokensOf(c) THEN Cardinality(TokensOf(c))
                 ELSE Cardinality(TokensOf(c)) + 1
    BY <1>1, FS_AddElement
  <2>2. /\ Cardinality(TokensOf(c)') \in Nat
        /\ Cardinality(TokensOf(c)') <= Cardinality(TokensOf(c)) + 1
    BY <1>1, <1>4, <2>1, FS_CardinalityType
  <2>3. Cardinality(Granting(c)') = Cardinality(Granting(c)) - 1
    BY <1>1, <1>4, FS_RemoveElement
  <2> QED BY <1>1, <2>2, <2>3
<1>5. CASE TokensOf(c)' \subseteq TokensOf(c) /\ Granting(c)' \subseteq Granting(c)
  <2>1. /\ Cardinality(TokensOf(c)') <= Cardinality(TokensOf(c))
        /\ Cardinality(Granting(c)') <= Cardinality(Granting(c))
        /\ IsFiniteSet(TokensOf(c)')
    BY <1>1, <1>5, FS_Subset
  <2>2. Cardinality(TokensOf(c)') \in Nat
    BY <2>1, FS_CardinalityType
  <2> QED BY <1>1, <1>2, <2>1, <2>2
<1> QED BY <1>3, <1>4, <1>5, NextGranting

\* A client never holds more valid tokens than there are handlers.
THEOREM TokensCorrect == Spec => []TokensBounded
<1>1. TypeOK /\ TokensInv => TokensBounded
  <2> SUFFICES ASSUME TypeOK, TokensInv, NEW c \in Client
               PROVE  Cardinality(TokensOf(c)) <= Cardinality(Handler)
    BY DEF TokensBounded
  <2> QED BY Finite DEF TokensInv
<1>2. Init => TypeOK
  BY InitApproved DEF ApprovedInv
<1> QED BY <1>1, <1>2, InitBounds, NextTypeOK, NextTokensInv, PTL DEF Spec
-----------------------------------------------------------------------------
\* A Register on its way from the waiting list to AllowClient.
Accepting(h, c) == task[h].pc = "Allow" /\ task[h].who = c

AutoInv ==
    AutoAcceptClients => \A c \in waiting : \E h \in Handler : Accepting(h, c)

LEMMA AutoNext == TypeOK /\ AutoInv /\ [Next]_vars => AutoInv'
<1> SUFFICES ASSUME TypeOK, AutoInv, [Next]_vars, AutoAcceptClients,
                    NEW c \in waiting'
             PROVE  \E h \in Handler : Accepting(h, c)'
  BY DEF AutoInv
<1>1. ASSUME NEW h \in Handler, Accepting(h, c), task'[h] = task[h]
      PROVE  \E k \in Handler : Accepting(k, c)'
  BY <1>1 DEF Accepting
<1>2. ASSUME c \in waiting
      PROVE  \E h \in Handler : Accepting(h, c)
  BY <1>2 DEF AutoInv
<1>3. ASSUME NEW h \in Handler, NEW d \in Client, Request(h, d)
      PROVE  \E k \in Handler : Accepting(k, c)'
  <2>1. c \in waiting /\ task[h].pc = "Idle"
    BY <1>3 DEF Request, Call, CallRevoke, At
  <2>2. PICK k \in Handler : Accepting(k, c)
    BY <1>2, <2>1
  <2>3. k # h
    BY <2>1, <2>2 DEF Accepting
  <2>4. task'[k] = task[k]
    BY <1>3, <2>3 DEF Request, Call, CallRevoke, TypeOK
  <2> QED BY <1>1, <2>2, <2>4
<1>4. ASSUME NEW h \in Handler, Serve(h)
      PROVE  \E k \in Handler : Accepting(k, c)'
  <2>1. ASSUME NEW k \in Handler, k # h PROVE task'[k] = task[k]
    BY <1>4, <2>1
    DEF Serve, Register, AddWaiting, PutWaiting, Registered, Allow, AllowNobody, PutAllowed,
        AllowEnd, SaveOpen, SaveWrite, Revoke, DropAllowed, RevokeSaved, RevokeTokens,
        RevokeData, Hello, DropTokens, PutToken, Auth, Store, Goodbye, RevokeToken, Goto,
        Return, TypeOK
  <2>2. CASE PutWaiting(h) /\ task[h].who = c
    <3>1. task' = [task EXCEPT ![h].pc = "Allow"]
      BY <2>2 DEF PutWaiting, Registered, Goto
    <3>2. Accepting(h, c)'
      BY <2>2, <3>1 DEF Accepting, TypeOK, Task
    <3> QED BY <3>2
  <2>3. CASE ~(PutWaiting(h) /\ task[h].who = c)
    <3>1. c \in waiting
      BY <1>4, <2>3
      DEF Serve, Register, AddWaiting, PutWaiting, Allow, LeftWaiting, AllowNobody, PutAllowed,
          AllowEnd, SaveOpen, SaveWrite, Revoke, DropAllowed, RevokeSaved, RevokeTokens,
          RevokeData, Hello, DropTokens, PutToken, Auth, Store, Goodbye, RevokeToken
    <3>2. PICK k \in Handler : Accepting(k, c)
      BY <1>2, <3>1
    <3>3. k # h
      <4> SUFFICES ASSUME k = h PROVE FALSE
        OBVIOUS
      <4>1. task[h].pc = "Allow" /\ task[h].who = c
        BY <3>2 DEF Accepting
      <4>2. Allow(h) \/ AllowNobody(h)
        BY <1>4, <4>1
        DEF Serve, Register, AddWaiting, PutWaiting, PutAllowed, AllowEnd, SaveOpen, SaveWrite,
            Revoke, DropAllowed, RevokeSaved, RevokeTokens, RevokeData, Hello, DropTokens,
            PutToken, Auth, Store, Goodbye, RevokeToken, At
      <4>3. c \notin waiting' \/ c \notin waiting
        BY <4>1, <4>2 DEF Allow, AllowNobody, LeftWaiting, MayAllow
      <4> QED BY <3>1, <4>3
    <3> QED BY <1>1, <2>1, <3>2, <3>3
  <2> QED BY <2>2, <2>3
<1>5. CASE Crash
  BY <1>5 DEF Crash
<1>6. CASE Restart \/ UNCHANGED vars
  <2>1. c \in waiting /\ task' = task
    BY <1>6 DEF Restart, vars
  <2> QED BY <1>1, <1>2, <2>1
<1>7. ASSUME NEW h \in Handler, Discard(h)
      PROVE  \E k \in Handler : Accepting(k, c)'
  <2>1. c \in waiting /\ task[h].pc = "Store"
    BY <1>7, Discarded
  <2>2. PICK k \in Handler : Accepting(k, c)
    BY <1>2, <2>1
  <2> QED BY <1>1, <1>7, <2>1, <2>2, Discarded DEF Accepting
<1> QED BY <1>3, <1>4, <1>5, <1>6, <1>7 DEF Next

\* With AutoAcceptClients the waiting list is empty whenever no request is
\* being served, for any number of clients and handlers.
THEOREM AutoAccepted == Spec => []NobodyLeftWaiting
<1>1. Init => AutoInv
  BY DEF Init, AutoInv
<1>2. AutoInv => NobodyLeftWaiting
  <2> SUFFICES ASSUME AutoInv, AutoAcceptClients, Quiet, NEW c \in waiting PROVE FALSE
    BY DEF NobodyLeftWaiting
  <2>1. PICK h \in Handler : Accepting(h, c)
    BY DEF AutoInv
  <2> QED BY <2>1 DEF Quiet, Accepting, Idle
<1> QED BY <1>1, <1>2, AutoNext, TypeCorrect, PTL DEF Spec

-----------------------------------------------------------------------------
(* What a request and a handler's moves do to its program counter.         *)

Calls == {"Register", "Allow", "Hello", "Auth", "Goodbye", "Revoke"}

LEMMA Requested ==
    ASSUME TypeOK, NEW h \in Handler, NEW c \in Client, Request(h, c)
    PROVE  /\ task'[h].pc \in Calls
           /\ up /\ task[h].pc = "Idle"
           /\ \A k \in Handler \ {h} : task'[k] = task[k]
           /\ UNCHANGED <<up, waiting, allowed, tokens, remote, file>>
           /\ \A d \in Client : verdict'[d] = "revoked" => verdict[d] = "revoked"
<1>1. ASSUME NEW step \in Calls, NEW t \in Token \cup {NoToken},
             task' = [task EXCEPT ![h] = Serving(step, c, t)]
      PROVE  task'[h].pc \in Calls /\ \A k \in Handler \ {h} : task'[k] = task[k]
  <2>1. step \in Steps
    BY DEF Calls, Steps
  <2> QED BY <1>1, <2>1, CallType
<1>2. ASSUME NEW step \in Calls, NEW t \in Token \cup {NoToken}, Call(h, step, c, t)
      PROVE  /\ task'[h].pc \in Calls
             /\ up /\ task[h].pc = "Idle"
             /\ \A k \in Handler \ {h} : task'[k] = task[k]
             /\ UNCHANGED <<up, waiting, allowed, tokens, remote, file, verdict>>
  BY <1>1, <1>2 DEF Call, At
<1>3. ASSUME CallRevoke(h, c)
      PROVE  /\ task'[h].pc \in Calls
             /\ up /\ task[h].pc = "Idle"
             /\ \A k \in Handler \ {h} : task'[k] = task[k]
             /\ UNCHANGED <<up, waiting, allowed, tokens, remote, file>>
             /\ \A d \in Client : verdict'[d] = "revoked" => verdict[d] = "revoked"
  BY <1>1, <1>3 DEF CallRevoke, At, Calls, Decide, TypeOK
<1> QED BY <1>2, <1>3 DEF Request, Calls, TokensOf

LEMMA Moved ==
    ASSUME TypeOK, NEW h \in Handler, task[h].pc # "Idle"
    PROVE  /\ task[h].who \in Client
           /\ \A step \in Steps :
                 Goto(h, step) => task'[h].pc = step /\ task'[h].who = task[h].who
           /\ Return(h) => task'[h].pc = "Idle"
           /\ Registered(h) => task'[h].pc \in {"Allow", "Idle"}
<1>1. task[h].who \in Client
  BY DEF TypeOK
<1>2. ASSUME NEW step \in Steps, Goto(h, step)
      PROVE  task'[h].pc = step /\ task'[h].who = task[h].who
  BY <1>1, <1>2, GotoType
<1>3. Return(h) => task'[h].pc = "Idle"
  BY ReturnType
<1>4. "Allow" \in Steps
  BY DEF Steps
<1> QED BY <1>1, <1>2, <1>3, <1>4 DEF Registered

\* A handler's step leaves the others where they are.
LEMMA Elsewhere ==
    ASSUME TypeOK, NEW h \in Handler, Serve(h)
    PROVE  up /\ up' = up /\ \A k \in Handler \ {h} : task'[k] = task[k]
<1>1. up /\ up' = up
  BY DEF Serve, Register, AddWaiting, PutWaiting, Allow, AllowNobody, PutAllowed, AllowEnd,
      SaveOpen, SaveWrite, Revoke, DropAllowed, RevokeSaved, RevokeTokens, RevokeData,
      Hello, DropTokens, PutToken, Auth, Store, Goodbye, RevokeToken, At
<1>2. \A k \in Handler \ {h} : task'[k] = task[k]
  BY DEF Serve, Register, AddWaiting, PutWaiting, Registered, Allow, AllowNobody, PutAllowed,
      AllowEnd, SaveOpen, SaveWrite, Revoke, DropAllowed, RevokeSaved, RevokeTokens,
      RevokeData, Hello, DropTokens, PutToken, Auth, Store, Goodbye, RevokeToken,
      Goto, Return, TypeOK
<1> QED BY <1>1, <1>2

LEMMA Saves ==
    ASSUME TypeOK, NEW h \in Handler, NEW step \in {"AllowOpen", "RevokeOpen"},
           SaveOpen(h, step)
    PROVE  /\ task[h].pc = step /\ file' = EmptyFile /\ Listed' = {}
           /\ UNCHANGED <<up, waiting, allowed, tokens, remote, verdict>>
           /\ task'[h].pc = IF step = "AllowOpen" THEN "AllowWrite" ELSE "RevokeWrite"
           /\ task'[h].who = task[h].who
           /\ task'[h].todo = allowed /\ task'[h].wrote = {}
<1>1. AfterOpen[step] = IF step = "AllowOpen" THEN "AllowWrite" ELSE "RevokeWrite"
  BY DEF AfterOpen
<1>2. file' = EmptyFile
  BY DEF SaveOpen
<1>3. Listed' = {}
  BY <1>2 DEF Listed, EmptyFile
<1> QED BY <1>1, <1>2, <1>3 DEF SaveOpen, At, TypeOK, Task

LEMMA Writes ==
    ASSUME TypeOK, NEW h \in Handler, NEW step \in {"AllowWrite", "RevokeWrite"},
           NEW c \in Client, SaveWrite(h, step, c)
    PROVE  /\ task[h].pc = step /\ c \in allowed \ task[h].wrote
           /\ file' = [file EXCEPT ![Offset(h)] = c]
           /\ Listed' \subseteq Listed \cup {c}
           /\ UNCHANGED <<up, waiting, allowed, tokens, remote, verdict>>
           /\ task'[h].pc = step /\ task'[h].who = task[h].who
           /\ task'[h].todo = task[h].todo /\ task'[h].wrote = task[h].wrote \cup {c}
<1>1. file' = [file EXCEPT ![Offset(h)] = c] /\ file \in [Line -> Client \cup {NoClient}]
  BY DEF SaveWrite, TypeOK
<1>2. Listed' \subseteq Listed \cup {c}
  BY <1>1 DEF Listed
<1> QED BY <1>1, <1>2 DEF SaveWrite, At, TypeOK, Task

\* A process that does not run has nothing but its file.
StoppedInv ==
    ~up => /\ waiting = {} /\ allowed = {} /\ remote = {} /\ tokens = NoTokens
           /\ \A h \in Handler : task[h] = Idle

LEMMA NextStopped == TypeOK /\ StoppedInv /\ [Next]_vars => StoppedInv'
<1> SUFFICES ASSUME TypeOK, StoppedInv, [Next]_vars PROVE StoppedInv'
  OBVIOUS
<1>1. ASSUME NEW h \in Handler, NEW c \in Client, Request(h, c) PROVE up'
  BY <1>1, Requested
<1>2. ASSUME NEW h \in Handler, Serve(h) \/ Discard(h) PROVE up'
  BY <1>2, Elsewhere, Discarded
<1>3. CASE Crash
  BY <1>3 DEF Crash, StoppedInv
<1>4. CASE Restart
  BY <1>4 DEF Restart, StoppedInv
<1>5. CASE UNCHANGED vars
  BY <1>5 DEF vars, StoppedInv
<1> QED BY <1>1, <1>2, <1>3, <1>4, <1>5 DEF Next, StoppedInv

\* A crash or a restart: nobody is served, and nobody holds anything.
LEMMA Stopped ==
    ASSUME TypeOK, StoppedInv, Crash \/ Restart
    PROVE  /\ \A h \in Handler : task'[h].pc = "Idle"
           /\ remote' = {} /\ waiting' = {} /\ \A c \in Client : TokensOf(c)' = {}
           /\ allowed' = {} \/ allowed' = Listed
           /\ up' => allowed' = Listed
           /\ Listed' = Listed /\ UNCHANGED <<file, verdict>>
<1>1. /\ \A h \in Handler : task'[h] = Idle
      /\ remote' = {} /\ waiting' = {} /\ tokens' = NoTokens
      /\ allowed' = {} \/ allowed' = Listed
      /\ up' => allowed' = Listed
      /\ UNCHANGED <<file, verdict>>
  BY DEF Crash, Restart, StoppedInv, Loaded
<1>2. \A c \in Client : TokensOf(c)' = {}
  BY <1>1, AuthorityAssumption DEF TokensOf, NoTokens
<1> QED BY <1>1, <1>2 DEF Idle, Listed

-----------------------------------------------------------------------------
(***************************************************************************)
(* While one SaveAllowedList at a time is writing, the file is the allowed *)
(* list, though approvals and revocations change the list meanwhile: a     *)
(* change is always followed by a save of its own, begun later.            *)
(***************************************************************************)
Opening == {"AllowOpen", "RevokeOpen"}
Writing == {"AllowWrite", "RevokeWrite"}

\* What a handler has written so far is what the file holds, on its first lines.
Half(h) ==
    /\ task[h].todo = allowed
    /\ task[h].wrote \subseteq allowed
    /\ Listed = task[h].wrote
    /\ \A n \in Line : n > Cardinality(task[h].wrote) => file[n] = NoClient

\* Unless a save is about to begin, the file is the allowed list, or the part of
\* it that the last save has written.
FileInv ==
    up /\ (\A h \in Handler : task[h].pc \notin Opening) =>
        /\ (\A h \in Handler : task[h].pc \notin Writing) => Listed = allowed
        /\ \A h \in Handler : task[h].pc \in Writing => Half(h)

LEMMA NextHalf ==
    ASSUME TypeOK, NEW h \in Handler, NEW step \in Writing, NEW c \in Client,
           SaveWrite(h, step, c), Half(h)
    PROVE  Half(h)'
<1>0. step \in {"AllowWrite", "RevokeWrite"}
  BY DEF Writing
<1>1. task[h].wrote \in SUBSET Client /\ IsFiniteSet(task[h].wrote)
  BY AuthorityAssumption, FS_Subset DEF TypeOK, Task
<1>2. /\ c \notin task[h].wrote /\ file' = [file EXCEPT ![Offset(h)] = c]
      /\ c \in allowed /\ allowed' = allowed
      /\ task'[h].todo = task[h].todo /\ task'[h].wrote = task[h].wrote \cup {c}
  BY <1>0, Writes
<1>3. /\ Cardinality(task[h].wrote \cup {c}) = Cardinality(task[h].wrote) + 1
      /\ Cardinality(task[h].wrote) \in Nat
  BY <1>1, <1>2, FS_AddElement, FS_CardinalityType
<1>4. Offset(h) \in Line /\ file[Offset(h)] = NoClient
  BY <1>2, <1>3, OffsetType DEF Half, Offset
<1>5. Listed' = Listed \cup {c}
  BY <1>2, <1>4, AuthorityAssumption DEF Listed, TypeOK
<1>6. \A n \in Line : n > Cardinality(task[h].wrote) + 1 => file'[n] = NoClient
  BY <1>2, <1>3 DEF Half, Offset, TypeOK, Line
<1>7. \A n \in Line : n > Cardinality(task'[h].wrote) => file'[n] = NoClient
  BY <1>2, <1>3, <1>6
<1> QED BY <1>2, <1>5, <1>7 DEF Half

\* The end of a save.
LEMMA Ended ==
    ASSUME TypeOK, FileInv, WritesApart, NEW h \in Handler, AllowEnd(h) \/ RevokeSaved(h),
           \A k \in Handler : task[k].pc \notin Opening
    PROVE  Listed = allowed /\ \A k \in Handler \ {h} : task[k].pc \notin Writing
<1>1. up /\ task[h].pc \in Writing /\ Saved(h)
  BY DEF AllowEnd, RevokeSaved, At, Writing
<1>2. Half(h)
  BY <1>1 DEF FileInv
<1>3. Listed = allowed
  BY <1>1, <1>2 DEF Half, Saved
<1>4. \A k \in Handler : task[k].pc \in Writing => k = h
  BY <1>1 DEF WritesApart, Writing
<1> QED BY <1>3, <1>4

LEMMA NextFile ==
    ASSUME TypeOK, StoppedInv, FileInv, WritesApart, WritesApart', [Next]_vars
    PROVE  FileInv'
<1> DEFINE Still(h) == \A k \in Handler \ {h} : task'[k] = task[k]
\* A handler that is not in a save, and does not begin one.
<1>1. ASSUME NEW h \in Handler, Still(h), up, UNCHANGED <<allowed, file>>,
             task[h].pc \notin Opening \cup Writing, task'[h].pc \notin Opening \cup Writing
      PROVE  FileInv'
  <2>1. ASSUME \A k \in Handler : task'[k].pc \notin Opening
        PROVE  \A k \in Handler : task[k].pc \notin Opening
    BY <1>1, <2>1
  <2>2. ASSUME \A k \in Handler : task'[k].pc \notin Writing
        PROVE  \A k \in Handler : task[k].pc \notin Writing
    BY <1>1, <2>2
  <2>3. \A k \in Handler : task'[k].pc \in Writing => task[k].pc \in Writing /\ task'[k] = task[k]
    BY <1>1
  <2>4. Listed' = Listed
    BY <1>1 DEF Listed
  <2>5. ASSUME NEW k \in Handler, Half(k), task'[k] = task[k] PROVE Half(k)'
    BY <1>1, <2>4, <2>5 DEF Half
  <2> QED BY <1>1, <2>1, <2>2, <2>3, <2>4, <2>5 DEF FileInv
<1>2. ASSUME NEW h \in Handler, task'[h].pc \in Opening PROVE FileInv'
  BY <1>2 DEF FileInv
<1>3. ASSUME NEW h \in Handler, NEW c \in Client, Request(h, c) PROVE FileInv'
  <2>1. /\ Still(h) /\ up /\ UNCHANGED <<allowed, file>>
        /\ task[h].pc = "Idle" /\ task'[h].pc \in Calls
    BY <1>3, Requested
  <2> QED BY <1>1, <2>1 DEF Calls, Opening, Writing
<1>4. ASSUME NEW h \in Handler, Serve(h) PROVE FileInv'
  <2>0. Still(h) /\ up /\ up'
    BY <1>4, Elsewhere
  <2>1. CASE Register(h) \/ AddWaiting(h) \/ PutWaiting(h) \/ Allow(h) \/ AllowNobody(h)
    BY <1>1, <2>0, <2>1, Moved
    DEF Register, AddWaiting, PutWaiting, Allow, AllowNobody, At, Steps, Opening, Writing
  <2>2. CASE PutAllowed(h)
    BY <1>2, <2>2, Moved DEF PutAllowed, At, Steps, Opening
  <2>3. ASSUME NEW step \in {"AllowOpen", "RevokeOpen"}, SaveOpen(h, step)
        PROVE  FileInv'
    <3>1. task'[h].pc \in Writing
      BY <2>3, Saves DEF Writing
    <3>2. \A k \in Handler : task'[k].pc \in Writing => k = h
      BY <3>1 DEF WritesApart, Writing
    <3>3. Half(h)'
      BY <2>3, Saves DEF Half, EmptyFile
    <3> QED BY <3>1, <3>2, <3>3 DEF FileInv
  <2>4. ASSUME NEW step \in {"AllowWrite", "RevokeWrite"}, NEW c \in Client,
               SaveWrite(h, step, c)
        PROVE  FileInv'
    <3>1. task[h].pc \in Writing /\ task'[h].pc \in Writing /\ step \in Writing
      BY <2>4, Writes DEF Writing
    <3>2. \A k \in Handler : task'[k].pc \in Writing => k = h
      BY <3>1 DEF WritesApart, Writing
    <3>3. task[h].pc \notin Opening
      BY <3>1 DEF Opening, Writing
    <3>4. ASSUME \A k \in Handler : task'[k].pc \notin Opening
          PROVE  Half(h)
      BY <2>0, <3>1, <3>3, <3>4 DEF FileInv
    <3>5. Half(h) => Half(h)'
      BY <2>4, <3>1, NextHalf
    <3> QED BY <3>1, <3>2, <3>4, <3>5 DEF FileInv
  <2>5. CASE AllowEnd(h) \/ RevokeSaved(h)
    <3>1. /\ UNCHANGED <<allowed, file>> /\ task[h].pc \in Writing
          /\ task'[h].pc \notin Opening \cup Writing
      BY <2>5, Moved DEF AllowEnd, RevokeSaved, At, Steps, Opening, Writing
    <3>2. ASSUME \A k \in Handler : task'[k].pc \notin Opening
          PROVE  Listed' = allowed' /\ \A k \in Handler : task'[k].pc \notin Writing
      <4>1. \A k \in Handler : task[k].pc \notin Opening
        BY <2>0, <3>1, <3>2 DEF Opening, Writing
      <4>2. Listed = allowed /\ \A k \in Handler \ {h} : task[k].pc \notin Writing
        BY <2>5, <4>1, Ended
      <4> QED BY <2>0, <3>1, <4>2 DEF Listed
    <3> QED BY <3>2 DEF FileInv
  <2>6. CASE DropAllowed(h)
    <3>1. CASE task[h].who \in allowed
      BY <1>2, <2>6, <3>1, Moved DEF DropAllowed, NextSave, At, Steps, Opening
    <3>2. CASE task[h].who \notin allowed
      <4>1. task[h].pc = "DropAllowed" /\ task'[h].pc = "RevokeTokens"
        BY <2>6, <3>2, Moved DEF DropAllowed, NextSave, At, Steps
      <4>2. UNCHANGED <<allowed, file>>
        BY <2>6, <3>2 DEF DropAllowed
      <4> QED BY <1>1, <2>0, <4>1, <4>2 DEF Opening, Writing
    <3> QED BY <3>1, <3>2
  <2>7. CASE Revoke(h) \/ RevokeTokens(h) \/ RevokeData(h)
    BY <1>1, <2>0, <2>7, Moved
    DEF Revoke, RevokeTokens, RevokeData, At, Steps, Opening, Writing
  <2>8. CASE Hello(h) \/ DropTokens(h) \/ Auth(h) \/ Store(h) \/ Goodbye(h) \/ RevokeToken(h)
             \/ \E t \in Token : PutToken(h, t)
    BY <1>1, <2>0, <2>8, Moved
    DEF Hello, DropTokens, Auth, Store, Goodbye, RevokeToken, PutToken, At, Steps, Opening,
        Writing
  <2> QED BY <1>4, <2>1, <2>2, <2>3, <2>4, <2>5, <2>6, <2>7, <2>8 DEF Serve
<1>5. ASSUME NEW h \in Handler, Discard(h) PROVE FileInv'
  BY <1>1, <1>5, Discarded DEF Opening, Writing
<1>6. CASE Crash \/ Restart
  BY <1>6, Stopped DEF FileInv, Writing
<1>7. CASE UNCHANGED vars
  <2>1. Listed' = Listed
    BY <1>7 DEF vars, Listed
  <2> QED BY <1>7, <2>1 DEF vars, FileInv, Half
<1> QED BY <1>3, <1>4, <1>5, <1>6, <1>7 DEF Next

\* What holds when the process starts for the first time.
LEMMA Beginning ==
    ASSUME Init
    PROVE  /\ TypeOK /\ StoppedInv
           /\ up /\ waiting = {} /\ allowed = {} /\ remote = {} /\ Listed = {}
           /\ \A c \in Client : TokensOf(c) = {} /\ verdict[c] = "never"
           /\ \A h \in Handler : task[h].pc = "Idle"
<1>1. Listed = {} /\ \A c \in Client : TokensOf(c) = {}
  BY AuthorityAssumption DEF Init, Listed, EmptyFile, TokensOf, NoTokens
<1>2. TypeOK
  BY InitApproved DEF ApprovedInv
<1> QED BY <1>1, <1>2 DEF Init, StoppedInv, Idle

\* While one save at a time is writing, the allowed clients file is the allowed
\* list whenever no request is served: after any approvals and revocations, in
\* the middle of which others begin, and after a crash at any point of a save,
\* when the list becomes what the file was left with.
THEOREM FileCorrect == Spec /\ []WritesApart => []FileIsAllowed
<1> DEFINE Inv == TypeOK /\ StoppedInv /\ FileInv
<1>1. Init => Inv
  BY Beginning DEF FileInv, Writing
<1>2. Inv /\ WritesApart /\ WritesApart' /\ [Next]_vars => Inv'
  BY NextTypeOK, NextStopped, NextFile
<1>3. Inv => FileIsAllowed
  BY DEF FileInv, FileIsAllowed, Quiet, Idle, Opening, Writing
<1> QED BY <1>1, <1>2, <1>3, PTL DEF Spec

-----------------------------------------------------------------------------
(***************************************************************************)
(* While no Hello or Update of a client is past its check when the client  *)
(* is revoked, and clients push wigos under their own uuids only.          *)
(***************************************************************************)

\* Steps of a revocation before the tokens are revoked.
Undone == {"RevokeOpen", "RevokeWrite", "RevokeTokens"}

PastCheckAllowed == \A h \in Handler : task[h].pc \in PastCheck => task[h].who \in allowed

\* Tokens and data belong to allowed clients, but for the client of a revocation
\* under way.
TokensHeld ==
    \A c \in Client :
        TokensOf(c) # {} =>
            c \in allowed \/ \E h \in Handler : task[h].pc \in Undone /\ task[h].who = c
DataHeld ==
    \A c \in remote :
        c \in allowed \/ \E h \in Handler : task[h].pc \in Dropped /\ task[h].who = c

HeldInv == PastCheckAllowed /\ TokensHeld /\ DataHeld

\* A step of a handler that lets nobody in, takes nobody off the allowed list
\* and does not advance a revocation.
LEMMA HeldStill ==
    ASSUME TypeOK, HeldInv, NEW h \in Handler,
           \A k \in Handler \ {h} : task'[k] = task[k],
           allowed \subseteq allowed', remote' \subseteq remote,
           \A c \in Client : TokensOf(c)' \subseteq TokensOf(c),
           task[h].pc \notin Dropped,
           task'[h].pc \in PastCheck => task'[h].who \in allowed
    PROVE  HeldInv'
<1>1. \A k \in Handler : task[k].pc \in Dropped => task'[k] = task[k]
  OBVIOUS
<1>2. Undone \subseteq Dropped
  BY DEF Undone, Dropped
<1>3. PastCheckAllowed'
  BY DEF HeldInv, PastCheckAllowed
<1>4. TokensHeld'
  BY <1>1, <1>2 DEF HeldInv, TokensHeld
<1>5. DataHeld'
  BY <1>1 DEF HeldInv, DataHeld
<1> QED BY <1>3, <1>4, <1>5 DEF HeldInv

LEMMA NextHeld ==
    ASSUME OwnUuids, TypeOK, StoppedInv, HeldInv, RevocationsUncrossed',
           [Next]_vars
    PROVE  HeldInv'
<1> DEFINE Still(h) == \A k \in Handler \ {h} : task'[k] = task[k]
<1>1. ASSUME NEW h \in Handler, Still(h), UNCHANGED <<allowed, tokens, remote>>,
             task[h].pc \notin Dropped, task'[h].pc \in PastCheck => task'[h].who \in allowed
      PROVE  HeldInv'
  BY <1>1, HeldStill DEF TokensOf
<1>2. ASSUME NEW h \in Handler, Still(h), UNCHANGED <<allowed, tokens, remote>>,
             task[h].pc \notin Dropped, task'[h].pc \notin PastCheck
      PROVE  HeldInv'
  BY <1>1, <1>2
<1>3. ASSUME NEW h \in Handler, NEW c \in Client, Request(h, c) PROVE HeldInv'
  <2>1. /\ Still(h) /\ UNCHANGED <<allowed, tokens, remote>>
        /\ task[h].pc = "Idle" /\ task'[h].pc \in Calls
    BY <1>3, Requested
  <2> QED BY <1>2, <2>1 DEF Calls, Dropped, PastCheck
<1>4. ASSUME NEW h \in Handler, Serve(h) PROVE HeldInv'
  <2> DEFINE who == task[h].who
  <2>0. Still(h)
    BY <1>4, Elsewhere
  <2>1. CASE Register(h) \/ AddWaiting(h) \/ PutWaiting(h) \/ Allow(h) \/ AllowNobody(h)
             \/ AllowEnd(h) \/ Revoke(h) \/ Goodbye(h)
    BY <1>2, <2>0, <2>1, Moved
    DEF Register, AddWaiting, PutWaiting, Allow, AllowNobody, AllowEnd, Revoke, Goodbye, At,
        Steps, Dropped, PastCheck
  <2>2. CASE PutAllowed(h)
    <3>1. /\ task[h].pc = "PutAllowed" /\ task'[h].pc = "AllowOpen"
          /\ allowed \subseteq allowed' /\ UNCHANGED <<tokens, remote>>
      BY <2>2, Moved DEF PutAllowed, At, Steps
    <3> QED BY <2>0, <3>1, HeldStill DEF TokensOf, Dropped, PastCheck
  <2>3. ASSUME task'[h].who = who, UNCHANGED <<allowed, tokens, remote>>,
               task[h].pc \in Undone => task'[h].pc \in Undone,
               task[h].pc \in Dropped => task'[h].pc \in Dropped,
               task'[h].pc \notin PastCheck
        PROVE  HeldInv'
    <3>1. \A k \in Handler : /\ task[k].pc \in Undone => task'[k].pc \in Undone
                             /\ task[k].pc \in Dropped => task'[k].pc \in Dropped
                             /\ task'[k].who = task[k].who
      BY <2>0, <2>3
    <3>2. PastCheckAllowed'
      BY <2>0, <2>3 DEF HeldInv, PastCheckAllowed
    <3>3. TokensHeld'
      BY <2>3, <3>1 DEF HeldInv, TokensHeld, TokensOf
    <3>4. DataHeld'
      BY <2>3, <3>1 DEF HeldInv, DataHeld
    <3> QED BY <3>2, <3>3, <3>4 DEF HeldInv
  <2>4. ASSUME NEW step \in {"AllowOpen", "RevokeOpen"}, SaveOpen(h, step)
        PROVE  HeldInv'
    <3>1. /\ task'[h].who = who /\ UNCHANGED <<allowed, tokens, remote>>
          /\ \/ task[h].pc = "AllowOpen" /\ task'[h].pc = "AllowWrite"
             \/ task[h].pc = "RevokeOpen" /\ task'[h].pc = "RevokeWrite"
      BY <2>4, Saves
    <3> QED BY <2>3, <3>1 DEF Undone, Dropped, PastCheck
  <2>5. ASSUME NEW step \in {"AllowWrite", "RevokeWrite"}, NEW c \in Client,
               SaveWrite(h, step, c)
        PROVE  HeldInv'
    <3>1. /\ task'[h].who = who /\ UNCHANGED <<allowed, tokens, remote>>
          /\ task[h].pc = step /\ task'[h].pc = step
      BY <2>5, Writes
    <3> QED BY <2>3, <3>1 DEF Undone, Dropped, PastCheck
  <2>6. CASE RevokeSaved(h)
    <3>1. /\ task[h].pc = "RevokeWrite" /\ task'[h].pc = "RevokeTokens"
          /\ task'[h].who = who /\ UNCHANGED <<allowed, tokens, remote>>
      BY <2>6, Moved DEF RevokeSaved, At, Steps
    <3> QED BY <2>3, <3>1 DEF Undone, Dropped, PastCheck
  <2>7. CASE DropAllowed(h)
    <3>1. /\ task[h].pc = "DropAllowed" /\ task'[h].pc \in {"RevokeOpen", "RevokeTokens"}
          /\ task'[h].who = who /\ allowed' = allowed \ {who}
          /\ UNCHANGED <<tokens, remote>>
      BY <2>7, Moved DEF DropAllowed, NextSave, At, Steps
    <3>2. task'[h].pc \in Undone /\ task'[h].pc \in Dropped /\ task'[h].pc \notin PastCheck
      BY <3>1 DEF Undone, Dropped, PastCheck
    <3>3. \A k \in Handler : task[k].pc \in Dropped \cup Undone => task'[k] = task[k]
      BY <2>0, <3>1 DEF Undone, Dropped
    <3>4. ASSUME NEW k \in Handler, task'[k].pc \in PastCheck
          PROVE  task'[k].who \in allowed'
      <4>1. k # h /\ task'[k] = task[k]
        BY <2>0, <3>2, <3>4
      <4>2. task'[k].who \in allowed
        BY <3>4, <4>1 DEF HeldInv, PastCheckAllowed
      <4>3. ~Together(k, h, PastCheck, Dropped)'
        BY DEF RevocationsUncrossed
      <4>4. task'[k].who # who
        BY <3>1, <3>2, <3>4, <4>1, <4>3 DEF Together
      <4> QED BY <3>1, <4>2, <4>4
    <3>5. PastCheckAllowed'
      BY <3>4 DEF PastCheckAllowed
    <3>6. TokensHeld'
      BY <3>1, <3>2, <3>3 DEF HeldInv, TokensHeld, TokensOf
    <3>7. DataHeld'
      BY <3>1, <3>2, <3>3 DEF HeldInv, DataHeld
    <3> QED BY <3>5, <3>6, <3>7 DEF HeldInv
  <2>8. CASE RevokeTokens(h)
    <3>1. /\ task[h].pc = "RevokeTokens" /\ task'[h].pc = "RevokeData"
          /\ task'[h].who = who /\ tokens' = WithoutTokensOf(who)
          /\ who \in Client /\ UNCHANGED <<allowed, remote>>
      BY <2>8, Moved DEF RevokeTokens, At, Steps
    <3>2. TokensOf(who)' = {} /\ \A c \in Client : TokensOf(c)' \subseteq TokensOf(c)
      BY <3>1, AuthorityAssumption DEF WithoutTokensOf, TokensOf
    <3>3. /\ \A k \in Handler : task[k].pc \in Dropped => task'[k].pc \in Dropped
          /\ \A k \in Handler \ {h} : task'[k] = task[k]
          /\ \A k \in Handler : task'[k].who = task[k].who
      BY <2>0, <3>1 DEF Dropped
    <3>4. PastCheckAllowed'
      BY <3>1, <3>3 DEF HeldInv, PastCheckAllowed, PastCheck
    <3>5. TokensHeld'
      <4> SUFFICES ASSUME NEW c \in Client, TokensOf(c)' # {}, c \notin allowed
                   PROVE  \E k \in Handler : task'[k].pc \in Undone /\ task'[k].who = c
        BY <3>1 DEF TokensHeld
      <4>1. PICK k \in Handler : task[k].pc \in Undone /\ task[k].who = c
        BY <3>2 DEF HeldInv, TokensHeld
      <4>2. c # who
        <5> SUFFICES ASSUME c = who PROVE FALSE
          OBVIOUS
        <5>1. \A t \in Token : tokens'[t] # who
          BY <3>1, AuthorityAssumption DEF WithoutTokensOf
        <5>2. TokensOf(c)' = {t \in Token : tokens'[t] = who}
          BY DEF TokensOf
        <5> QED BY <5>1, <5>2
      <4>3. k # h
        BY <4>1, <4>2
      <4> QED BY <3>3, <4>1, <4>3
    <3>6. DataHeld'
      BY <3>1, <3>3 DEF HeldInv, DataHeld
    <3> QED BY <3>4, <3>5, <3>6 DEF HeldInv
  <2>9. CASE RevokeData(h)
    <3>1. /\ task[h].pc = "RevokeData" /\ task'[h].pc = "Idle"
          /\ remote' = remote \ {who} /\ UNCHANGED <<allowed, tokens>>
      BY <2>9, Moved DEF RevokeData, WithoutData, At
    <3>2. PastCheckAllowed'
      BY <2>0, <3>1 DEF HeldInv, PastCheckAllowed, PastCheck
    <3>3. TokensHeld'
      <4>1. \A k \in Handler : task[k].pc \in Undone => task'[k] = task[k]
        BY <2>0, <3>1 DEF Undone
      <4> QED BY <3>1, <4>1 DEF HeldInv, TokensHeld, TokensOf
    <3>4. DataHeld'
      BY <2>0, <3>1 DEF HeldInv, DataHeld
    <3> QED BY <3>2, <3>3, <3>4 DEF HeldInv
  <2>10. CASE Hello(h)
    <3>1. /\ task[h].pc = "Hello"
          /\ task'[h].pc = "Idle" \/ (task'[h].pc = "DropTokens" /\ who \in allowed)
          /\ task'[h].pc = "DropTokens" => task'[h].who = who
          /\ UNCHANGED <<allowed, tokens, remote>>
      BY <2>10, Moved DEF Hello, MayEnter, At, Steps
    <3> QED BY <1>1, <2>0, <3>1 DEF Dropped, PastCheck
  <2>11. CASE DropTokens(h)
    <3>1. /\ task[h].pc = "DropTokens" /\ task'[h].pc = "PutToken"
          /\ task'[h].who = who /\ tokens' = WithoutTokensOf(who)
          /\ UNCHANGED <<allowed, remote>>
      BY <2>11, Moved DEF DropTokens, LeftTokens, At, Steps
    <3>2. \A c \in Client : TokensOf(c)' \subseteq TokensOf(c)
      BY <3>1, AuthorityAssumption DEF WithoutTokensOf, TokensOf
    <3>3. who \in allowed
      BY <3>1 DEF HeldInv, PastCheckAllowed, PastCheck
    <3> QED BY <2>0, <3>1, <3>2, <3>3, HeldStill DEF Dropped
  <2>12. ASSUME NEW t \in Token, PutToken(h, t) PROVE HeldInv'
    <3>1. /\ task[h].pc = "PutToken" /\ task'[h].pc = "Idle"
          /\ tokens' = [tokens EXCEPT ![t] = who] /\ UNCHANGED <<allowed, remote>>
      BY <2>12, Moved DEF PutToken, At
    <3>2. \A c \in Client : c = who \/ TokensOf(c)' \subseteq TokensOf(c)
      BY <3>1 DEF TokensOf, TypeOK
    <3>3. who \in allowed
      BY <3>1 DEF HeldInv, PastCheckAllowed, PastCheck
    <3>4. \A k \in Handler : task[k].pc \in Dropped \cup Undone => task'[k] = task[k]
      BY <2>0, <3>1 DEF Undone, Dropped
    <3>5. PastCheckAllowed'
      BY <2>0, <3>1 DEF HeldInv, PastCheckAllowed, PastCheck
    <3>6. TokensHeld'
      BY <3>1, <3>2, <3>3, <3>4 DEF HeldInv, TokensHeld
    <3>7. DataHeld'
      BY <3>1, <3>4 DEF HeldInv, DataHeld
    <3> QED BY <3>5, <3>6, <3>7 DEF HeldInv
  <2>13. CASE Auth(h)
    <3>1. /\ task[h].pc = "Auth" /\ who \in Client
          /\ task'[h].pc = "Idle" \/ (task'[h].pc = "Store" /\ TokensOf(who) # {})
          /\ task'[h].pc = "Store" => task'[h].who = who
          /\ UNCHANGED <<allowed, tokens, remote>>
      BY <2>13, Moved DEF Auth, Valid, At, Steps
    <3>2. ASSUME task'[h].pc = "Store" PROVE who \in allowed
      <4> SUFFICES ASSUME NEW k \in Handler, task[k].pc \in Undone, task[k].who = who
                   PROVE  FALSE
        BY <3>1, <3>2 DEF HeldInv, TokensHeld
      <4>1. k # h
        BY <3>1 DEF Undone
      <4>2. task'[k] = task[k]
        BY <2>0, <4>1
      <4>3. Together(h, k, PastCheck, Dropped)'
        BY <3>1, <3>2, <4>1, <4>2 DEF Together, PastCheck, Dropped, Undone
      <4> QED BY <4>3 DEF RevocationsUncrossed
    <3> QED BY <1>1, <2>0, <3>1, <3>2 DEF Dropped, PastCheck
  <2>14. CASE Store(h)
    <3>1. /\ task[h].pc = "Store" /\ task'[h].pc = "Idle" /\ who \in Client
          /\ UNCHANGED <<allowed, tokens>>
      BY <2>14, Moved DEF Store, At
    <3>2. remote' \subseteq remote \cup {who}
      BY <2>14, <3>1 DEF Store, OwnUuids
    <3>3. who \in allowed
      BY <3>1 DEF HeldInv, PastCheckAllowed, PastCheck
    <3>4. \A k \in Handler : task[k].pc \in Dropped \cup Undone => task'[k] = task[k]
      BY <2>0, <3>1 DEF Undone, Dropped
    <3>5. PastCheckAllowed'
      BY <2>0, <3>1 DEF HeldInv, PastCheckAllowed, PastCheck
    <3>6. TokensHeld'
      BY <3>1, <3>4 DEF HeldInv, TokensHeld, TokensOf
    <3>7. DataHeld'
      BY <3>1, <3>2, <3>3, <3>4 DEF HeldInv, DataHeld
    <3> QED BY <3>5, <3>6, <3>7 DEF HeldInv
  <2>15. CASE RevokeToken(h)
    <3>1. /\ task[h].pc = "RevokeToken" /\ task'[h].pc = "Idle"
          /\ UNCHANGED <<allowed, remote>>
      BY <2>15, Moved DEF RevokeToken, At
    <3>2. \A c \in Client : TokensOf(c)' \subseteq TokensOf(c)
      BY <2>15, AuthorityAssumption DEF RevokeToken, TokensOf, TypeOK
    <3> QED BY <2>0, <3>1, <3>2, HeldStill DEF Dropped, PastCheck
  <2> QED
    BY <1>4, <2>1, <2>2, <2>4, <2>5, <2>6, <2>7, <2>8, <2>9, <2>10, <2>11, <2>12,
       <2>13, <2>14, <2>15
    DEF Serve
<1>5. ASSUME NEW h \in Handler, Discard(h) PROVE HeldInv'
  BY <1>2, <1>5, Discarded DEF Dropped, PastCheck
<1>6. CASE Crash \/ Restart
  BY <1>6, Stopped DEF HeldInv, PastCheckAllowed, TokensHeld, DataHeld, PastCheck
<1>7. CASE UNCHANGED vars
  BY <1>7 DEF vars, HeldInv, PastCheckAllowed, TokensHeld, DataHeld, TokensOf
<1> QED BY <1>3, <1>4, <1>5, <1>6, <1>7 DEF Next

\* While no request of a client is past its check when the client is revoked, a
\* client that is not allowed has neither a token nor data in the registry when
\* no request is served. In between, other requests overlap as they like.
THEOREM RevokedLeavesNothing ==
    ASSUME OwnUuids
    PROVE  Spec /\ []RevocationsUncrossed => []RevokedIsGone
<1> DEFINE Inv == TypeOK /\ StoppedInv /\ HeldInv
<1>1. Init => Inv
  BY Beginning DEF HeldInv, PastCheckAllowed, TokensHeld, DataHeld, PastCheck
<1>2. Inv /\ RevocationsUncrossed' /\ [Next]_vars => Inv'
  BY NextTypeOK, NextStopped, NextHeld
<1>3. Inv => RevokedIsGone
  BY DEF HeldInv, TokensHeld, DataHeld, RevokedIsGone, Quiet, Idle, Undone, Dropped
<1> QED BY <1>1, <1>2, <1>3, PTL DEF Spec

-----------------------------------------------------------------------------
(***************************************************************************)
(* While, besides, a client is not allowed when it is revoked, nor revoked *)
(* twice at a time.                                                        *)
(***************************************************************************)

DroppedNotAllowed == \A h \in Handler : task[h].pc \in Dropped => task[h].who \notin allowed

\* Whoever is about to be let in has not been revoked since it was approved.
ApprovedSince ==
    \A h \in Handler : task[h].pc = "PutAllowed" => verdict[task[h].who] # "revoked"

\* What the file has and the list has not, a revocation is about to remove.
FileAhead ==
    up => \A c \in Listed \ allowed :
              \E h \in Handler : task[h].pc = "RevokeOpen" /\ task[h].who = c

RevokedInv == DroppedNotAllowed /\ ApprovedSince /\ FileAhead /\ RevokedStaysOut

\* Nobody is let in, and nobody's verdict becomes "revoked".
LEMMA OutStill ==
    ASSUME RevokedStaysOut,
           \A c \in Client : verdict'[c] = "revoked" => verdict[c] = "revoked",
           allowed' \subseteq allowed, remote' \subseteq remote,
           \A c \in Client : TokensOf(c)' \subseteq TokensOf(c),
           Listed' \subseteq Listed \cup allowed
    PROVE  RevokedStaysOut'
BY DEF RevokedStaysOut

\* A step of a handler that changes neither the list nor the file.
LEMMA RevokedStill ==
    ASSUME TypeOK, RevokedInv, NEW h \in Handler,
           \A k \in Handler \ {h} : task'[k] = task[k],
           UNCHANGED <<up, allowed, file>>, remote' \subseteq remote,
           \A c \in Client : TokensOf(c)' \subseteq TokensOf(c),
           \A c \in Client : verdict'[c] = "revoked" => verdict[c] = "revoked",
           task[h].pc # "RevokeOpen", task'[h].pc # "PutAllowed",
           task'[h].pc \in Dropped => task'[h].who \notin allowed
    PROVE  RevokedInv'
<1>1. Listed' = Listed
  BY DEF Listed
<1>2. RevokedStaysOut'
  BY <1>1, OutStill DEF RevokedInv
<1>3. DroppedNotAllowed'
  BY DEF RevokedInv, DroppedNotAllowed
<1>4. \A k \in Handler : task'[k].pc = "PutAllowed" => task[k].who \in Client
  BY DEF TypeOK
<1>5. ApprovedSince'
  BY <1>4 DEF RevokedInv, ApprovedSince
<1>6. \A k \in Handler : task[k].pc = "RevokeOpen" => task'[k] = task[k]
  OBVIOUS
<1>7. FileAhead'
  BY <1>1, <1>6 DEF RevokedInv, FileAhead
<1> QED BY <1>2, <1>3, <1>5, <1>7 DEF RevokedInv

LEMMA NextRevoked ==
    ASSUME OwnUuids, TypeOK, StoppedInv, HeldInv, RevokedInv, DecisionsApart, [Next]_vars
    PROVE  RevokedInv'
<1> DEFINE Still(h) == \A k \in Handler \ {h} : task'[k] = task[k]
<1>1. ASSUME NEW h \in Handler, Still(h), UNCHANGED <<up, allowed, tokens, remote, file>>,
             \A c \in Client : verdict'[c] = "revoked" => verdict[c] = "revoked",
             task[h].pc # "RevokeOpen", task'[h].pc \notin Dropped \cup {"PutAllowed"}
      PROVE  RevokedInv'
  BY <1>1, RevokedStill DEF TokensOf
<1>2. ASSUME NEW h \in Handler, NEW c \in Client, Request(h, c) PROVE RevokedInv'
  BY <1>1, <1>2, Requested DEF Calls, Dropped
<1>3. ASSUME NEW h \in Handler, Serve(h) PROVE RevokedInv'
  <2> DEFINE who == task[h].who
  <2>0. Still(h) /\ up /\ up'
    BY <1>3, Elsewhere
  <2>1. CASE Register(h) \/ AddWaiting(h) \/ PutWaiting(h) \/ AllowNobody(h)
             \/ Revoke(h) \/ Hello(h) \/ Auth(h) \/ Goodbye(h)
    BY <1>1, <2>0, <2>1, Moved
    DEF Register, AddWaiting, PutWaiting, AllowNobody, Revoke, Hello, Auth,
        Goodbye, At, Steps, Dropped
  <2>2. CASE Allow(h)
    <3>1. /\ task[h].pc = "Allow" /\ task'[h].pc = "PutAllowed"
          /\ task'[h].who = who /\ who \in Client
          /\ verdict' = [verdict EXCEPT ![who] = "approved"]
          /\ UNCHANGED <<allowed, tokens, remote, file>>
      BY <2>2, Moved DEF Allow, Decide, At, Steps
    <3>2. \A c \in Client : verdict'[c] = "revoked" => verdict[c] = "revoked"
      BY <3>1 DEF TypeOK
    <3>3. RevokedStaysOut'
      BY <3>1, <3>2, OutStill DEF RevokedInv, TokensOf, Listed
    <3>4. DroppedNotAllowed'
      BY <2>0, <3>1 DEF RevokedInv, DroppedNotAllowed, Dropped
    <3>5. verdict'[who] # "revoked"
      BY <3>1 DEF TypeOK
    <3>6. ASSUME NEW k \in Handler, task'[k].pc = "PutAllowed"
          PROVE  verdict'[task'[k].who] # "revoked"
      <4>1. CASE k = h
        BY <3>1, <3>5, <4>1
      <4>2. CASE k # h
        <5>1. task'[k] = task[k] /\ task[k].who \in Client
          BY <2>0, <3>6, <4>2 DEF TypeOK
        <5> QED BY <3>2, <3>6, <5>1 DEF RevokedInv, ApprovedSince
      <4> QED BY <4>1, <4>2
    <3>7. FileAhead'
      BY <2>0, <3>1 DEF RevokedInv, FileAhead, Listed
    <3> QED BY <3>3, <3>4, <3>6, <3>7 DEF RevokedInv, ApprovedSince
  <2>3. CASE PutAllowed(h)
    <3>1. /\ task[h].pc = "PutAllowed" /\ task'[h].pc = "AllowOpen" /\ who \in Client
          /\ allowed' = allowed \cup {who} /\ UNCHANGED <<tokens, remote, file, verdict>>
      BY <2>3, Moved DEF PutAllowed, At, Steps
    <3>2. verdict[who] # "revoked"
      BY <3>1 DEF RevokedInv, ApprovedSince
    <3>3. RevokedStaysOut'
      BY <3>1, <3>2 DEF RevokedInv, RevokedStaysOut, TokensOf, Listed
    <3>4. ASSUME NEW k \in Handler, task'[k].pc \in Dropped
          PROVE  task'[k].who \notin allowed'
      <4>1. k # h /\ task'[k] = task[k]
        BY <2>0, <3>1, <3>4 DEF Dropped
      <4>2. task[k].who \notin allowed
        BY <3>4, <4>1 DEF RevokedInv, DroppedNotAllowed
      <4>3. ~Together(h, k, Dropped \cup {"PutAllowed"}, Dropped \cup {"DropAllowed"})
        BY DEF DecisionsApart
      <4>4. task[k].who # who
        BY <3>1, <3>4, <4>1, <4>3 DEF Together
      <4> QED BY <3>1, <4>1, <4>2, <4>4
    <3>5. ApprovedSince'
      BY <2>0, <3>1 DEF RevokedInv, ApprovedSince
    <3>6. FileAhead'
      BY <2>0, <3>1 DEF RevokedInv, FileAhead, Listed
    <3> QED BY <3>3, <3>4, <3>5, <3>6 DEF RevokedInv, DroppedNotAllowed
  <2>4. CASE AllowEnd(h)
    <3>1. /\ task[h].pc = "AllowWrite" /\ task'[h].pc = "Idle" /\ who \in Client
          /\ verdict' = [verdict EXCEPT ![who] = IF verdict[who] = "approved" THEN "granted"
                                                 ELSE verdict[who]]
          /\ UNCHANGED <<up, allowed, tokens, remote, file>>
      BY <2>4, Moved DEF AllowEnd, Decide, At
    <3>2. \A c \in Client : verdict'[c] = "revoked" => verdict[c] = "revoked"
      BY <3>1 DEF TypeOK
    <3> QED BY <1>1, <2>0, <3>1, <3>2 DEF Dropped
  <2>5. ASSUME NEW step \in {"AllowOpen", "RevokeOpen"}, SaveOpen(h, step)
        PROVE  RevokedInv'
    <3>1. /\ task[h].pc = step
          /\ task'[h].pc = IF step = "AllowOpen" THEN "AllowWrite" ELSE "RevokeWrite"
          /\ task'[h].who = who
          /\ UNCHANGED <<up, allowed, tokens, remote, verdict>> /\ Listed' = {}
      BY <2>5, Saves
    <3>2. RevokedStaysOut'
      BY <3>1, OutStill DEF RevokedInv, TokensOf
    <3>3. task'[h].pc \in Dropped => task[h].pc \in Dropped
      BY <3>1 DEF Dropped
    <3>4. DroppedNotAllowed'
      BY <2>0, <3>1, <3>3 DEF RevokedInv, DroppedNotAllowed
    <3>5. ApprovedSince'
      BY <2>0, <3>1 DEF RevokedInv, ApprovedSince
    <3> QED BY <3>1, <3>2, <3>4, <3>5 DEF RevokedInv, FileAhead
  <2>6. ASSUME NEW step \in {"AllowWrite", "RevokeWrite"}, NEW c \in Client,
               SaveWrite(h, step, c)
        PROVE  RevokedInv'
    <3>1. /\ task[h].pc = step /\ task'[h].pc = step
          /\ task'[h].who = who /\ c \in allowed
          /\ UNCHANGED <<up, allowed, tokens, remote, verdict>>
          /\ Listed' \subseteq Listed \cup {c}
      BY <2>6, Writes
    <3>2. RevokedStaysOut'
      BY <3>1, OutStill DEF RevokedInv, TokensOf
    <3>3. DroppedNotAllowed'
      BY <2>0, <3>1 DEF RevokedInv, DroppedNotAllowed
    <3>4. ApprovedSince'
      BY <2>0, <3>1 DEF RevokedInv, ApprovedSince
    <3>5. \A k \in Handler : task[k].pc = "RevokeOpen" => task'[k] = task[k]
      BY <2>0, <3>1
    <3>6. FileAhead'
      BY <3>1, <3>5 DEF RevokedInv, FileAhead
    <3> QED BY <3>2, <3>3, <3>4, <3>6 DEF RevokedInv
  <2>7. CASE RevokeSaved(h)
    <3>1. /\ task[h].pc = "RevokeWrite" /\ task'[h].pc = "RevokeTokens"
          /\ task'[h].who = who /\ UNCHANGED <<up, allowed, tokens, remote, file, verdict>>
      BY <2>7, Moved DEF RevokeSaved, At, Steps
    <3>2. who \notin allowed
      BY <3>1 DEF RevokedInv, DroppedNotAllowed, Dropped
    <3> QED BY <2>0, <3>1, <3>2, RevokedStill DEF TokensOf
  <2>8. CASE DropAllowed(h)
    <3>1. /\ task[h].pc = "DropAllowed"
          /\ task'[h].pc = IF who \in allowed THEN "RevokeOpen" ELSE "RevokeTokens"
          /\ task'[h].who = who /\ allowed' = allowed \ {who}
          /\ UNCHANGED <<tokens, remote, file, verdict>>
      BY <2>8, Moved DEF DropAllowed, NextSave, At, Steps
    <3>2. RevokedStaysOut'
      BY <3>1, OutStill DEF RevokedInv, TokensOf, Listed
    <3>3. DroppedNotAllowed'
      BY <2>0, <3>1 DEF RevokedInv, DroppedNotAllowed
    <3>4. ApprovedSince'
      BY <2>0, <3>1 DEF RevokedInv, ApprovedSince
    <3>5. \A k \in Handler : task[k].pc = "RevokeOpen" => task'[k] = task[k]
      BY <2>0, <3>1
    <3>6. ASSUME NEW c \in Listed', c \notin allowed'
          PROVE  \E k \in Handler : task'[k].pc = "RevokeOpen" /\ task'[k].who = c
      <4>1. c \in Listed
        BY <3>1 DEF Listed
      <4>2. CASE c \in allowed
        BY <3>1, <3>6, <4>2
      <4>3. CASE c \notin allowed
        BY <2>0, <3>5, <4>1, <4>3 DEF RevokedInv, FileAhead
      <4> QED BY <4>2, <4>3
    <3> QED BY <3>2, <3>3, <3>4, <3>6 DEF RevokedInv, FileAhead
  <2>9. CASE RevokeTokens(h) \/ DropTokens(h) \/ RevokeToken(h)
    <3>1. /\ task[h].pc \in {"RevokeTokens", "DropTokens", "RevokeToken"}
          /\ task'[h].pc = "RevokeData" => task[h].pc = "RevokeTokens" /\ task'[h].who = who
          /\ task'[h].pc \in {"RevokeData", "PutToken", "Idle"}
          /\ UNCHANGED <<up, allowed, remote, file, verdict>>
      BY <2>9, Moved DEF RevokeTokens, DropTokens, RevokeToken, At, Steps
    <3>2. \A c \in Client : TokensOf(c)' \subseteq TokensOf(c)
      BY <2>9, AuthorityAssumption
      DEF RevokeTokens, DropTokens, LeftTokens, RevokeToken, WithoutTokensOf, TokensOf, TypeOK
    <3>3. task[h].pc = "RevokeTokens" => who \notin allowed
      BY DEF RevokedInv, DroppedNotAllowed, Dropped
    <3> QED BY <2>0, <3>1, <3>2, <3>3, RevokedStill DEF Dropped
  <2>10. CASE RevokeData(h)
    <3>1. /\ task[h].pc = "RevokeData" /\ task'[h].pc = "Idle" /\ who \in Client
          /\ remote' = remote \ {who}
          /\ \A c \in Client \ {who} : verdict'[c] = verdict[c]
          /\ UNCHANGED <<up, allowed, tokens, file>>
      BY <2>10, Moved DEF RevokeData, WithoutData, Decide, At, TypeOK
    <3>2. ASSUME NEW k \in Handler, task[k].pc \in Dropped, task[k].who = who
          PROVE  k = h
      <4>1. ~Together(k, h, Dropped \cup {"PutAllowed"}, Dropped \cup {"DropAllowed"})
        BY DEF DecisionsApart
      <4> QED BY <3>1, <3>2, <4>1 DEF Together, Dropped
    <3>3. who \notin allowed
      BY <3>1 DEF RevokedInv, DroppedNotAllowed, Dropped
    <3>4. TokensOf(who) = {}
      BY <3>1, <3>2, <3>3 DEF HeldInv, TokensHeld, Undone, Dropped
    <3>5. who \notin Listed
      BY <2>0, <3>1, <3>2, <3>3 DEF RevokedInv, FileAhead, Dropped
    <3>6. RevokedStaysOut'
      BY <3>1, <3>3, <3>4, <3>5 DEF RevokedInv, RevokedStaysOut, TokensOf, Listed
    <3>7. DroppedNotAllowed'
      BY <2>0, <3>1 DEF RevokedInv, DroppedNotAllowed, Dropped
    <3>8. ASSUME NEW k \in Handler, task'[k].pc = "PutAllowed"
          PROVE  verdict'[task'[k].who] # "revoked"
      <4>1. k # h /\ task'[k] = task[k] /\ task[k].who \in Client
        BY <2>0, <3>1, <3>8 DEF TypeOK
      <4>2. ~Together(k, h, Dropped \cup {"PutAllowed"}, Dropped \cup {"DropAllowed"})
        BY DEF DecisionsApart
      <4>3. task[k].who # who
        BY <3>1, <3>8, <4>1, <4>2 DEF Together, Dropped
      <4> QED BY <3>1, <3>8, <4>1, <4>3 DEF RevokedInv, ApprovedSince
    <3>9. FileAhead'
      BY <2>0, <3>1 DEF RevokedInv, FileAhead, Listed
    <3> QED BY <3>6, <3>7, <3>8, <3>9 DEF RevokedInv, ApprovedSince
  <2>11. ASSUME NEW t \in Token, PutToken(h, t) PROVE RevokedInv'
    <3>1. /\ task[h].pc = "PutToken" /\ task'[h].pc = "Idle" /\ who \in Client
          /\ tokens' = [tokens EXCEPT ![t] = who]
          /\ UNCHANGED <<allowed, remote, file, verdict>>
      BY <2>11, Moved DEF PutToken, At
    <3>2. \A c \in Client : c = who \/ TokensOf(c)' \subseteq TokensOf(c)
      BY <3>1 DEF TokensOf, TypeOK
    <3>3. who \in allowed
      BY <3>1 DEF HeldInv, PastCheckAllowed, PastCheck
    <3>4. RevokedStaysOut'
      BY <3>1, <3>2, <3>3 DEF RevokedInv, RevokedStaysOut, Listed
    <3>5. DroppedNotAllowed' /\ ApprovedSince'
      BY <2>0, <3>1 DEF RevokedInv, DroppedNotAllowed, ApprovedSince, Dropped
    <3>6. FileAhead'
      BY <2>0, <3>1 DEF RevokedInv, FileAhead, Listed
    <3> QED BY <3>4, <3>5, <3>6 DEF RevokedInv
  <2>12. CASE Store(h)
    <3>1. /\ task[h].pc = "Store" /\ task'[h].pc = "Idle" /\ who \in Client
          /\ UNCHANGED <<allowed, tokens, file, verdict>>
      BY <2>12, Moved DEF Store, At
    <3>2. remote' \subseteq remote \cup {who}
      BY <2>12, <3>1 DEF Store, OwnUuids
    <3>3. who \in allowed
      BY <3>1 DEF HeldInv, PastCheckAllowed, PastCheck
    <3>4. RevokedStaysOut'
      BY <3>1, <3>2, <3>3 DEF RevokedInv, RevokedStaysOut, TokensOf, Listed
    <3>5. DroppedNotAllowed' /\ ApprovedSince'
      BY <2>0, <3>1 DEF RevokedInv, DroppedNotAllowed, ApprovedSince, Dropped
    <3>6. FileAhead'
      BY <2>0, <3>1 DEF RevokedInv, FileAhead, Listed
    <3> QED BY <3>4, <3>5, <3>6 DEF RevokedInv
  <2> QED
    BY <1>3, <2>1, <2>2, <2>3, <2>4, <2>5, <2>6, <2>7, <2>8, <2>9, <2>10, <2>11, <2>12
    DEF Serve
<1>4. ASSUME NEW h \in Handler, Discard(h) PROVE RevokedInv'
  BY <1>1, <1>4, Discarded DEF Dropped
<1>5. CASE Crash \/ Restart
  <2>1. /\ \A h \in Handler : task'[h].pc = "Idle"
        /\ remote' = {}
        /\ \A c \in Client : TokensOf(c)' = {}
    BY <1>5, Stopped
  <2>2. allowed' \subseteq Listed /\ Listed' = Listed /\ verdict' = verdict
    BY <1>5, Stopped
  <2>3. RevokedStaysOut'
    BY <2>1, <2>2 DEF RevokedInv, RevokedStaysOut
  <2>4. FileAhead'
    BY <1>5, Stopped DEF FileAhead
  <2>5. DroppedNotAllowed' /\ ApprovedSince'
    BY <2>1 DEF DroppedNotAllowed, ApprovedSince, Dropped
  <2> QED BY <2>3, <2>4, <2>5 DEF RevokedInv
<1>6. CASE UNCHANGED vars
  BY <1>6
  DEF vars, RevokedInv, RevokedStaysOut, TokensOf, Listed, DroppedNotAllowed, ApprovedSince,
      FileAhead
<1> QED BY <1>2, <1>3, <1>4, <1>5, <1>6 DEF Next

LEMMA InitRevoked == Init => HeldInv /\ RevokedInv
BY Beginning
DEF HeldInv, PastCheckAllowed, TokensHeld, DataHeld, PastCheck, RevokedInv, RevokedStaysOut,
    DroppedNotAllowed, ApprovedSince, FileAhead, Dropped

\* Then a revocation that has returned holds, in memory and in the file, over
\* any number of crashes and restarts, until the next approval: whatever other
\* approvals and revocations save at the same time.
THEOREM RevocationHolds ==
    ASSUME OwnUuids
    PROVE  Spec /\ []RevocationsUncrossed /\ []DecisionsApart => []RevokedStaysOut
<1> DEFINE Inv == TypeOK /\ StoppedInv /\ HeldInv /\ RevokedInv
<1>1. Init => Inv
  BY Beginning, InitRevoked
<1>2. Inv /\ RevocationsUncrossed' /\ DecisionsApart /\ [Next]_vars => Inv'
  BY NextTypeOK, NextStopped, NextHeld, NextRevoked
<1>3. Inv => RevokedStaysOut
  BY DEF RevokedInv
<1> QED BY <1>1, <1>2, <1>3, PTL DEF Spec

-----------------------------------------------------------------------------
(***************************************************************************)
(* While all of these requests keep apart, every step of the handlers is   *)
(* one of Admission, or none.                                              *)
(***************************************************************************)
Pending == Saving \cup {"PutAllowed"}

\* What Register has checked still holds when it acts on it.
NotAccepted ==
    \A h \in Handler :
        task[h].pc \in {"AddWaiting", "PutWaiting"} => task[h].who \notin Accepted

\* The clients served at a step, when one handler moves.
LEMMA ServedNext ==
    ASSUME NEW h \in Handler, NEW step, \A k \in Handler \ {h} : task'[k] = task[k]
    PROVE  /\ task[h].pc # step /\ task'[h].pc # step => ServedAt(step)' = ServedAt(step)
           /\ task[h].pc # step /\ task'[h].pc = step =>
                  ServedAt(step)' = ServedAt(step) \cup {task'[h].who}
           /\ task[h].pc = step /\ task'[h].pc # step =>
                  /\ ServedAt(step)' \subseteq ServedAt(step)
                  /\ ServedAt(step) = ServedAt(step)' \cup {task[h].who}
<1>1. \A c : c \in ServedAt(step) <=> \E k \in Handler : task[k].pc = step /\ task[k].who = c
  BY DEF ServedAt
<1>2. \A c : c \in ServedAt(step)' <=>
                 \E k \in Handler : task'[k].pc = step /\ task'[k].who = c
  BY DEF ServedAt
<1>3. CASE task[h].pc # step /\ task'[h].pc # step
  <2>1. \A k \in Handler : task[k].pc = step \/ task'[k].pc = step => k # h /\ task'[k] = task[k]
    BY <1>3
  <2>2. \A c : c \in ServedAt(step)' <=> c \in ServedAt(step)
    BY <1>1, <1>2, <2>1
  <2> QED BY <1>3, <2>2 DEF ServedAt
<1>4. CASE task[h].pc # step /\ task'[h].pc = step
  BY <1>1, <1>2, <1>4
<1>5. CASE task[h].pc = step /\ task'[h].pc # step
  BY <1>1, <1>2, <1>5
<1>6. CASE task[h].pc = step /\ task'[h].pc = step
  BY <1>6
<1> QED BY <1>3, <1>4, <1>5, <1>6

LEMMA SamePhase ==
    ASSUME NEW h \in Handler, \A k \in Handler \ {h} : task'[k] = task[k], up' = up,
           task[h].pc \in Pending <=> task'[h].pc \in Pending
    PROVE  Phase' = Phase
<1>1. (\E k \in Handler : task'[k].pc \in Pending)
          <=> (\E k \in Handler : task[k].pc \in Pending)
  OBVIOUS
<1> QED BY <1>1 DEF Phase, Pending

LEMMA PhaseSaving ==
    ASSUME NEW h \in Handler
    PROVE  /\ up /\ task[h].pc \in Pending => Phase = "saving"
           /\ up' /\ task'[h].pc \in Pending => Phase' = "saving"
           /\ up => Phase # "stopped"
BY DEF Phase, Pending

LEMMA NextChecked ==
    ASSUME TypeOK, StoppedInv, NotAccepted, RegistrationsApart', [Next]_vars
    PROVE  NotAccepted'
<1> DEFINE Still(h) == \A k \in Handler \ {h} : task'[k] = task[k]
           Adds == {"AddWaiting", "PutWaiting"}
<1>1. ASSUME NEW h \in Handler, Still(h), Accepted' \subseteq Accepted,
             task'[h].pc \notin Adds
      PROVE  NotAccepted'
  <2>1. \A k \in Handler : task'[k].pc \in Adds => task'[k] = task[k]
    BY <1>1
  <2> QED BY <1>1, <2>1 DEF NotAccepted
\* A step that lets nobody on the allowed list.
<1>2. ASSUME NEW h \in Handler, Still(h), allowed' \subseteq allowed,
             task'[h].pc \notin Adds \cup {"PutAllowed"}
      PROVE  NotAccepted'
  <2>1. ServedAt("PutAllowed")' \subseteq ServedAt("PutAllowed")
    BY <1>2, ServedNext
  <2>2. Accepted' \subseteq Accepted
    BY <1>2, <2>1 DEF Accepted
  <2> QED BY <1>1, <1>2, <2>2
<1>3. ASSUME NEW h \in Handler, NEW c \in Client, Request(h, c) PROVE NotAccepted'
  BY <1>2, <1>3, Requested DEF Calls
<1>4. ASSUME NEW h \in Handler, Serve(h) PROVE NotAccepted'
  <2> DEFINE who == task[h].who
  <2>0. Still(h)
    BY <1>4, Elsewhere
  <2>1. CASE Register(h)
    <3>1. /\ task[h].pc = "Register" /\ allowed' = allowed
          /\ \/ task'[h].pc = "Idle"
             \/ task'[h].pc = "AddWaiting" /\ task'[h].who = who /\ who \notin allowed
      BY <2>1, Moved DEF Register, At, Steps
    <3>2. CASE task'[h].pc = "Idle"
      BY <1>2, <2>0, <3>1, <3>2
    <3>3. CASE task'[h].pc = "AddWaiting" /\ task'[h].who = who /\ who \notin allowed
      <4>1. who \notin ServedAt("PutAllowed")'
        <5> SUFFICES ASSUME NEW k \in Handler, task'[k].pc = "PutAllowed", task'[k].who = who
                     PROVE  FALSE
          BY DEF ServedAt
        <5>1. k # h
          BY <3>3
        <5>2. ~Together(h, k, {"AddWaiting", "PutWaiting"}, {"PutAllowed"})'
          BY DEF RegistrationsApart
        <5> QED BY <3>3, <5>1, <5>2 DEF Together
      <4>2. ServedAt("PutAllowed")' = ServedAt("PutAllowed")
        BY <2>0, <3>1, <3>3, ServedNext
      <4>3. Accepted' = Accepted /\ who \notin Accepted'
        BY <3>1, <3>3, <4>1, <4>2 DEF Accepted
      <4> QED BY <2>0, <3>3, <4>3 DEF NotAccepted
    <3> QED BY <3>1, <3>2, <3>3
  <2>2. CASE AddWaiting(h)
    <3>1. task[h].pc = "AddWaiting" /\ allowed' = allowed
      BY <2>2 DEF AddWaiting, At
    <3>2. CASE who \notin waiting /\ Room
      <4>1. task'[h].pc = "PutWaiting" /\ task'[h].who = who
        BY <2>2, <3>2, Moved DEF AddWaiting, At, Steps
      <4>2. ServedAt("PutAllowed")' = ServedAt("PutAllowed")
        BY <2>0, <3>1, <4>1, ServedNext
      <4>3. Accepted' = Accepted /\ who \notin Accepted
        BY <3>1, <4>2 DEF Accepted, NotAccepted
      <4> QED BY <2>0, <4>1, <4>3 DEF NotAccepted
    <3>3. CASE ~(who \notin waiting /\ Room)
      <4>1. task'[h].pc \in {"Allow", "Idle"}
        BY <2>2, <3>3, Moved DEF AddWaiting, At
      <4> QED BY <1>2, <2>0, <3>1, <4>1
    <3> QED BY <3>2, <3>3
  <2>3. CASE PutWaiting(h)
    <3>1. /\ task[h].pc = "PutWaiting" /\ task'[h].pc \in {"Allow", "Idle"}
          /\ allowed' = allowed
      BY <2>3, Moved DEF PutWaiting, At
    <3> QED BY <1>2, <2>0, <3>1
  <2>4. CASE Allow(h)
    <3>1. /\ task[h].pc = "Allow" /\ task'[h].pc = "PutAllowed" /\ task'[h].who = who
          /\ allowed' = allowed
      BY <2>4, Moved DEF Allow, At, Steps
    <3>2. ServedAt("PutAllowed")' = ServedAt("PutAllowed") \cup {who}
      BY <2>0, <3>1, ServedNext
    <3>3. Accepted' = Accepted \cup {who}
      BY <3>1, <3>2 DEF Accepted
    <3>4. ASSUME NEW k \in Handler, task'[k].pc \in Adds
          PROVE  task'[k].who \notin Accepted'
      <4>1. k # h /\ task'[k] = task[k]
        BY <2>0, <3>1, <3>4
      <4>2. task[k].who \notin Accepted
        BY <3>4, <4>1 DEF NotAccepted
      <4>3. ~Together(k, h, {"AddWaiting", "PutWaiting"}, {"PutAllowed"})'
        BY DEF RegistrationsApart
      <4>4. task'[k].who # who
        BY <3>1, <3>4, <4>1, <4>3 DEF Together
      <4> QED BY <3>3, <4>1, <4>2, <4>4
    <3> QED BY <3>4 DEF NotAccepted
  <2>5. CASE PutAllowed(h)
    <3>1. /\ task[h].pc = "PutAllowed" /\ task'[h].pc = "AllowOpen"
          /\ allowed' = allowed \cup {who}
      BY <2>5, Moved DEF PutAllowed, At, Steps
    <3>2. ServedAt("PutAllowed") = ServedAt("PutAllowed")' \cup {who}
      BY <2>0, <3>1, ServedNext
    <3>3. Accepted' \subseteq Accepted
      BY <3>1, <3>2 DEF Accepted
    <3> QED BY <1>1, <2>0, <3>1, <3>3
  <2>6. CASE AllowNobody(h) \/ AllowEnd(h) \/ Revoke(h) \/ DropAllowed(h) \/ RevokeSaved(h)
             \/ RevokeTokens(h) \/ RevokeData(h)
    BY <1>2, <2>0, <2>6, Moved
    DEF AllowNobody, AllowEnd, Revoke, DropAllowed, NextSave, RevokeSaved, RevokeTokens,
        RevokeData, At, Steps
  <2>7. CASE Hello(h) \/ DropTokens(h) \/ Auth(h) \/ Store(h) \/ Goodbye(h) \/ RevokeToken(h)
             \/ \E t \in Token : PutToken(h, t)
    BY <1>2, <2>0, <2>7, Moved
    DEF Hello, DropTokens, Auth, Store, Goodbye, RevokeToken, PutToken, At, Steps
  <2>8. ASSUME NEW step \in {"AllowOpen", "RevokeOpen"}, SaveOpen(h, step)
        PROVE  NotAccepted'
    BY <1>2, <2>0, <2>8, Saves
  <2>9. ASSUME NEW step \in {"AllowWrite", "RevokeWrite"}, NEW c \in Client,
               SaveWrite(h, step, c)
        PROVE  NotAccepted'
    BY <1>2, <2>0, <2>9, Writes
  <2> QED BY <1>4, <2>1, <2>2, <2>3, <2>4, <2>5, <2>6, <2>7, <2>8, <2>9 DEF Serve
<1>5. ASSUME NEW h \in Handler, Discard(h) PROVE NotAccepted'
  BY <1>2, <1>5, Discarded
<1>6. CASE Crash \/ Restart
  BY <1>6, Stopped DEF NotAccepted
<1>7. CASE UNCHANGED vars
  BY <1>7 DEF vars, NotAccepted, Accepted, ServedAt
<1> QED BY <1>3, <1>4, <1>5, <1>6, <1>7 DEF Next

-----------------------------------------------------------------------------
(* What Admission sees of a handler's step.                                *)

LEMMA SameCardinality == ASSUME NEW S PROVE Promise!Cardinality(S) = Cardinality(S)
BY DEF Promise!Cardinality, Cardinality

LEMMA SameInside ==
    ASSUME NEW h \in Handler, \A k \in Handler \ {h} : task'[k] = task[k],
           UNCHANGED <<allowed, tokens>>,
           task[h].pc \notin {"PutToken", "Store"}, task'[h].pc \notin {"PutToken", "Store"}
    PROVE  Inside' = Inside
<1>1. /\ ServedAt("PutToken")' = ServedAt("PutToken")
      /\ ServedAt("Store")' = ServedAt("Store")
  BY ServedNext
<1>2. \A c : TokensOf(c)' = TokensOf(c)
  BY DEF TokensOf
<1> QED BY <1>1, <1>2 DEF Inside

LEMMA SameAccepted ==
    ASSUME NEW h \in Handler, \A k \in Handler \ {h} : task'[k] = task[k],
           allowed' = allowed, task[h].pc # "PutAllowed", task'[h].pc # "PutAllowed"
    PROVE  Accepted' = Accepted
<1>1. ServedAt("PutAllowed")' = ServedAt("PutAllowed")
  BY ServedNext
<1> QED BY <1>1 DEF Accepted

LEMMA SameDisk == UNCHANGED file => Listed' = Listed
BY DEF Listed

\* Where a handler is at none of a few steps, only what is shared is seen.
LEMMA SeenElsewhere ==
    ASSUME NEW h \in Handler, \A k \in Handler \ {h} : task'[k] = task[k],
           UNCHANGED <<up, waiting, allowed, tokens, remote, file>>,
           task[h].pc \notin Pending \cup {"PutToken", "Store"},
           task'[h].pc \notin Pending \cup {"PutToken", "Store"}
    PROVE  UNCHANGED Promise!vars
<1>1. Phase' = Phase
  BY SamePhase
<1>2. Inside' = Inside
  BY SameInside
<1>3. Accepted' = Accepted
  BY SameAccepted DEF Pending
<1> QED BY <1>1, <1>2, <1>3, SameDisk DEF Promise!vars, Known

LEMMA PromiseKept ==
    ASSUME NEW c \in Client,
           \/ Promise!Register(c) \/ Promise!Allow(c) \/ Promise!Dismiss(c)
           \/ Promise!Revoke(c) \/ Promise!Enter(c) \/ Promise!Update(c) \/ Promise!Leave(c)
    PROVE  Promise!Next
BY DEF Promise!Next

\* Register and AllowClient: a client gets on the waiting list where there is
\* room for it, and moves to the allowed list in one step.
LEMMA AdmissionOfAllow ==
    ASSUME TypeOK, HeldInv, NotAccepted, WaitingBound, DecisionsApart, NEW h \in Handler,
           Serve(h),
           \/ Register(h) \/ AddWaiting(h) \/ PutWaiting(h)
           \/ Allow(h) \/ AllowNobody(h) \/ PutAllowed(h)
    PROVE  [Promise!Next]_(Promise!vars)
<1> DEFINE who == task[h].who
<1>0. \A k \in Handler \ {h} : task'[k] = task[k]
  BY Elsewhere
<1>1. CASE Register(h) \/ AddWaiting(h) \/ AllowNobody(h)
  <2>1. /\ task[h].pc \in {"Register", "AddWaiting", "Allow"}
        /\ task'[h].pc \in {"Idle", "AddWaiting", "PutWaiting", "Allow"}
    BY <1>1, Moved DEF Register, AddWaiting, AllowNobody, At, Steps
  <2>2. UNCHANGED <<up, waiting, allowed, tokens, remote, file>>
    BY <1>1 DEF Register, AddWaiting, AllowNobody
  <2> QED BY <1>0, <2>1, <2>2, SeenElsewhere DEF Saving, Pending
<1>2. CASE PutWaiting(h)
  <2>1. /\ up /\ task[h].pc = "PutWaiting" /\ task'[h].pc \in {"Idle", "Allow"}
        /\ who \in Client /\ waiting' = waiting \cup {who}
        /\ UNCHANGED <<up, allowed, tokens, remote, file>>
    BY <1>2, Moved DEF PutWaiting, At
  <2>2. who \notin Accepted /\ Cardinality(waiting) < MaxWaitingClients + Cardinality(Handler) - 1
    <3>1. who \notin Accepted
      BY <2>1 DEF NotAccepted
    <3>2. /\ Cardinality(waiting) \in Nat /\ Cardinality(Handler) \in Nat
          /\ IsFiniteSet(Adding) /\ Cardinality(Adding) \in Nat
      BY <2>1, Finite
    <3>3. Cardinality(Adding) # 0
      BY <2>1, <3>2, FS_EmptySet DEF Adding
    <3>4. Cardinality(waiting) + Cardinality(Adding) < MaxWaitingClients + Cardinality(Handler)
      BY DEF WaitingBound, Adding
    <3> QED BY <3>1, <3>2, <3>3, <3>4, AuthorityAssumption
  <2>3. Phase' = Phase /\ Phase # "stopped"
    BY <1>0, <2>1, SamePhase, PhaseSaving DEF Pending, Saving
  <2>4. Inside' = Inside /\ Listed' = Listed /\ Known' = Known /\ Accepted' = Accepted
    BY <1>0, <2>1, SameInside, SameDisk, SameAccepted DEF Known
  <2>5. CASE who \in waiting
    BY <2>1, <2>3, <2>4, <2>5 DEF Promise!vars
  <2>6. CASE who \notin waiting
    <3>1. Promise!Register(who)
      BY <2>1, <2>2, <2>3, <2>4, <2>6, SameCardinality DEF Promise!Register, Promise!Running
    <3> QED BY <2>1, <3>1, PromiseKept
  <2> QED BY <2>5, <2>6
<1>3. CASE Allow(h)
  <2>1. /\ up /\ task[h].pc = "Allow" /\ task'[h].pc = "PutAllowed" /\ task'[h].who = who
        /\ who \in Client /\ who \in waiting /\ waiting' = waiting \ {who}
        /\ UNCHANGED <<up, allowed, tokens, remote, file>>
    BY <1>3, Moved DEF Allow, MayAllow, LeftWaiting, At, Steps
  <2>2. Phase # "stopped" /\ Phase' = "saving"
    BY <2>1, PhaseSaving DEF Pending
  <2>3. ServedAt("PutAllowed")' = ServedAt("PutAllowed") \cup {who}
    BY <1>0, <2>1, ServedNext
  <2>4. Accepted' = Accepted \cup {who}
    BY <2>1, <2>3 DEF Accepted
  <2>5. Inside' = Inside /\ Listed' = Listed /\ Known' = Known
    BY <1>0, <2>1, SameInside, SameDisk DEF Known
  <2>6. Promise!Allow(who)
    BY <2>1, <2>2, <2>4, <2>5 DEF Promise!Allow, Promise!Running
  <2> QED BY <2>1, <2>6, PromiseKept
<1>4. CASE PutAllowed(h)
  <2>1. /\ up /\ task[h].pc = "PutAllowed" /\ task'[h].pc = "AllowOpen"
        /\ who \in Client /\ allowed' = allowed \cup {who}
        /\ UNCHANGED <<up, waiting, tokens, remote, file>>
    BY <1>4, Moved DEF PutAllowed, At, Steps
  <2>2. \A k \in Handler : task[k].pc \in Dropped => task[k].who # who
    BY <2>1 DEF DecisionsApart, Together, Dropped
  <2>3. ASSUME who \notin allowed
        PROVE  /\ TokensOf(who) = {} /\ who \notin remote
               /\ who \notin ServedAt("PutToken") \cup ServedAt("Store")
    <3>1. TokensOf(who) = {} /\ who \notin remote
      BY <2>1, <2>2, <2>3 DEF HeldInv, TokensHeld, DataHeld, Undone, Dropped
    <3>2. who \notin ServedAt("PutToken") \cup ServedAt("Store")
      BY <2>3 DEF HeldInv, PastCheckAllowed, PastCheck, ServedAt
    <3> QED BY <3>1, <3>2
  <2>4. Phase' = Phase
    BY <1>0, <2>1, SamePhase DEF Pending, Saving
  <2>5. ServedAt("PutAllowed") = ServedAt("PutAllowed")' \cup {who}
    BY <1>0, <2>1, ServedNext
  <2>6. Accepted' = Accepted
    BY <2>1, <2>5 DEF Accepted
  <2>7. Inside' = Inside
    <3>1. /\ ServedAt("PutToken")' = ServedAt("PutToken")
          /\ ServedAt("Store")' = ServedAt("Store")
      BY <1>0, <2>1, ServedNext
    <3>2. \A c : TokensOf(c)' = TokensOf(c)
      BY <2>1 DEF TokensOf
    <3>3. \A c : c \in Inside' <=> c \in Inside
      BY <2>1, <2>3, <3>1, <3>2 DEF Inside
    <3> QED BY <3>3 DEF Inside
  <2>8. Listed' = Listed /\ Known' = Known
    BY <2>1, <2>3, SameDisk DEF Known
  <2> QED BY <2>1, <2>4, <2>6, <2>7, <2>8 DEF Promise!vars
<1> QED BY <1>1, <1>2, <1>3, <1>4

\* A save writes a part of the list, and ends when all of it is written, unless
\* another one is still to be made.
LEMMA AdmissionOfSave ==
    ASSUME TypeOK, FileInv, WritesApart, NEW h \in Handler, Serve(h),
           \/ \E step \in {"AllowOpen", "RevokeOpen"} : SaveOpen(h, step)
           \/ \E step \in {"AllowWrite", "RevokeWrite"}, c \in Client : SaveWrite(h, step, c)
           \/ AllowEnd(h) \/ RevokeSaved(h)
    PROVE  [Promise!Next]_(Promise!vars)
<1>0. up /\ up' = up /\ \A k \in Handler \ {h} : task'[k] = task[k]
  BY Elsewhere
<1>1. ASSUME UNCHANGED <<waiting, allowed, tokens, remote>>, Listed' \subseteq Listed \cup allowed,
             task[h].pc \in Saving, task'[h].pc \in Saving
      PROVE  [Promise!Next]_(Promise!vars)
  <2>1. Phase = "saving" /\ Phase' = "saving"
    BY <1>0, <1>1, PhaseSaving DEF Pending
  <2>2. Accepted' = Accepted /\ Inside' = Inside /\ Known' = Known
    BY <1>0, <1>1, SameAccepted, SameInside DEF Saving, Known
  <2>3. Listed' \in SUBSET (Listed \cup Accepted)
    BY <1>1 DEF Accepted
  <2>4. Promise!Write
    BY <1>1, <2>1, <2>2, <2>3 DEF Promise!Write
  <2> QED BY <2>4 DEF Promise!Next
<1>2. ASSUME NEW step \in {"AllowOpen", "RevokeOpen"}, SaveOpen(h, step)
      PROVE  [Promise!Next]_(Promise!vars)
  <2>1. /\ task[h].pc = step
        /\ task'[h].pc = IF step = "AllowOpen" THEN "AllowWrite" ELSE "RevokeWrite"
        /\ UNCHANGED <<waiting, allowed, tokens, remote>> /\ Listed' = {}
    BY <1>2, Saves
  <2> QED BY <1>1, <2>1 DEF Saving
<1>3. ASSUME NEW step \in {"AllowWrite", "RevokeWrite"}, NEW c \in Client,
             SaveWrite(h, step, c)
      PROVE  [Promise!Next]_(Promise!vars)
  <2>1. /\ task[h].pc = step /\ task'[h].pc = step /\ c \in allowed
        /\ UNCHANGED <<waiting, allowed, tokens, remote>> /\ Listed' \subseteq Listed \cup {c}
    BY <1>3, Writes
  <2> QED BY <1>1, <2>1 DEF Saving
<1>4. CASE AllowEnd(h) \/ RevokeSaved(h)
  <2>1. /\ task[h].pc \in Writing /\ task'[h].pc \in {"Idle", "RevokeTokens"}
        /\ UNCHANGED <<waiting, allowed, tokens, remote, file>>
    BY <1>4, Moved DEF AllowEnd, RevokeSaved, At, Steps, Writing
  <2>2. task[h].pc \in Pending /\ task'[h].pc \notin Pending
    BY <2>1 DEF Pending, Saving, Writing
  <2>3. /\ Accepted' = Accepted /\ Inside' = Inside /\ Known' = Known /\ Listed' = Listed
        /\ Phase = "saving"
    BY <1>0, <2>1, <2>2, SameAccepted, SameInside, SameDisk, PhaseSaving DEF Writing, Known
  <2>4. CASE \E k \in Handler \ {h} : task[k].pc \in Pending
    <3>1. PICK k \in Handler : task'[k].pc \in Pending
      BY <1>0, <2>4
    <3>2. Phase' = "saving"
      BY <1>0, <3>1, PhaseSaving
    <3> QED BY <2>1, <2>3, <3>2 DEF Promise!vars
  <2>5. CASE \A k \in Handler \ {h} : task[k].pc \notin Pending
    <3>1. \A k \in Handler : task[k].pc \notin Opening /\ task[k].pc # "PutAllowed"
      BY <2>1, <2>5 DEF Pending, Saving, Opening, Writing
    <3>2. Listed = allowed
      BY <1>4, <3>1, Ended
    <3>3. Accepted = allowed
      BY <3>1 DEF Accepted, ServedAt
    <3>4. Phase' = "ready"
      BY <1>0, <2>2, <2>5 DEF Phase, Pending
    <3>5. Promise!Finish
      BY <2>1, <2>3, <3>2, <3>3, <3>4 DEF Promise!Finish
    <3> QED BY <3>5 DEF Promise!Next
  <2> QED BY <2>4, <2>5
<1> QED BY <1>2, <1>3, <1>4

\* RevokeClient: whoever waits is dismissed; whoever is allowed loses its place,
\* its session and its data as one, when it leaves the list.
LEMMA AdmissionOfRevoke ==
    ASSUME TypeOK, DroppedNotAllowed, DecisionsApart, NEW h \in Handler, Serve(h),
           Revoke(h) \/ DropAllowed(h) \/ RevokeTokens(h) \/ RevokeData(h)
    PROVE  [Promise!Next]_(Promise!vars)
<1> DEFINE who == task[h].who
<1>0. \A k \in Handler \ {h} : task'[k] = task[k]
  BY Elsewhere
<1>1. CASE Revoke(h)
  <2>1. /\ up /\ task[h].pc = "Revoke" /\ task'[h].pc = "DropAllowed"
        /\ who \in Client /\ waiting' = waiting \ {who}
        /\ UNCHANGED <<up, allowed, tokens, remote, file>>
    BY <1>1, Moved DEF Revoke, LeftWaiting, At, Steps
  <2>2. Phase' = Phase /\ Phase # "stopped"
    BY <1>0, <2>1, SamePhase, PhaseSaving DEF Pending, Saving
  <2>3. Inside' = Inside /\ Listed' = Listed /\ Known' = Known /\ Accepted' = Accepted
    BY <1>0, <2>1, SameInside, SameDisk, SameAccepted DEF Known
  <2>4. CASE who \in waiting
    <3>1. Promise!Dismiss(who)
      BY <2>1, <2>2, <2>3, <2>4 DEF Promise!Dismiss, Promise!Running
    <3> QED BY <2>1, <3>1, PromiseKept
  <2>5. CASE who \notin waiting
    BY <2>1, <2>2, <2>3, <2>5 DEF Promise!vars
  <2> QED BY <2>4, <2>5
<1>2. CASE DropAllowed(h) /\ who \in allowed
  <2>1. /\ up /\ task[h].pc = "DropAllowed" /\ task'[h].pc = "RevokeOpen"
        /\ who \in Client /\ allowed' = allowed \ {who}
        /\ UNCHANGED <<up, waiting, tokens, remote, file>>
    BY <1>2, Moved DEF DropAllowed, NextSave, At, Steps
  <2>2. Phase # "stopped" /\ Phase' = "saving"
    BY <2>1, PhaseSaving DEF Pending, Saving
  <2>3. who \notin ServedAt("PutAllowed")
    BY <2>1 DEF DecisionsApart, Together, ServedAt
  <2>4. /\ ServedAt("PutAllowed")' = ServedAt("PutAllowed")
        /\ ServedAt("PutToken")' = ServedAt("PutToken")
        /\ ServedAt("Store")' = ServedAt("Store")
    BY <1>0, <2>1, ServedNext
  <2>5. who \in Accepted /\ Accepted' = Accepted \ {who}
    BY <1>2, <2>1, <2>3, <2>4 DEF Accepted
  <2>6. Inside' = Inside \ {who}
    <3>1. \A c : TokensOf(c)' = TokensOf(c)
      BY <2>1 DEF TokensOf
    <3> QED BY <2>1, <2>4, <3>1 DEF Inside
  <2>7. Listed' = Listed /\ Known' = Known \ {who}
    BY <2>1, SameDisk DEF Known
  <2>8. Promise!Revoke(who)
    BY <2>1, <2>2, <2>5, <2>6, <2>7 DEF Promise!Revoke, Promise!Running
  <2> QED BY <2>1, <2>8, PromiseKept
<1>3. CASE DropAllowed(h) /\ who \notin allowed
  <2>1. /\ task[h].pc = "DropAllowed" /\ task'[h].pc = "RevokeTokens"
        /\ allowed' = allowed \ {who}
        /\ UNCHANGED <<up, waiting, tokens, remote, file>>
    BY <1>3, Moved DEF DropAllowed, NextSave, At, Steps
  <2>2. allowed' = allowed
    BY <1>3, <2>1
  <2> QED BY <1>0, <2>1, <2>2, SeenElsewhere DEF Pending, Saving
<1>4. CASE RevokeTokens(h)
  <2>1. /\ task[h].pc = "RevokeTokens" /\ task'[h].pc = "RevokeData"
        /\ tokens' = WithoutTokensOf(who)
        /\ UNCHANGED <<up, waiting, allowed, remote, file>>
    BY <1>4, Moved DEF RevokeTokens, At, Steps
  <2>2. who \notin allowed
    BY <2>1 DEF DroppedNotAllowed, Dropped
  <2>3. \A c \in allowed : TokensOf(c)' = TokensOf(c)
    BY <2>1, <2>2, AuthorityAssumption DEF TokensOf, WithoutTokensOf, TypeOK
  <2>4. /\ ServedAt("PutToken")' = ServedAt("PutToken")
        /\ ServedAt("Store")' = ServedAt("Store")
    BY <1>0, <2>1, ServedNext
  <2>5. Inside' = Inside
    BY <2>1, <2>3, <2>4 DEF Inside
  <2>6. Phase' = Phase /\ Accepted' = Accepted
    BY <1>0, <2>1, SamePhase, SameAccepted DEF Pending, Saving
  <2> QED BY <2>1, <2>5, <2>6, SameDisk DEF Promise!vars, Known
<1>5. CASE RevokeData(h)
  <2>1. /\ task[h].pc = "RevokeData" /\ task'[h].pc = "Idle"
        /\ remote' = remote \ {who}
        /\ UNCHANGED <<up, waiting, allowed, tokens, file>>
    BY <1>5, Moved DEF RevokeData, WithoutData, At
  <2>2. who \notin allowed
    BY <2>1 DEF DroppedNotAllowed, Dropped
  <2>3. Inside' = Inside /\ Phase' = Phase /\ Accepted' = Accepted
    BY <1>0, <2>1, SameInside, SamePhase, SameAccepted DEF Pending, Saving
  <2>4. Known' = Known
    BY <2>1, <2>2 DEF Known
  <2> QED BY <2>1, <2>3, <2>4, SameDisk DEF Promise!vars
<1> QED BY <1>1, <1>2, <1>3, <1>4, <1>5

\* A session that may have ended.
LEMMA AdmissionOfLeave ==
    ASSUME up, UNCHANGED <<Phase, waiting, Accepted, Listed, Known>>, NEW c \in Client,
           Inside' \subseteq Inside, Inside \ {c} \subseteq Inside'
    PROVE  [Promise!Next]_(Promise!vars)
<1>1. CASE Inside' = Inside
  BY <1>1 DEF Promise!vars
<1>2. CASE Inside' # Inside
  <2>1. c \in Inside /\ Inside' = Inside \ {c}
    BY <1>2
  <2>2. Phase # "stopped"
    BY DEF Phase
  <2>3. Promise!Leave(c)
    BY <2>1, <2>2 DEF Promise!Leave, Promise!Running
  <2> QED BY <2>3, PromiseKept
<1> QED BY <1>1, <1>2

\* The tokens of other clients than the one whose tokens a handler changes.
LEMMA OthersTokens ==
    ASSUME TypeOK, NEW d, NEW c \in Client \ {d},
           \/ tokens' = WithoutTokensOf(d)
           \/ \E t \in Token : /\ tokens[t] \in {d, NoClient}
                               /\ \E e \in {d, NoClient} : tokens' = [tokens EXCEPT ![t] = e]
    PROVE  TokensOf(c)' = TokensOf(c)
<1>1. c # NoClient /\ c # d
  BY AuthorityAssumption
<1>2. \A t \in Token : tokens'[t] = c <=> tokens[t] = c
  BY <1>1 DEF WithoutTokensOf, TypeOK
<1> QED BY <1>2 DEF TokensOf

\* Hello, Update and Goodbye: an allowed client has a session from Hello to
\* Goodbye, and only then its wigo is taken.
LEMMA AdmissionOfSession ==
    ASSUME OwnUuids, TypeOK, HeldInv, NEW h \in Handler, Serve(h) \/ Discard(h),
           \/ Hello(h) \/ DropTokens(h) \/ (\E t \in Token : PutToken(h, t))
           \/ Auth(h) \/ Store(h) \/ Discard(h) \/ Goodbye(h) \/ RevokeToken(h)
    PROVE  [Promise!Next]_(Promise!vars)
<1> DEFINE who == task[h].who
<1>0. up /\ up' = up /\ \A k \in Handler \ {h} : task'[k] = task[k]
  BY Elsewhere, Discarded
<1>1. CASE Hello(h) \/ Goodbye(h)
  <2>1. /\ task[h].pc \in {"Hello", "Goodbye"}
        /\ task'[h].pc \in {"Idle", "DropTokens", "RevokeToken"}
    BY <1>1, Moved DEF Hello, Goodbye, At, Steps
  <2>2. UNCHANGED <<up, waiting, allowed, tokens, remote, file>>
    BY <1>1 DEF Hello, Goodbye
  <2> QED BY <1>0, <2>1, <2>2, SeenElsewhere DEF Pending, Saving
<1>2. CASE Auth(h)
  <2>1. /\ task[h].pc = "Auth" /\ UNCHANGED <<waiting, allowed, tokens, remote, file>>
        /\ \/ task'[h].pc = "Idle"
           \/ task'[h].pc = "Store" /\ task'[h].who = who /\ TokensOf(who) # {}
    BY <1>2, Moved DEF Auth, Valid, At, Steps
  <2>2. CASE task'[h].pc = "Idle"
    BY <1>0, <2>1, <2>2, SeenElsewhere DEF Pending, Saving
  <2>3. CASE task'[h].pc = "Store" /\ task'[h].who = who /\ TokensOf(who) # {}
    <3>1. /\ ServedAt("PutToken")' = ServedAt("PutToken")
          /\ ServedAt("Store")' = ServedAt("Store") \cup {who}
      BY <1>0, <2>1, <2>3, ServedNext
    <3>2. \A c : TokensOf(c)' = TokensOf(c)
      BY <2>1 DEF TokensOf
    <3>3. \A c : c \in Inside' <=> c \in Inside
      BY <2>1, <2>3, <3>1, <3>2 DEF Inside
    <3>4. Inside' = Inside
      BY <3>3 DEF Inside
    <3>5. Phase' = Phase /\ Accepted' = Accepted
      BY <1>0, <2>1, <2>3, SamePhase, SameAccepted DEF Pending, Saving
    <3> QED BY <2>1, <3>4, <3>5, SameDisk DEF Promise!vars, Known
  <2> QED BY <2>1, <2>2, <2>3
<1>3. CASE DropTokens(h)
  <2>1. /\ task[h].pc = "DropTokens" /\ task'[h].pc = "PutToken"
        /\ task'[h].who = who /\ who \in Client
        /\ tokens' = WithoutTokensOf(who)
        /\ UNCHANGED <<waiting, allowed, remote, file>>
    BY <1>3, Moved DEF DropTokens, LeftTokens, At, Steps
  <2>2. who \in allowed /\ who \in Accepted
    BY <2>1 DEF HeldInv, PastCheckAllowed, PastCheck, Accepted
  <2>3. /\ ServedAt("PutToken")' = ServedAt("PutToken") \cup {who}
        /\ ServedAt("Store")' = ServedAt("Store")
    BY <1>0, <2>1, ServedNext
\* The handler's client by a name of its own: it has none in the next state.
  <2> PICK d \in Client : d = who
    BY <2>1
  <2>4. \A c \in allowed \ {d} : TokensOf(c)' = TokensOf(c)
    BY <2>1, OthersTokens DEF TypeOK
  <2>5. \A c : c \in Inside' <=> c \in Inside \cup {d}
    BY <2>1, <2>2, <2>3, <2>4 DEF Inside
  <2>6. Inside' = Inside \cup {d}
    BY <2>2, <2>5 DEF Inside
  <2>7. Phase' = Phase /\ Phase # "stopped" /\ Accepted' = Accepted
    BY <1>0, <2>1, SamePhase, SameAccepted, PhaseSaving DEF Pending, Saving
  <2>8. Listed' = Listed /\ Known' = Known
    BY <2>1, SameDisk DEF Known
  <2>9. Promise!Enter(d)
    BY <2>1, <2>2, <2>6, <2>7, <2>8 DEF Promise!Enter, Promise!Running
  <2> QED BY <2>9, PromiseKept
<1>4. ASSUME NEW t \in Token, PutToken(h, t) PROVE [Promise!Next]_(Promise!vars)
  <2>1. /\ task[h].pc = "PutToken" /\ task'[h].pc = "Idle" /\ who \in Client
        /\ tokens' = [tokens EXCEPT ![t] = who] /\ tokens[t] = NoClient
        /\ UNCHANGED <<waiting, allowed, remote, file>>
    BY <1>4, Moved DEF PutToken, FreshToken, At
  <2> PICK d \in Client : d = who
    BY <2>1
  <2>2. TokensOf(d)' # {}
    <3>1. tokens'[t] = d
      BY <2>1 DEF TypeOK
    <3> QED BY <3>1 DEF TokensOf
  <2>3. \A c \in allowed \ {d} : TokensOf(c)' = TokensOf(c)
    BY <2>1, OthersTokens DEF TypeOK
  <2>4. /\ ServedAt("Store")' = ServedAt("Store")
        /\ ServedAt("PutToken")' \subseteq ServedAt("PutToken")
        /\ ServedAt("PutToken") = ServedAt("PutToken")' \cup {d}
    BY <1>0, <2>1, ServedNext
  <2>5. \A c : c \in Inside' <=> c \in Inside
    BY <2>1, <2>2, <2>3, <2>4 DEF Inside
  <2>6. Inside' = Inside
    BY <2>5 DEF Inside
  <2>7. Phase' = Phase /\ Accepted' = Accepted
    BY <1>0, <2>1, SamePhase, SameAccepted DEF Pending, Saving
  <2> QED BY <2>1, <2>6, <2>7, SameDisk DEF Promise!vars, Known
\* The end of an Update, with a wigo that is stored or without.
<1>5. ASSUME Store(h) \/ Discard(h)
      PROVE  /\ task[h].pc = "Store" /\ task'[h].pc = "Idle"
             /\ who \in Client /\ who \in Inside
             /\ Inside' \subseteq Inside /\ Inside \ {who} \subseteq Inside'
             /\ UNCHANGED <<Phase, waiting, Accepted, Listed, allowed>>
  <2>1. /\ task[h].pc = "Store" /\ task'[h].pc = "Idle" /\ who \in Client
        /\ UNCHANGED <<waiting, allowed, tokens, file>>
    BY <1>5, Moved, Discarded DEF Store, At
  <2>2. who \in allowed
    BY <2>1 DEF HeldInv, PastCheckAllowed, PastCheck
  <2>3. /\ ServedAt("PutToken")' = ServedAt("PutToken")
        /\ ServedAt("Store")' \subseteq ServedAt("Store")
        /\ ServedAt("Store") = ServedAt("Store")' \cup {who}
    BY <1>0, <2>1, ServedNext
  <2>4. \A c : TokensOf(c)' = TokensOf(c)
    BY <2>1 DEF TokensOf
  <2>5. who \in Inside
    BY <2>2, <2>3 DEF Inside
  <2>6. Inside' \subseteq Inside /\ Inside \ {who} \subseteq Inside'
    BY <2>1, <2>3, <2>4 DEF Inside
  <2>7. Phase' = Phase /\ Accepted' = Accepted
    BY <1>0, <2>1, SamePhase, SameAccepted DEF Pending, Saving
  <2> QED BY <2>1, <2>5, <2>6, <2>7, SameDisk
<1>6. CASE Store(h)
  <2>1. who \in Pushes[who] /\ remote' = remote \cup {who}
    BY <1>5, <1>6 DEF Store, OwnUuids
  <2>2. who \in allowed /\ Known' = Known \cup {who}
    BY <1>5, <1>6, <2>1 DEF Known, Inside
  <2>3. Inside' \in {Inside, Inside \ {who}}
    BY <1>5, <1>6
  <2>4. Phase # "stopped"
    BY <1>0, PhaseSaving
  <2>5. Promise!Update(who)
    BY <1>5, <1>6, <2>2, <2>3, <2>4 DEF Promise!Update, Promise!Running
  <2> QED BY <1>5, <1>6, <2>5, PromiseKept
<1>7. CASE Discard(h)
  <2>1. Known' = Known
    BY <1>5, <1>7 DEF Discard, Known
  <2> QED BY <1>0, <1>5, <1>7, <2>1, AdmissionOfLeave
<1>8. CASE RevokeToken(h)
  <2>1. /\ task[h].pc = "RevokeToken" /\ task'[h].pc = "Idle" /\ who \in Client
        /\ UNCHANGED <<waiting, allowed, remote, file>>
        /\ tokens' = IF Valid(h) THEN [tokens EXCEPT ![task[h].token] = NoClient] ELSE tokens
    BY <1>8, Moved DEF RevokeToken, At
  <2> PICK d \in Client : d = who
    BY <2>1
  <2>2. \A c \in allowed \ {d} : TokensOf(c)' = TokensOf(c)
    <3>1. CASE Valid(h)
      <4>1. task[h].token \in Token /\ tokens[task[h].token] = d
        BY <3>1 DEF Valid, TokensOf
      <4> QED BY <2>1, <3>1, <4>1, OthersTokens DEF TypeOK
    <3>2. CASE ~Valid(h)
      BY <2>1, <3>2 DEF TokensOf
    <3> QED BY <3>1, <3>2
  <2>3. TokensOf(d)' \subseteq TokensOf(d)
    BY <2>1, AuthorityAssumption DEF TokensOf, TypeOK
  <2>4. /\ ServedAt("PutToken")' = ServedAt("PutToken")
        /\ ServedAt("Store")' = ServedAt("Store")
    BY <1>0, <2>1, ServedNext
  <2>5. Inside' \subseteq Inside /\ Inside \ {d} \subseteq Inside'
    BY <2>1, <2>2, <2>3, <2>4 DEF Inside
  <2>6. Phase' = Phase /\ Accepted' = Accepted
    BY <1>0, <2>1, SamePhase, SameAccepted DEF Pending, Saving
  <2> QED BY <1>0, <2>1, <2>5, <2>6, SameDisk, AdmissionOfLeave DEF Known
<1> QED BY <1>1, <1>2, <1>3, <1>4, <1>6, <1>7, <1>8

\* Every step of Authority is one of Admission, or none.
LEMMA AdmissionOfNext ==
    ASSUME OwnUuids, TypeOK, StoppedInv, FileInv, HeldInv, RevokedInv, NotAccepted,
           WaitingBound, WritesApart, DecisionsApart, [Next]_vars
    PROVE  [Promise!Next]_(Promise!vars)
<1>1. ASSUME NEW h \in Handler, NEW c \in Client, Request(h, c)
      PROVE  UNCHANGED Promise!vars
  <2>1. /\ task[h].pc = "Idle" /\ task'[h].pc \in Calls
        /\ \A k \in Handler \ {h} : task'[k] = task[k]
        /\ UNCHANGED <<up, waiting, allowed, tokens, remote, file>>
    BY <1>1, Requested
  <2> QED BY <2>1, SeenElsewhere DEF Pending, Saving, Calls
<1>2. ASSUME NEW h \in Handler, Serve(h) \/ Discard(h)
      PROVE  [Promise!Next]_(Promise!vars)
  <2>1. DroppedNotAllowed
    BY DEF RevokedInv
  <2>2. CASE Serve(h)
    BY <2>1, <2>2, AdmissionOfAllow, AdmissionOfSave, AdmissionOfRevoke, AdmissionOfSession
    DEF Serve
  <2>3. CASE Discard(h)
    BY <2>3, AdmissionOfSession
  <2> QED BY <1>2, <2>2, <2>3
<1>3. CASE Crash
  <2>1. /\ up /\ ~up' /\ waiting' = {} /\ allowed' = {} /\ remote' = {} /\ Listed' = Listed
        /\ \A h \in Handler : task'[h].pc = "Idle"
    BY <1>3, Stopped DEF Crash
  <2>2. /\ Phase # "stopped" /\ Phase' = "stopped" /\ Accepted' = {}
        /\ Inside' = {} /\ Known' = {}
    BY <2>1 DEF Phase, Accepted, ServedAt, Inside, Known
  <2>3. Promise!Stop
    BY <2>1, <2>2 DEF Promise!Stop
  <2> QED BY <2>3 DEF Promise!Next
<1>4. CASE Restart
  <2>1. /\ ~up /\ up' /\ waiting = {} /\ waiting' = {} /\ allowed = {} /\ allowed' = Listed
        /\ remote = {} /\ remote' = {} /\ Listed' = Listed
        /\ \A h \in Handler : task'[h].pc = "Idle" /\ task[h] = Idle
    BY <1>4, Stopped DEF Restart, StoppedInv
  <2>2. /\ Listed \subseteq Client /\ \A c \in Client : TokensOf(c)' = {}
    BY <1>4, Stopped, ListedType
  <2>3. Phase = "stopped" /\ Phase' = "ready"
    BY <2>1 DEF Phase, Saving
  <2>4. Accepted' = Listed /\ Inside = {} /\ Inside' = {} /\ Known = {} /\ Known' = {}
    BY <2>1, <2>2 DEF Accepted, ServedAt, Inside, Known
  <2>5. Promise!Start
    BY <2>1, <2>3, <2>4 DEF Promise!Start
  <2> QED BY <2>5 DEF Promise!Next
<1>5. CASE UNCHANGED vars
  <2>1. UNCHANGED <<Phase, Accepted, Listed, Inside, Known, waiting>>
    BY <1>5 DEF vars, Phase, Accepted, ServedAt, Listed, Inside, TokensOf, Known
  <2> QED BY <2>1 DEF Promise!vars
<1> QED BY <1>1, <1>2, <1>3, <1>4, <1>5 DEF Next

LEMMA InitAdmission == Init => Promise!Init /\ NotAccepted
<1> SUFFICES ASSUME Init PROVE Promise!Init /\ NotAccepted
  OBVIOUS
<1>1. \A h \in Handler : task[h].pc = "Idle"
  BY Beginning
<1>2. Phase = "ready"
  BY <1>1, Beginning DEF Phase, Saving
<1>3. Accepted = {} /\ Inside = {} /\ Known = {}
  BY <1>1, Beginning DEF Accepted, ServedAt, Inside, Known
<1>4. Promise!Init
  BY <1>2, <1>3, Beginning DEF Promise!Init
<1> QED BY <1>1, <1>4 DEF NotAccepted

\* The authority implements Admission: its requests, though made of many steps,
\* interleaved but for the overlaps that Apart excludes and cut short by a crash
\* anywhere, are single steps of a small atomic specification, and what a
\* restart finds is the allowed list or a part of the one that was being saved.
THEOREM AdmissionImplemented ==
    ASSUME OwnUuids
    PROVE  Spec /\ []Apart => ImplementsAdmission
<1> DEFINE Inv == /\ TypeOK /\ StoppedInv /\ FileInv /\ HeldInv /\ RevokedInv
                  /\ NotAccepted /\ WaitingBound
<1>1. Init => Inv /\ Promise!Init
  BY Beginning, InitRevoked, InitAdmission, InitBounds DEF FileInv, Writing
<1>2. Inv /\ Apart /\ Apart' /\ [Next]_vars => Inv'
  BY NextTypeOK, NextStopped, NextFile, NextHeld, NextRevoked, NextChecked, NextWaitingBound
  DEF Apart
<1>3. Inv /\ Apart /\ [Next]_vars => [Promise!Next]_(Promise!vars)
  BY AdmissionOfNext DEF Apart
<1> QED BY <1>1, <1>2, <1>3, PTL DEF Spec, ImplementsAdmission, Promise!Spec

\* What Admission promises follows from its own steps.
LEMMA AdmissionSound == Promise!Spec => []Promise!Sound
<1>1. Promise!Init => Promise!Sound
  BY DEF Promise!Init, Promise!Sound, Promise!TypeOK
<1>2. Promise!Sound /\ [Promise!Next]_(Promise!vars) => (Promise!Sound)'
  <2> SUFFICES ASSUME Promise!Sound, [Promise!Next]_(Promise!vars)
               PROVE  (Promise!Sound)'
    OBVIOUS
  <2> USE DEF Promise!Sound, Promise!TypeOK
  <2>1. ASSUME NEW c \in Client,
               Promise!Register(c) \/ Promise!Allow(c) \/ Promise!Dismiss(c)
        PROVE  (Promise!Sound)'
    BY <2>1 DEF Promise!Register, Promise!Allow, Promise!Dismiss, Promise!Running
  <2>2. ASSUME NEW c \in Client,
               \/ Promise!Revoke(c) \/ Promise!Enter(c)
               \/ Promise!Update(c) \/ Promise!Leave(c)
        PROVE  (Promise!Sound)'
    BY <2>2 DEF Promise!Revoke, Promise!Enter, Promise!Update, Promise!Leave
  <2>3. CASE Promise!Write \/ Promise!Finish
    BY <2>3 DEF Promise!Write, Promise!Finish
  <2>4. CASE Promise!Stop \/ Promise!Start
    BY <2>4 DEF Promise!Stop, Promise!Start
  <2>5. CASE UNCHANGED Promise!vars
    BY <2>5 DEF Promise!vars
  <2> QED BY <2>1, <2>2, <2>3, <2>4, <2>5 DEF Promise!Next
<1> QED BY <1>1, <1>2, PTL DEF Promise!Spec

\* Then, at every step of a request and not only between two: nobody waits and
\* is accepted, who has a session or shown data is accepted, and the file is the
\* allowed list but for the saves under way.
THEOREM AdmissionHolds ==
    ASSUME OwnUuids
    PROVE  Spec /\ []Apart => []Promise!Sound
BY AdmissionImplemented, AdmissionSound DEF ImplementsAdmission

\* The specification that TLC runs is this one.
LEMMA ApartRuns == ApartSpec => Spec /\ []Apart
<1>1. Init => Apart
  BY Beginning
  DEF Apart, WritesApart, RevocationsUncrossed, DecisionsApart, RegistrationsApart, Together,
      PastCheck, Dropped
<1>2. Apart /\ [Next /\ Apart']_vars => Apart' /\ [Next]_vars
  BY DEF vars, Apart, WritesApart, RevocationsUncrossed, DecisionsApart, RegistrationsApart,
         Together
<1> QED BY <1>1, <1>2, PTL DEF Spec, ApartSpec
=============================================================================
