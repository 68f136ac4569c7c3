------------------------- MODULE RemoteRegistryProofs -------------------------
(***************************************************************************)
(* The safety properties of RemoteRegistry hold for every set of remotes,  *)
(* probes and statuses and every setting of the configuration; and so does *)
(* the one that fails, LastWordIsTrue, where the two behaviours that break *)
(* it are left out.                                                        *)
(***************************************************************************)
EXTENDS RemoteRegistry, TLAPS

\* A wigo Down() has run on is dead and was last stored long ago.
DownIsOld ==
    \A r \in Remote :
        entry[r] # NoWigo /\ entry[r].down =>
            ~entry[r].alive /\ entry[r].age > AliveTimeout

\* What the watchdog found silent is still silent, and what it found fresh was
\* never marked down, as long as its pointer is the one in the map.
HeldIsCurrent ==
    \A r \in Remote :
        held[r] # NoWigo /\ held[r].current =>
            /\ entry[r] # NoWigo
            /\ held[r].stale => entry[r].age > AliveTimeout
            /\ ~held[r].stale => ~entry[r].down

\* Wherever a wigo is seen dead, its host has had a notification.
DeadWasTold ==
    \A r \in Remote :
        hostTold[r] = "none" =>
            /\ entry[r] # NoWigo => entry[r].alive
            /\ held[r] # NoWigo => held[r].alive
            /\ update # NoUpdate /\ update.uuid = r => update.alive

Inv == TypeOK /\ DownIsOld /\ HeldIsCurrent /\ DeadWasTold

-----------------------------------------------------------------------------

LEMMA OlderType ==
    ASSUME NEW age \in Ages
    PROVE  /\ Older(age) \in Ages
           /\ age > AliveTimeout => Older(age) > AliveTimeout
BY RegistryAssumption DEF Older, Ages

LEMMA ToldAfterType ==
    ASSUME NEW old \in Wigo \cup {NoWigo}, NEW new \in Probes, NEW before \in Probes
    PROVE  ToldAfter(old, new, before) \in Probes
BY DEF ToldAfter, Probes

LEMMA AppearedAfterType ==
    ASSUME NEW old \in Wigo \cup {NoWigo}, NEW new \in Probes, NEW before \in Probes
    PROVE  AppearedAfter(old, new, before) \in Probes
BY DEF AppearedAfter, Probes

\* Marking a pointer replaced touches nothing else of it.
LEMMA OrphanedType ==
    ASSUME NEW r \in Remote, held \in [Remote -> Pointer \cup {NoWigo}]
    PROVE  Orphaned(r) \in [Remote -> Pointer \cup {NoWigo}]
BY NoWigoAssumption DEF Orphaned, Pointer

\* What each entry turns into when a second passes.
LEMMA AgedType ==
    ASSUME NEW wigo \in Wigo
    PROVE  [wigo EXCEPT !.age = Older(@)] \in Wigo
<1>1. Older(wigo.age) \in Ages
  BY OlderType DEF Wigo
<1> QED BY <1>1 DEF Wigo

LEMMA MarkedType ==
    ASSUME NEW wigo \in Wigo
    PROVE  Down(wigo) \in Wigo /\ Up(wigo) \in Wigo
BY DEF Wigo, Down, Up

\* The initial state satisfies the invariant.
LEMMA InitInv == Init => Inv
<1> SUFFICES ASSUME Init PROVE Inv
  OBVIOUS
<1>1. TypeOK
  <2>1. [p \in Probe |-> NoProbe] \in Probes
    BY DEF Probes
  <2> QED BY <2>1 DEF Init, TypeOK
<1>2. DownIsOld /\ HeldIsCurrent /\ DeadWasTold
  BY DEF Init, DownIsOld, HeldIsCurrent, DeadWasTold
<1> QED BY <1>1, <1>2 DEF Inv

\* Every step keeps the types.
LEMMA NextTypeOK == Inv /\ [Next]_vars => TypeOK'
<1> SUFFICES ASSUME Inv, [Next]_vars PROVE TypeOK'
  OBVIOUS
<1> USE DEF Inv, TypeOK
<1>1. CASE Tick
  BY <1>1, AgedType DEF Tick
<1>2. ASSUME NEW r \in Remote, NEW probes \in Probes, UpdateBegin(r, probes)
      PROVE  TypeOK'
  <2>1. /\ ToldAfter(entry[r], probes, told[r]) \in Probes
        /\ AppearedAfter(entry[r], probes, appeared[r]) \in Probes
    BY ToldAfterType, AppearedAfterType
  <2>2. InheritedAlive(entry[r]) \in BOOLEAN
    BY DEF InheritedAlive, Wigo
  <2>3. update' \in Update
    BY <1>2, <2>2 DEF UpdateBegin, Update
  <2> QED BY <1>2, <2>1, <2>3 DEF UpdateBegin
<1>3. CASE UpdateEnd
  <2>1. update \in Update
    BY <1>3 DEF UpdateEnd
  <2>2. Stored(entry[update.uuid]) \in Wigo
    BY <2>1, RegistryAssumption DEF Update, Wigo, Ages, Stored
  <2>3. held' \in [Remote -> Pointer \cup {NoWigo}]
    BY <1>3, <2>1, OrphanedType DEF UpdateEnd, Update
  <2> QED BY <1>3, <2>1, <2>2, <2>3 DEF UpdateEnd, Update
<1>4. ASSUME NEW r \in Pushers, Revoke(r) PROVE TypeOK'
  <2>1. held' \in [Remote -> Pointer \cup {NoWigo}]
    BY <1>4, OrphanedType, RegistryAssumption DEF Revoke
  <2> QED BY <1>4, <2>1 DEF Revoke
<1>5. CASE ScanBegin
  <2>1. \A r \in Remote : entry[r] # NoWigo =>
            [stale |-> Stale(entry[r].age), alive |-> entry[r].alive, current |-> TRUE]
                \in Pointer
    BY DEF Stale, Wigo, Pointer
  <2> QED BY <1>5, <2>1 DEF ScanBegin
<1>6. ASSUME NEW r \in Remote, MarkDown(r) PROVE TypeOK'
  BY <1>6, MarkedType DEF MarkDown, Visited, HeldIsCurrent
<1>7. ASSUME NEW r \in Remote, MarkUp(r) PROVE TypeOK'
  BY <1>7, MarkedType DEF MarkUp, Visited, HeldIsCurrent
<1>8. ASSUME NEW r \in Remote, LeaveAlone(r) PROVE TypeOK'
  BY <1>8 DEF LeaveAlone, Visited
<1>9. CASE ScanEnd
  <2>1. scanned' \in BOOLEAN
    BY <1>9, RegistryAssumption DEF ScanEnd
  <2> QED BY <1>9, <2>1 DEF ScanEnd
<1>10. CASE UNCHANGED vars
  BY <1>10 DEF vars
<1> QED
  BY <1>1, <1>2, <1>3, <1>4, <1>5, <1>6, <1>7, <1>8, <1>9, <1>10 DEF Next, Watchdog

\* Down() is only run on a wigo that is silent, and the age of a stored wigo
\* only grows.
LEMMA NextDownIsOld == Inv /\ [Next]_vars => DownIsOld'
<1> SUFFICES ASSUME Inv, [Next]_vars, NEW s \in Remote,
                    entry'[s] # NoWigo, entry'[s].down
             PROVE  ~entry'[s].alive /\ entry'[s].age > AliveTimeout
  BY DEF DownIsOld
<1> USE DEF Inv, TypeOK, DownIsOld
<1>1. CASE Tick
  <2>1. entry[s] \in Wigo
    BY <1>1 DEF Tick
  <2>2. /\ entry'[s].down = entry[s].down
        /\ entry'[s].alive = entry[s].alive
        /\ entry'[s].age = Older(entry[s].age)
    BY <1>1, <2>1 DEF Tick, Wigo
  <2> QED BY <2>1, <2>2, OlderType, NoWigoAssumption DEF Wigo
<1>2. ASSUME NEW r \in Remote, NEW probes \in Probes, UpdateBegin(r, probes)
      PROVE  ~entry'[s].alive /\ entry'[s].age > AliveTimeout
  BY <1>2 DEF UpdateBegin
<1>3. CASE UpdateEnd
  <2>1. update.uuid \in Remote
    BY <1>3 DEF UpdateEnd, Update
  <2> QED BY <1>3, <2>1 DEF UpdateEnd, Stored
<1>4. ASSUME NEW r \in Pushers, Revoke(r)
      PROVE  ~entry'[s].alive /\ entry'[s].age > AliveTimeout
  BY <1>4 DEF Revoke
<1>5. CASE ScanBegin
  BY <1>5 DEF ScanBegin
<1>6. ASSUME NEW r \in Remote, MarkDown(r)
      PROVE  ~entry'[s].alive /\ entry'[s].age > AliveTimeout
  <2>1. CASE held[r].current /\ s = r
    <3>1. entry[s] \in Wigo /\ entry[s].age > AliveTimeout
      BY <1>6, <2>1 DEF MarkDown, HeldIsCurrent
    <3>2. entry'[s] = Down(entry[s])
      BY <1>6, <2>1 DEF MarkDown
    <3> QED BY <3>1, <3>2 DEF Down, Wigo
  <2>2. CASE ~(held[r].current /\ s = r)
    BY <1>6, <2>2 DEF MarkDown
  <2> QED BY <2>1, <2>2
<1>7. ASSUME NEW r \in Remote, MarkUp(r)
      PROVE  ~entry'[s].alive /\ entry'[s].age > AliveTimeout
  <2>1. CASE held[r].current /\ s = r
    <3>1. entry[s] \in Wigo /\ ~entry[s].down
      BY <1>7, <2>1 DEF MarkUp, HeldIsCurrent
    <3>2. entry'[s] = Up(entry[s])
      BY <1>7, <2>1 DEF MarkUp
    <3> QED BY <3>1, <3>2 DEF Up, Wigo
  <2>2. CASE ~(held[r].current /\ s = r)
    BY <1>7, <2>2 DEF MarkUp
  <2> QED BY <2>1, <2>2
<1>8. ASSUME NEW r \in Remote, LeaveAlone(r)
      PROVE  ~entry'[s].alive /\ entry'[s].age > AliveTimeout
  BY <1>8 DEF LeaveAlone
<1>9. CASE ScanEnd
  BY <1>9 DEF ScanEnd
<1>10. CASE UNCHANGED vars
  BY <1>10 DEF vars
<1> QED
  BY <1>1, <1>2, <1>3, <1>4, <1>5, <1>6, <1>7, <1>8, <1>9, <1>10 DEF Next, Watchdog

\* The pointers of the watchdog stay true of the wigos they lead to, and those
\* that no longer lead to the map are known as such.
LEMMA NextHeldIsCurrent == Inv /\ [Next]_vars => HeldIsCurrent'
<1> SUFFICES ASSUME Inv, [Next]_vars, NEW s \in Remote,
                    held'[s] # NoWigo, held'[s].current
             PROVE  /\ entry'[s] # NoWigo
                    /\ held'[s].stale => entry'[s].age > AliveTimeout
                    /\ ~held'[s].stale => ~entry'[s].down
  BY DEF HeldIsCurrent
<1> DEFINE Goal == /\ entry'[s] # NoWigo
                   /\ held'[s].stale => entry'[s].age > AliveTimeout
                   /\ ~held'[s].stale => ~entry'[s].down
<1> USE DEF Inv, TypeOK, HeldIsCurrent
<1>1. CASE Tick
  <2>1. entry[s] \in Wigo /\ held'[s] = held[s]
    BY <1>1 DEF Tick
  <2>2. /\ entry'[s] = [entry[s] EXCEPT !.age = Older(@)]
        /\ entry'[s] \in Wigo
    BY <1>1, <2>1, AgedType DEF Tick
  <2>3. /\ entry'[s].down = entry[s].down
        /\ entry'[s].age = Older(entry[s].age)
    BY <2>1, <2>2 DEF Wigo
  <2> QED BY <2>1, <2>2, <2>3, OlderType, NoWigoAssumption DEF Wigo
<1>2. ASSUME NEW r \in Remote, NEW probes \in Probes, UpdateBegin(r, probes)
      PROVE  Goal
  BY <1>2 DEF UpdateBegin
<1>3. CASE UpdateEnd
  <2>1. update.uuid \in Remote
    BY <1>3 DEF UpdateEnd, Update
  <2>2. s # update.uuid
    BY <1>3, <2>1, NoWigoAssumption DEF UpdateEnd, Orphaned, Pointer
  <2> QED BY <1>3, <2>1, <2>2 DEF UpdateEnd, Orphaned
<1>4. ASSUME NEW r \in Pushers, Revoke(r)
      PROVE  Goal
  <2>1. r \in Remote
    BY <1>4, RegistryAssumption
  <2>2. s # r
    BY <1>4, <2>1, NoWigoAssumption DEF Revoke, Orphaned, Pointer
  <2> QED BY <1>4, <2>1, <2>2 DEF Revoke, Orphaned
<1>5. CASE ScanBegin
  <2>1. entry[s] \in Wigo /\ entry' = entry /\ held'[s].stale = Stale(entry[s].age)
    BY <1>5 DEF ScanBegin
  <2> QED BY <2>1, NoWigoAssumption DEF Stale, DownIsOld, Wigo
<1>6. ASSUME NEW r \in Remote, MarkDown(r)
      PROVE  Goal
  BY <1>6 DEF MarkDown, Visited
<1>7. ASSUME NEW r \in Remote, MarkUp(r)
      PROVE  Goal
  BY <1>7 DEF MarkUp, Visited
<1>8. ASSUME NEW r \in Remote, LeaveAlone(r)
      PROVE  Goal
  BY <1>8 DEF LeaveAlone, Visited
<1>9. CASE ScanEnd
  BY <1>9 DEF ScanEnd
<1>10. CASE UNCHANGED vars
  BY <1>10 DEF vars
<1> QED
  BY <1>1, <1>2, <1>3, <1>4, <1>5, <1>6, <1>7, <1>8, <1>9, <1>10 DEF Next, Watchdog

\* A wigo is only dead through Down(), which is notified, and the flag is
\* inherited from one stored wigo of the host to the next.
LEMMA NextDeadWasTold == Inv /\ [Next]_vars => DeadWasTold'
<1> SUFFICES ASSUME Inv, [Next]_vars, NEW s \in Remote, hostTold'[s] = "none"
             PROVE  /\ entry'[s] # NoWigo => entry'[s].alive
                    /\ held'[s] # NoWigo => held'[s].alive
                    /\ update' # NoUpdate /\ update'.uuid = s => update'.alive
  BY DEF DeadWasTold
<1> DEFINE Goal == /\ entry'[s] # NoWigo => entry'[s].alive
                   /\ held'[s] # NoWigo => held'[s].alive
                   /\ update' # NoUpdate /\ update'.uuid = s => update'.alive
<1> USE DEF Inv, TypeOK, DeadWasTold
<1>1. CASE Tick
  <2>1. entry[s] # NoWigo => entry'[s].alive = entry[s].alive
    BY <1>1 DEF Tick, Wigo
  <2> QED BY <1>1, <2>1 DEF Tick
<1>2. ASSUME NEW r \in Remote, NEW probes \in Probes, UpdateBegin(r, probes)
      PROVE  Goal
  <2>1. s = r => InheritedAlive(entry[r])
    BY <1>2 DEF UpdateBegin, InheritedAlive
  <2> QED BY <1>2, <2>1 DEF UpdateBegin
<1>3. CASE UpdateEnd
  <2>1. update \in Update
    BY <1>3 DEF UpdateEnd
  <2>2. held'[s] # NoWigo => held[s] # NoWigo /\ held'[s].alive = held[s].alive
    BY <1>3, <2>1 DEF UpdateEnd, Orphaned, Pointer, Update
  <2>3. entry'[s] # NoWigo => entry'[s].alive
    BY <1>3, <2>1 DEF UpdateEnd, Update, Stored
  <2> QED BY <1>3, <2>2, <2>3 DEF UpdateEnd
<1>4. ASSUME NEW r \in Pushers, Revoke(r)
      PROVE  Goal
  <2>1. r \in Remote
    BY <1>4, RegistryAssumption
  <2>2. held'[s] # NoWigo => held[s] # NoWigo /\ held'[s].alive = held[s].alive
    BY <1>4, <2>1 DEF Revoke, Orphaned, Pointer
  <2> QED BY <1>4, <2>1, <2>2 DEF Revoke
<1>5. CASE ScanBegin
  <2>1. held'[s] # NoWigo => entry[s] # NoWigo /\ held'[s].alive = entry[s].alive
    BY <1>5 DEF ScanBegin
  <2> QED BY <1>5, <2>1 DEF ScanBegin
<1>6. ASSUME NEW r \in Remote, MarkDown(r)
      PROVE  Goal
  <2>1. s # r
    BY <1>6 DEF MarkDown
  <2> QED BY <1>6, <2>1 DEF MarkDown, Visited
<1>7. ASSUME NEW r \in Remote, MarkUp(r)
      PROVE  Goal
  <2>1. s # r
    BY <1>7 DEF MarkUp
  <2> QED BY <1>7, <2>1 DEF MarkUp, Visited
<1>8. ASSUME NEW r \in Remote, LeaveAlone(r)
      PROVE  Goal
  BY <1>8 DEF LeaveAlone, Visited
<1>9. CASE ScanEnd
  BY <1>9 DEF ScanEnd
<1>10. CASE UNCHANGED vars
  BY <1>10 DEF vars
<1> QED
  BY <1>1, <1>2, <1>3, <1>4, <1>5, <1>6, <1>7, <1>8, <1>9, <1>10 DEF Next, Watchdog

LEMMA NextInv == Inv /\ [Next]_vars => Inv'
BY NextTypeOK, NextDownIsOld, NextHeldIsCurrent, NextDeadWasTold DEF Inv

-----------------------------------------------------------------------------
\* The registry, the watchdog's copy and the update in progress keep their
\* types, whatever the interleaving.
THEOREM TypeCorrect == Spec => []TypeOK
<1>1. Inv => TypeOK
  BY DEF Inv
<1> QED BY <1>1, InitInv, NextInv, PTL DEF Spec

\* No wigo that Down() marked 999 is ever shown alive again.
THEOREM NeverAlive999 == Spec => []AliveNever999
<1>1. Inv => AliveNever999
  BY DEF Inv, DownIsOld, AliveNever999
<1> QED BY <1>1, InitInv, NextInv, PTL DEF Spec

\* "Host X UP" is only ever sent after "Host X DOWN".
THEOREM UpOnlyAfterDown == Spec => UpAfterDown
<1>1. Inv /\ [Next]_vars =>
          [\A r \in Remote : hostTold[r] = "none" => hostTold'[r] # "UP"]_vars
  <2> SUFFICES ASSUME Inv, [Next]_vars, NEW s \in Remote,
                      hostTold[s] = "none", hostTold'[s] = "UP"
               PROVE  FALSE
    OBVIOUS
  <2> USE DEF Inv, TypeOK
  <2>1. ASSUME NEW r \in Remote, MarkUp(r) PROVE FALSE
    <3>1. s = r
      BY <2>1 DEF MarkUp
    <3>2. held[r] # NoWigo /\ ~held[r].alive
      BY <2>1 DEF MarkUp
    <3> QED BY <3>1, <3>2 DEF DeadWasTold
  <2>2. ASSUME NEW r \in Remote, MarkDown(r) PROVE FALSE
    BY <2>2 DEF MarkDown
  <2>3. CASE hostTold' = hostTold
    BY <2>3
  <2> QED
    BY <2>1, <2>2, <2>3
    DEF Next, Watchdog, Tick, UpdateBegin, UpdateEnd, Revoke, ScanBegin,
        LeaveAlone, ScanEnd, vars
<1> QED BY <1>1, InitInv, NextInv, PTL DEF Spec, UpAfterDown

-----------------------------------------------------------------------------
\* The heart of ToldProbeStatus: a change is told, or it stays below the level.
LEMMA WeSendCovers ==
    ASSUME OnProbeChange, NEW old \in Status, NEW new \in Status,
           old # new, ~WeSend(old, new)
    PROVE  old < MinLevelToSend /\ new < MinLevelToSend
BY RegistryAssumption DEF WeSend

\* What was last sent of a probe or, when nothing was sent since, what it
\* appeared with.
Reference(since, sent) == IF since # NoProbe THEN since ELSE sent

\* One comparison of wigos carries the property from the old to the new one.
LEMMA ToldAfterCovers ==
    ASSUME OnProbeChange, NEW old \in Wigo \cup {NoWigo}, NEW new \in Probes,
           NEW sent \in Probes, NEW since \in Probes, NEW p \in Probe, new[p] # NoProbe,
           old # NoWigo /\ old.probes[p] # NoProbe =>
               Alike(Reference(since[p], sent[p]), old.probes[p])
    PROVE  Alike(Reference(AppearedAfter(old, new, since)[p], ToldAfter(old, new, sent)[p]),
                 new[p])
<1>1. new[p] \in Status
  BY DEF Probes
<1>2. CASE Appears(old, new, p)
  BY <1>1, <1>2 DEF AppearedAfter, Reference, Alike
<1>3. CASE Sent(old, new, p)
  <2>1. AppearedAfter(old, new, since)[p] = NoProbe
    BY <1>3 DEF AppearedAfter, Appears, Sent
  <2>2. ToldAfter(old, new, sent)[p] = new[p]
    BY <1>3 DEF ToldAfter
  <2> QED BY <2>1, <2>2 DEF Reference, Alike
<1>4. CASE ~Appears(old, new, p) /\ ~Sent(old, new, p)
  <2>1. old # NoWigo /\ old.probes[p] # NoProbe
    BY <1>4 DEF Appears
  <2>2. old.probes[p] \in Status
    BY <2>1 DEF Probes, Wigo
  <2>3. /\ AppearedAfter(old, new, since)[p] = since[p]
        /\ ToldAfter(old, new, sent)[p] = sent[p]
    BY <1>4 DEF AppearedAfter, ToldAfter
  <2>4. Alike(Reference(since[p], sent[p]), old.probes[p])
    BY <2>1
  <2>5. CASE old.probes[p] = new[p]
    BY <2>3, <2>4, <2>5
  <2>6. CASE old.probes[p] # new[p]
    <3>1. ~WeSend(old.probes[p], new[p])
      BY <1>4, <2>1, <2>6 DEF Sent
    <3>2. old.probes[p] < MinLevelToSend /\ new[p] < MinLevelToSend
      BY <1>1, <2>2, <2>6, <3>1, WeSendCovers
    <3> QED BY <2>1, <2>3, <2>4, <3>2 DEF Alike
  <2> QED BY <2>5, <2>6
<1> QED BY <1>2, <1>3, <1>4

\* What a step must do to be a comparison of wigos, for probe p of host s, or
\* none of their concern.
Untouched(s) ==
    /\ told'[s] = told[s] /\ appeared'[s] = appeared[s]
    /\ Known(s)' => Known(s) /\ Latest(s)' = Latest(s)
Compared(s) ==
    \E probes \in Probes :
        /\ told'[s] = ToldAfter(entry[s], probes, told[s])
        /\ appeared'[s] = AppearedAfter(entry[s], probes, appeared[s])
        /\ Known(s)' /\ Latest(s)' = probes
        /\ Known(s) <=> entry[s] # NoWigo
        /\ entry[s] # NoWigo => Latest(s) = entry[s].probes

\* Every step compares the wigos of a host, or touches neither what is known of
\* it nor what was sent.
LEMMA StepsOfAHost ==
    ASSUME Inv, [Next]_vars, NEW s \in Remote
    PROVE  Untouched(s) \/ Compared(s)
<1> USE DEF Inv, TypeOK
<1>1. ASSUME NEW r \in Remote, NEW probes \in Probes, UpdateBegin(r, probes)
      PROVE  Untouched(s) \/ Compared(s)
  <2>1. CASE s = r
    <3>1. InheritedAlive(entry[r]) \in BOOLEAN
      BY DEF InheritedAlive, Wigo
    <3>2. update' \in Update /\ update'.uuid = s /\ update'.probes = probes
      BY <1>1, <2>1, <3>1 DEF UpdateBegin, Update
    <3>3. Known(s)' /\ Latest(s)' = probes
      BY <3>2, NoWigoAssumption DEF Known, Latest
    <3>4. /\ told'[s] = ToldAfter(entry[s], probes, told[s])
          /\ appeared'[s] = AppearedAfter(entry[s], probes, appeared[s])
      BY <1>1, <2>1 DEF UpdateBegin
    <3>5. /\ Known(s) <=> entry[s] # NoWigo
          /\ entry[s] # NoWigo => Latest(s) = entry[s].probes
      BY <1>1 DEF UpdateBegin, Known, Latest
    <3> QED BY <3>3, <3>4, <3>5 DEF Compared
  <2>2. CASE s # r
    BY <1>1, <2>2 DEF UpdateBegin, Untouched, Known, Latest
  <2> QED BY <2>1, <2>2
<1>2. CASE UpdateEnd
  <2>1. update \in Update
    BY <1>2 DEF UpdateEnd
  <2> QED BY <1>2, <2>1 DEF UpdateEnd, Untouched, Known, Latest, Update, Stored
<1>3. ASSUME NEW r \in Pushers, Revoke(r)
      PROVE  Untouched(s) \/ Compared(s)
  BY <1>3, RegistryAssumption DEF Revoke, Untouched, Known, Latest
<1>4. CASE Tick
  <2>1. entry'[s] # NoWigo => entry[s] # NoWigo /\ entry'[s].probes = entry[s].probes
    BY <1>4 DEF Tick, Wigo
  <2> QED BY <1>4, <2>1 DEF Tick, Untouched, Known, Latest
<1>5. ASSUME NEW r \in Remote, MarkDown(r) \/ MarkUp(r)
      PROVE  Untouched(s) \/ Compared(s)
  <2>1. entry'[s] # NoWigo =>
            entry[s] # NoWigo /\ entry'[s].probes = entry[s].probes
    <3>1. CASE held[r].current /\ s = r
      <4>1. entry[s] \in Wigo
        BY <1>5, <3>1 DEF MarkDown, MarkUp, HeldIsCurrent
      <4>2. entry'[s] = Down(entry[s]) \/ entry'[s] = Up(entry[s])
        BY <1>5, <3>1 DEF MarkDown, MarkUp
      <4> QED BY <4>1, <4>2, NoWigoAssumption DEF Down, Up, Wigo
    <3>2. CASE ~(held[r].current /\ s = r)
      BY <1>5, <3>2 DEF MarkDown, MarkUp
    <3> QED BY <3>1, <3>2
  <2>2. UNCHANGED <<update, told, appeared>>
    BY <1>5 DEF MarkDown, MarkUp
  <2> QED BY <2>1, <2>2 DEF Untouched, Known, Latest
<1>6. CASE UNCHANGED <<entry, update, told, appeared>>
  BY <1>6 DEF Untouched, Known, Latest
<1> QED
  BY <1>1, <1>2, <1>3, <1>4, <1>5, <1>6
  DEF Next, Watchdog, ScanBegin, LeaveAlone, ScanEnd, vars

LEMMA NextToldProbeStatus == Inv /\ ToldProbeStatus /\ [Next]_vars => ToldProbeStatus'
<1> SUFFICES ASSUME Inv, ToldProbeStatus, [Next]_vars, OnProbeChange,
                    NEW s \in Remote, NEW p \in Probe, Shown(s, p)'
             PROVE  Alike(Reference(appeared'[s][p], told'[s][p]), Latest(s)'[p])
  BY DEF ToldProbeStatus, Reference, Alike
<1>1. CASE Untouched(s)
  <2>1. Shown(s, p) /\ Latest(s)' = Latest(s)
    BY <1>1 DEF Untouched, Shown
  <2>2. Alike(Reference(appeared[s][p], told[s][p]), Latest(s)[p])
    BY <2>1 DEF ToldProbeStatus, Reference
  <2> QED BY <1>1, <2>1, <2>2 DEF Untouched
<1>2. CASE Compared(s)
  <2>1. PICK probes \in Probes :
            /\ told'[s] = ToldAfter(entry[s], probes, told[s])
            /\ appeared'[s] = AppearedAfter(entry[s], probes, appeared[s])
            /\ Known(s)' /\ Latest(s)' = probes
            /\ Known(s) <=> entry[s] # NoWigo
            /\ entry[s] # NoWigo => Latest(s) = entry[s].probes
    BY <1>2 DEF Compared
  <2>2. entry[s] # NoWigo /\ entry[s].probes[p] # NoProbe =>
            Alike(Reference(appeared[s][p], told[s][p]), entry[s].probes[p])
    BY <2>1 DEF ToldProbeStatus, Shown, Reference
  <2>3. /\ entry[s] \in Wigo \cup {NoWigo} /\ told[s] \in Probes
        /\ appeared[s] \in Probes /\ probes[p] # NoProbe
    BY <2>1 DEF Inv, TypeOK, Shown
  <2> QED BY <2>1, <2>2, <2>3, ToldAfterCovers
<1> QED BY <1>1, <1>2, StepsOfAHost

\* Whatever the remotes, the probes, the levels and the interleaving: while a
\* probe stays with its host, what is known of it is like what was last sent of
\* it or, when nothing was sent since, like what it appeared with.
THEOREM ToldCorrect == Spec => []ToldProbeStatus
<1>1. Init => ToldProbeStatus
  BY DEF Init, ToldProbeStatus, Shown, Known
<1> QED BY <1>1, InitInv, NextInv, NextToldProbeStatus, PTL DEF Spec

-----------------------------------------------------------------------------
(* When the last notification of a probe is true.  LastProbeWordIsTrue does *)
(* not hold of the code: a probe that goes and comes back breaks it, and    *)
(* nothing else does.                                                       *)

\* No probe goes: not with the data of its host, and not from an update.
ProbesStay ==
    \A r \in Remote, p \in Probe : Shown(r, p) => Shown(r, p)'

\* What appears has never been sent before.
FirstAppearance ==
    \A r \in Remote, p \in Probe :
        (Shown(r, p) => appeared[r][p] # NoProbe) => told[r][p] = NoProbe

LEMMA NextFirstAppearance ==
    ASSUME Inv, FirstAppearance, [Next]_vars, [ProbesStay]_vars
    PROVE  FirstAppearance'
<1> SUFFICES ASSUME NEW s \in Remote, NEW p \in Probe,
                    Shown(s, p)' => appeared'[s][p] # NoProbe
             PROVE  told'[s][p] = NoProbe
  BY DEF FirstAppearance
<1>1. CASE UNCHANGED vars
  BY <1>1 DEF FirstAppearance, Shown, Known, Latest, vars
<1>2. CASE Untouched(s) /\ ProbesStay
  <2>1. Shown(s, p) => appeared[s][p] # NoProbe
    BY <1>2 DEF ProbesStay, Untouched
  <2> QED BY <1>2, <2>1 DEF Untouched, FirstAppearance
<1>3. CASE Compared(s) /\ ProbesStay
  <2>1. PICK probes \in Probes :
            /\ told'[s] = ToldAfter(entry[s], probes, told[s])
            /\ appeared'[s] = AppearedAfter(entry[s], probes, appeared[s])
            /\ Known(s)' /\ Latest(s)' = probes
            /\ Known(s) <=> entry[s] # NoWigo
            /\ entry[s] # NoWigo => Latest(s) = entry[s].probes
    BY <1>3 DEF Compared
  <2>2. Shown(s, p) <=> entry[s] # NoWigo /\ entry[s].probes[p] # NoProbe
    BY <2>1 DEF Shown
  <2>3. Shown(s, p)' <=> probes[p] # NoProbe
    BY <2>1 DEF Shown
  <2>4. ~Sent(entry[s], probes, p)
    <3> SUFFICES ASSUME Sent(entry[s], probes, p) PROVE FALSE
      OBVIOUS
    <3>1. appeared'[s][p] = NoProbe
      BY <2>1 DEF AppearedAfter, Appears, Sent
    <3> QED BY <2>3, <3>1 DEF Sent
  <2>5. told'[s][p] = told[s][p]
    BY <2>1, <2>4 DEF ToldAfter
  <2>6. Shown(s, p) => appeared[s][p] # NoProbe
    <3> SUFFICES ASSUME Shown(s, p) PROVE appeared[s][p] # NoProbe
      OBVIOUS
    <3>1. Shown(s, p)' /\ appeared'[s][p] # NoProbe
      BY <1>3 DEF ProbesStay
    <3>2. ~Appears(entry[s], probes, p)
      BY <2>2 DEF Appears
    <3> QED BY <2>1, <2>3, <2>4, <3>1, <3>2 DEF AppearedAfter
  <2> QED BY <2>5, <2>6 DEF FirstAppearance
<1> QED BY <1>1, <1>2, <1>3, StepsOfAHost

\* As long as no probe goes from the data of its host, neither by a revocation
\* nor by an update without it, the last notification of a probe is still true,
\* or neither it nor the status reaches MinLevelToSend.
THEOREM LastProbeWordWhenProbesStay ==
    Spec /\ [][ProbesStay]_vars => []LastProbeWordIsTrue
<1>1. Init => FirstAppearance
  BY DEF Init, FirstAppearance
<1>2. Inv /\ FirstAppearance /\ [Next]_vars /\ [ProbesStay]_vars => FirstAppearance'
  BY NextFirstAppearance
<1>3. FirstAppearance /\ ToldProbeStatus => LastProbeWordIsTrue
  BY DEF FirstAppearance, ToldProbeStatus, LastProbeWordIsTrue
<1> QED BY <1>1, <1>2, <1>3, InitInv, NextInv, ToldCorrect, PTL DEF Spec

-----------------------------------------------------------------------------
(* When the last word is true.  LastWordIsTrue does not hold of the code;  *)
(* these are the two ways to break it, and there is no other.              *)

\* No scan of the watchdog meets an update between its two steps.
Apart == scanning => update = NoUpdate

\* Nobody's data is removed.
NobodyRevoked == \A r \in Remote : entry[r] # NoWigo => entry'[r] # NoWigo

\* What the watchdog holds is then what the map has, and what an update passes
\* on what the map had: between the two, the flag and the last word agree.
AgreeInv ==
    /\ \A r \in Remote :
          IF entry[r] = NoWigo THEN hostTold[r] # "DOWN"
          ELSE hostTold[r] = "DOWN" <=> ~entry[r].alive
    /\ \A r \in Remote :
          held[r] # NoWigo =>
              /\ scanning /\ held[r].current /\ entry[r] # NoWigo
              /\ held[r].alive = entry[r].alive
    /\ update # NoUpdate => update.alive = InheritedAlive(entry[update.uuid])

LEMMA NextAgreeInv ==
    ASSUME Inv, AgreeInv, Apart, Apart', [Next]_vars, [NobodyRevoked]_vars
    PROVE  AgreeInv'
<1> USE DEF Inv, TypeOK, AgreeInv
<1>1. CASE Tick
  <2>1. \A r \in Remote :
            /\ entry'[r] = NoWigo <=> entry[r] = NoWigo
            /\ entry[r] # NoWigo => entry'[r].alive = entry[r].alive
    <3> SUFFICES ASSUME NEW r \in Remote, entry[r] # NoWigo
                 PROVE  entry'[r] # NoWigo /\ entry'[r].alive = entry[r].alive
      BY <1>1 DEF Tick
    <3>1. entry[r] \in Wigo /\ entry'[r] = [entry[r] EXCEPT !.age = Older(@)]
      BY <1>1 DEF Tick
    <3>2. entry'[r] \in Wigo
      BY <3>1, AgedType
    <3> QED BY <3>1, <3>2, NoWigoAssumption DEF Wigo
  <2>2. update # NoUpdate => update.uuid \in Remote
    BY DEF Update
  <2> QED BY <1>1, <2>1, <2>2 DEF Tick, InheritedAlive
<1>2. ASSUME NEW r \in Remote, NEW probes \in Probes, UpdateBegin(r, probes)
      PROVE  AgreeInv'
  BY <1>2 DEF UpdateBegin
<1>3. CASE UpdateEnd
  <2>1. update \in Update /\ update.uuid \in Remote
    BY <1>3 DEF UpdateEnd, Update
  <2>2. \A r \in Remote : held[r] = NoWigo /\ held'[r] = NoWigo
    BY <1>3, <2>1 DEF UpdateEnd, Apart, Orphaned
  <2>3. /\ entry' = [entry EXCEPT ![update.uuid] = Stored(@)]
        /\ Stored(entry[update.uuid]) \in Wigo
        /\ Stored(entry[update.uuid]).alive = InheritedAlive(entry[update.uuid])
    <3>1. Stored(entry[update.uuid]) \in Wigo
      BY <2>1, RegistryAssumption DEF Stored, Update, Wigo, Ages
    <3>2. Stored(entry[update.uuid]).alive = update.alive
      BY DEF Stored
    <3> QED BY <1>3, <3>1, <3>2 DEF UpdateEnd
  <2> QED BY <1>3, <2>1, <2>2, <2>3, NoWigoAssumption DEF UpdateEnd, InheritedAlive
<1>4. ASSUME NEW r \in Pushers, Revoke(r)
      PROVE  AgreeInv'
  BY <1>4, RegistryAssumption DEF Revoke, NobodyRevoked, vars
<1>5. CASE ScanBegin
  BY <1>5, NoWigoAssumption DEF ScanBegin
<1>6. ASSUME NEW r \in Remote, MarkDown(r) \/ MarkUp(r)
      PROVE  AgreeInv'
  <2>1. scanning /\ entry[r] \in Wigo /\ update = NoUpdate
    BY <1>6 DEF MarkDown, MarkUp, Apart
  <2>2. \/ /\ entry' = [entry EXCEPT ![r] = Down(@)]
           /\ hostTold' = [hostTold EXCEPT ![r] = "DOWN"]
        \/ /\ entry' = [entry EXCEPT ![r] = Up(@)]
           /\ hostTold' = [hostTold EXCEPT ![r] = "UP"]
    BY <1>6 DEF MarkDown, MarkUp
  <2>3. /\ Down(entry[r]) # NoWigo /\ Down(entry[r]).alive = FALSE
        /\ Up(entry[r]) # NoWigo /\ Up(entry[r]).alive = TRUE
    <3>1. Down(entry[r]) \in Wigo /\ Up(entry[r]) \in Wigo
      BY <2>1, MarkedType
    <3> QED BY <2>1, <3>1, NoWigoAssumption DEF Down, Up, Wigo
  <2>4. held' = [held EXCEPT ![r] = NoWigo] /\ update' = update /\ scanning' = scanning
    BY <1>6 DEF MarkDown, MarkUp, Visited
  <2> QED BY <2>1, <2>2, <2>3, <2>4
<1>7. ASSUME NEW r \in Remote, LeaveAlone(r)
      PROVE  AgreeInv'
  BY <1>7 DEF LeaveAlone, Visited
<1>8. CASE ScanEnd
  BY <1>8 DEF ScanEnd
<1>9. CASE UNCHANGED vars
  BY <1>9 DEF vars
<1> QED
  BY <1>1, <1>2, <1>3, <1>4, <1>5, <1>6, <1>7, <1>8, <1>9 DEF Next, Watchdog

\* As long as no update is under way while the watchdog scans, and nobody is
\* revoked, the last word on a host is DOWN exactly when it is shown down: the
\* missing lock between AddOrUpdateRemoteWigo and the watchdog, and the
\* notification that RevokeClient leaves standing, are all that is wrong.
THEOREM LastWordWhenApart == Spec /\ []Apart /\ [][NobodyRevoked]_vars => []LastWordIsTrue
<1>1. Init => AgreeInv
  BY DEF Init, AgreeInv
<1>2. Inv /\ AgreeInv /\ Apart /\ Apart' /\ [Next]_vars /\ [NobodyRevoked]_vars => AgreeInv'
  BY NextAgreeInv
<1>3. AgreeInv => LastWordIsTrue
  BY DEF AgreeInv, LastWordIsTrue
<1> QED BY <1>1, <1>2, <1>3, InitInv, NextInv, PTL DEF Spec
=============================================================================
