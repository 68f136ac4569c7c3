---------------------------- MODULE RemoteRegistry ----------------------------
(***************************************************************************)
(* The registry of remote wigos: LocalWigo.RemoteWigos, the goroutines     *)
(* that write it (pull routines and push handlers through                  *)
(* AddOrUpdateRemoteWigo, an administrator through RevokeClient) and the   *)
(* UP/DOWN watchdog started by InitWigo.                                   *)
(*                                                                         *)
(* AddOrUpdateRemoteWigo holds the lock of the local wigo from end to end, *)
(* but neither the watchdog nor RevokeClient takes it.  So an update is    *)
(* two steps, UpdateBegin (read the old wigo, compare) and UpdateEnd       *)
(* (store the new one), and the watchdog and the administrator move        *)
(* between them.  The watchdog works on pointers: a wigo it holds may have *)
(* been replaced in the map, and what it then writes is seen by nobody.    *)
(***************************************************************************)
EXTENDS Integers

CONSTANTS
    Remote,          \* uuids of the remote wigos (the local one is not among them)
    Pushers,         \* the remotes known through the push server: only they are revoked
    Probe,           \* probe names
    Status,          \* probe statuses that occur
    AliveTimeout,    \* Global.AliveTimeout, in ticks
    MinLevelToSend,  \* Notifications.MinLevelToSend
    OnProbeChange,   \* Notifications.OnProbeChange
    UpdateGap,       \* ticks between two updates of a remote; 0: no regular schedule
    NoWigo, NoProbe, NoUpdate

ASSUME RegistryAssumption ==
    /\ Pushers \subseteq Remote
    /\ Status \subseteq Nat
    /\ AliveTimeout \in Nat
    /\ MinLevelToSend \in Nat
    /\ OnProbeChange \in BOOLEAN
    /\ UpdateGap \in Nat
    /\ NoProbe \notin Status

VARIABLES
    entry,     \* RemoteWigos: the wigo stored for each uuid
    update,    \* the AddOrUpdateRemoteWigo in progress: it holds the local wigo's lock
    scanning,  \* the watchdog is between IterBuffered and the end of its loop
    held,      \* what the watchdog has still to visit in this scan
    scanned,   \* a scan has ended since the last tick, where the schedule is regular
    \* History variables: what was sent, which the code does not remember.
    told,      \* per probe, the status in the last notification sent of it
    appeared,  \* the status it appeared with, until something is sent of it
    hostTold   \* per host, the last UP or DOWN notification

vars == <<entry, update, scanning, held, scanned, told, appeared, hostTold>>

Ages == 0 .. AliveTimeout + 1
Probes == [Probe -> Status \cup {NoProbe}]

\* "down" says that Down() has put 999 in the statuses of this wigo.
Wigo == [alive : BOOLEAN, age : Ages, down : BOOLEAN, probes : Probes]
Update == [uuid : Remote, alive : BOOLEAN, probes : Probes]

\* A pointer of the watchdog; "current" while it is the one in the map.
Pointer == [stale : BOOLEAN, alive : BOOLEAN, current : BOOLEAN]

ASSUME NoWigoAssumption ==
    /\ NoWigo \notin Wigo
    /\ NoWigo \notin Pointer
    /\ NoUpdate \notin Update

TypeOK ==
    /\ entry \in [Remote -> Wigo \cup {NoWigo}]
    /\ update \in Update \cup {NoUpdate}
    /\ scanning \in BOOLEAN
    /\ held \in [Remote -> Pointer \cup {NoWigo}]
    /\ scanned \in BOOLEAN
    /\ told \in [Remote -> Probes]
    /\ appeared \in [Remote -> Probes]
    /\ hostTold \in [Remote -> {"none", "DOWN", "UP"}]

-----------------------------------------------------------------------------
(* What the code decides from data.                                        *)

\* Ages above AliveTimeout are not told apart.
Older(age) == IF age > AliveTimeout THEN age ELSE age + 1

\* LastUpdate < now - AliveTimeout
StaleLate(age) == age > AliveTimeout + 1
Stale(age) == age > AliveTimeout

\* NewNotificationProbe sends a change that reaches MinLevelToSend or comes
\* back from there.
WeSendNoRecovery(old, new) == OnProbeChange /\ new >= MinLevelToSend
WeSend(old, new) ==
    /\ OnProbeChange
    /\ \/ new < old /\ old >= MinLevelToSend
       \/ new >= MinLevelToSend

\* A new wigo says it is alive; AddOrUpdateRemoteWigo takes that back when the
\* wigo it replaces is marked down.
InheritedAliveNew(old) == old # NoWigo /\ old.alive
InheritedAlive(old) == old = NoWigo \/ old.alive

\* CompareTwoWigosAndRaiseNotifications compares a wigo with the one it
\* replaces, if there is one.  A probe that appears or disappears is only
\* logged; a status that changes is sent when WeSend says so.
Appears(old, new, p) ==
    new[p] # NoProbe /\ (old = NoWigo \/ old.probes[p] = NoProbe)
Sent(old, new, p) ==
    /\ old # NoWigo /\ new[p] # NoProbe /\ old.probes[p] # NoProbe
    /\ old.probes[p] # new[p] /\ WeSend(old.probes[p], new[p])

ToldAfter(old, new, before) ==
    [p \in Probe |-> IF Sent(old, new, p) THEN new[p] ELSE before[p]]
AppearedAfter(old, new, before) ==
    [p \in Probe |->
        IF Appears(old, new, p) THEN new[p]
        ELSE IF new[p] = NoProbe \/ Sent(old, new, p) THEN NoProbe
        ELSE before[p]]

\* The pointer the watchdog has of r no longer leads to the map's wigo.
Orphaned(r) ==
    [held EXCEPT ![r] = IF @ = NoWigo THEN NoWigo ELSE [@ EXCEPT !.current = FALSE]]

-----------------------------------------------------------------------------
Init ==
    /\ entry = [r \in Remote |-> NoWigo]
    /\ update = NoUpdate
    /\ scanning = FALSE
    /\ held = [r \in Remote |-> NoWigo]
    /\ scanned = FALSE
    /\ told = [r \in Remote |-> [p \in Probe |-> NoProbe]]
    /\ appeared = told
    /\ hostTold = [r \in Remote |-> "none"]

\* One second passes.  With an UpdateGap the schedule is the regular one: the
\* watchdog has done its scan of the second.
Tick ==
    /\ UpdateGap > 0 => scanned
    /\ entry' = [r \in Remote |->
                    IF entry[r] = NoWigo THEN NoWigo
                    ELSE [entry[r] EXCEPT !.age = Older(@)]]
    /\ scanned' = FALSE
    /\ UNCHANGED <<update, scanning, held, told, appeared, hostTold>>

\* AddOrUpdateRemoteWigo takes the lock, reads the wigo it replaces and raises
\* the notifications of the differences.
UpdateBegin(r, probes) ==
    /\ update = NoUpdate
    /\ entry[r] # NoWigo => entry[r].age >= UpdateGap
    /\ update' = [uuid |-> r, alive |-> InheritedAlive(entry[r]), probes |-> probes]
    /\ told' = [told EXCEPT ![r] = ToldAfter(entry[r], probes, @)]
    /\ appeared' = [appeared EXCEPT ![r] = AppearedAfter(entry[r], probes, @)]
    /\ UNCHANGED <<entry, scanning, held, scanned, hostTold>>

\* The wigo stored is a new one: of the old one it has no more than what
\* InheritedAlive passed on.
StoredWithTheirClock(old) ==
    [alive |-> update.alive, age |-> -1, down |-> FALSE, probes |-> update.probes]
StoredInPlace(old) ==
    [alive |-> update.alive, age |-> 0, down |-> old # NoWigo /\ old.down,
     probes |-> update.probes]
Stored(old) ==
    [alive |-> update.alive, age |-> 0, down |-> FALSE, probes |-> update.probes]

\* It stores the new wigo, stamped with the time, and releases the lock.
UpdateEnd ==
    /\ update # NoUpdate
    /\ entry' = [entry EXCEPT ![update.uuid] = Stored(@)]
    /\ held' = Orphaned(update.uuid)
    /\ update' = NoUpdate
    /\ UNCHANGED <<scanning, scanned, told, appeared, hostTold>>

\* RevokeClient removes the client's data, without the lock.
Revoke(r) ==
    /\ entry[r] # NoWigo
    /\ entry' = [entry EXCEPT ![r] = NoWigo]
    /\ held' = Orphaned(r)
    /\ UNCHANGED <<update, scanning, scanned, told, appeared, hostTold>>

\* The watchdog reads the clock and takes its copy of the map.
ScanBegin ==
    /\ ~scanning
    /\ scanning' = TRUE
    /\ held' = [r \in Remote |->
                   IF entry[r] = NoWigo THEN NoWigo
                   ELSE [stale |-> Stale(entry[r].age), alive |-> entry[r].alive,
                         current |-> TRUE]]
    /\ UNCHANGED <<entry, update, scanned, told, appeared, hostTold>>

Visited(r) == held' = [held EXCEPT ![r] = NoWigo]

\* Down() and Up() on the wigo the watchdog points to.
Down(wigo) == [wigo EXCEPT !.down = TRUE, !.alive = FALSE]
UpIdle(wigo) == wigo
Up(wigo) == [wigo EXCEPT !.alive = TRUE]

MarkDown(r) ==
    /\ held[r] # NoWigo
    /\ held[r].stale /\ held[r].alive
    /\ entry' = IF held[r].current THEN [entry EXCEPT ![r] = Down(@)] ELSE entry
    /\ hostTold' = [hostTold EXCEPT ![r] = "DOWN"]
    /\ Visited(r)
    /\ UNCHANGED <<update, scanning, scanned, told, appeared>>

MarkUp(r) ==
    /\ held[r] # NoWigo
    /\ ~held[r].stale /\ ~held[r].alive
    /\ entry' = IF held[r].current THEN [entry EXCEPT ![r] = Up(@)] ELSE entry
    /\ hostTold' = [hostTold EXCEPT ![r] = "UP"]
    /\ Visited(r)
    /\ UNCHANGED <<update, scanning, scanned, told, appeared>>

LeaveAlone(r) ==
    /\ held[r] # NoWigo
    /\ held[r].stale # held[r].alive
    /\ Visited(r)
    /\ UNCHANGED <<entry, update, scanning, scanned, told, appeared, hostTold>>

ScanEnd ==
    /\ scanning
    /\ \A r \in Remote : held[r] = NoWigo
    /\ scanning' = FALSE
    /\ scanned' = (UpdateGap > 0)
    /\ UNCHANGED <<entry, update, held, told, appeared, hostTold>>

Watchdog ==
    \/ ScanBegin
    \/ \E r \in Remote : MarkDown(r) \/ MarkUp(r) \/ LeaveAlone(r)
    \/ ScanEnd

Next ==
    \/ Tick
    \/ \E r \in Remote, probes \in Probes : UpdateBegin(r, probes)
    \/ UpdateEnd
    \/ \E r \in Pushers : Revoke(r)
    \/ Watchdog

Spec == Init /\ [][Next]_vars

-----------------------------------------------------------------------------
(* Safety.                                                                 *)

\* The probes the local wigo has last heard of, an update in progress included.
Latest(r) == IF update # NoUpdate /\ update.uuid = r THEN update.probes
             ELSE entry[r].probes

Known(r) == entry[r] # NoWigo \/ (update # NoUpdate /\ update.uuid = r)

Shown(r, p) == Known(r) /\ Latest(r)[p] # NoProbe

\* A reader of the notifications need not tell these two apart.
Alike(status, other) ==
    \/ status = other
    \/ /\ status # NoProbe /\ status < MinLevelToSend
       /\ other # NoProbe /\ other < MinLevelToSend

\* As long as a probe stays in the data of its host, no sequence of updates
\* lets a change of its level go untold, whatever updates, scans and
\* revocations come between its two steps: what is known of it is like what was
\* last sent of it or, when nothing was sent since, like what it appeared with.
\* (How it appears is never sent: not the first time, and not after a
\* revocation or after it was missing from an update either.)
ToldProbeStatus ==
    OnProbeChange =>
        \A r \in Remote, p \in Probe :
            Shown(r, p) =>
                Alike(IF appeared[r][p] # NoProbe THEN appeared[r][p] ELSE told[r][p],
                      Latest(r)[p])

\* The last notification of a probe's status is still true, or neither it nor
\* the status reaches MinLevelToSend (etc/wigo.conf: notifications are sent
\* when a probe/host status changes).
LastProbeWordIsTrue ==
    OnProbeChange =>
        \A r \in Remote, p \in Probe :
            Shown(r, p) /\ told[r][p] # NoProbe => Alike(told[r][p], Latest(r)[p])

\* A wigo marked 999 by Down() is never shown alive again: Up() does not reset
\* the statuses, so it must only ever reach a wigo that replaced the dead one,
\* although the watchdog decides on a copy of the map taken earlier.
AliveNever999 ==
    \A r \in Remote : entry[r] # NoWigo => ~(entry[r].alive /\ entry[r].down)

\* "Host X UP" is only ever sent after a "Host X DOWN": the flag that asks for
\* it is set by Down() and inherited from one stored wigo to the next.
UpAfterDown ==
    [][\A r \in Remote :
          hostTold[r] = "none" => hostTold'[r] # "UP"]_vars

\* The notifications follow the state of the hosts: between two scans, the last
\* word on a host the registry shows down is DOWN, and on one it shows alive is
\* not (etc/wigo.conf: notifications are sent when a probe/host status changes).
LastWordIsTrue ==
    ~scanning => \A r \in Remote :
        entry[r] # NoWigo => (hostTold[r] = "DOWN" <=> ~entry[r].alive)

-----------------------------------------------------------------------------
(* Liveness, under the fairness of Notifications.                          *)

Silent(r) == entry[r] # NoWigo /\ entry[r].age > AliveTimeout
Fresh(r) == entry[r] # NoWigo /\ entry[r].age <= AliveTimeout

\* A host that stays silent longer than AliveTimeout ends up marked down,
\* unless it is heard of again or removed.
SilentReported ==
    \A r \in Remote :
        Silent(r) ~> (entry[r] = NoWigo \/ Fresh(r) \/ ~entry[r].alive)

\* A host marked down that reports again is marked up, unless it falls silent
\* or is removed: the watchdog's scans come between its updates.
Recovered ==
    \A r \in Remote :
        Fresh(r) ~> (entry[r] = NoWigo \/ Silent(r) \/ entry[r].alive)
=============================================================================
