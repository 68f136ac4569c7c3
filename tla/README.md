# Wigo in TLA+

Wigo is a monitoring daemon. Every host runs one; it executes probes (child
processes), keeps their last results, and gathers the results of other wigos,
which it polls over http or which push to it over rpc. These modules describe
its concurrent parts, the `.cfg` files check them on small instances with TLC,
and the `*Proofs` modules prove what matters for instances of any size with
TLAPS. Paths below are relative to the repository; `global.go` etc. stand for
`src/wigo/global.go`, `wigo.go` for `src/wigo.go`, `app.js` for
`public/js/app.js`.

## 1. Inventory

| Component | State | Operations | Talks to |
|---|---|---|---|
| **Remote registry and watchdog** (`global.go`) | `LocalWigo.RemoteWigos`, in each entry `IsAlive`, `LastUpdate`, `GlobalStatus`, probes | `AddOrUpdateRemoteWigo`, `Down`, `Up`, removal by `RevokeClient`, the loop of `InitWigo` | pollers, push server, notifications |
| **Authority and push server** (`authority.go`, `push_server.go`, `http.go`) | maps `Waiting`, `Allowed`, `Tokens`; the allowed clients file | `Register`, `GetUuidSignature`, `Hello`, `Update`, `Goodbye`, allow, revoke, load, save | push clients, administrator, registry |
| **Pulled trees** (`wigo.go`, `global.go`) | the nesting of `RemoteWigos` | `launchRemoteHostCheckRoutine`, `NewWigoFromJson`, `EraseRemoteWigos`, `Deduplicate` | the http api of other wigos |
| **Push client** (`push_client.go`, `threadPush`) | connection, token, signature file, certificate file | `NewPushClient`, `SignUuid`, `Hello`, `Update`, `Close` | push server |
| **Probe scheduler** (`threadWatch`, `threadLocalChecks`, `utils.go`) | list of directories, one list of probes per directory loop | directory and probe added or removed, launch | file system, `execProbe` |
| **Probe execution** (`execProbe`) | child process, reader goroutine, channel `done` | start, result, exit codes 12 and 13, timeout and kill | local host, disabled probes |
| **Local host** (`host.go`, `probe.go`) | `Probes`, `Status`, `GlobalStatus` | `AddOrUpdateProbe`, `DeleteProbeByName`, `RecomputeStatus` | notifications, OpenTSDB |
| **Disabled probes** (`global.go`) | `disabledProbes` | `DisableProbe`, `IsProbeDisabled` | scheduler, execution |
| **Notification pipeline** (`notification.go`, `threadCallbacks`) | the unbuffered `ChanCallbacks` | `SendNotification`, `NewNotificationProbe`, `CallbackHttp`, `SendMail` | everything that detects a change |
| **Log store** (`log.go`, `global.go`) | table `logs`, one mutex | `AddLog`, `Persist`, `SearchLogs`, hourly cleaning | everything that logs |
| **Startup and signals** (`NewWigo`, `InitWigo`, `main`) | uuid file, globals | start, SIGHUP, SIGTERM | all |
| **Tree queries** (`global.go`) | none | `FindRemoteWigoBy...`, `List...`, `GroupSummary` | http api |
| **Web interface** (`public/js/app.js`) | the scope of the page shown, requests in flight, one timer | load, refresh, navigation, filters and pages of logs, decisions on clients | http api |
| Http api, configuration, OpenTSDB export, concurrent maps, `wigocli`, certificate generator, perl library and probes, vendored scripts, packaging | none of the monitoring's own | | |

### What is hard, and what makes each part correct

* **Registry.** `AddOrUpdateRemoteWigo` holds the local wigo's lock; the
  watchdog and `RevokeClient` do not. The watchdog iterates over a copy of
  pointers that may be replaced or removed meanwhile. *Correct when*: what was
  notified agrees with what is stored; a wigo whose statuses `Down` overwrote
  is never shown alive; UP never comes without DOWN; a silent host is marked
  and a host that is back is unmarked.
* **Authority.** Each rpc and each http request is a goroutine on plain maps,
  with nothing locked, and a file truncated in place. An update is stored under
  the uuid it contains. *Correct when*: only approved clients are let in; a
  revocation leaves nothing behind; the file is the allowed list; lists and
  tokens stay bounded.
* **Pulled trees.** Configurations may be cyclic, and every wigo hands on what
  it received. *Correct when*: trees stay finite and free of repetitions,
  nothing reachable is lost, what is gone disappears, depths are kept.
* **Push client.** Timed-out calls continue at the server, answers arrive late,
  the signature file may be cut short by a crash. *Correct when*: an allowed
  client ends up pushing, a revoked one stops.
* **Scheduler, execution, local host.** Unlocked lists shared by goroutines,
  result and timeout racing, results of two runs of a probe out of order.
  *Correct when*: the loops follow the disk, what is there is run, no result of
  a removed or disabled probe stays, `Status` is the maximum of the probes.
* **Notifications.** Senders block on an unbuffered channel, some of them under
  a lock. *Correct when*: nobody waits for ever and somebody hears of it
  when a host falls silent.
* **Web interface.** Loads overlap, answers are late, lost or refused, the user
  leaves pages in between, and every page starts a timer. *Correct when*: a page
  never shows what belongs to another, its numbers are those of its rows, one
  timer runs, and a refresh repairs whatever went wrong.
* **Startup.** Goroutines are served before what they use exists; the uuid file
  is written in place.

The hazards, each with its line and the properties that cover it, are listed in
`PROJECT.json`. Lesser ones, which no property covers: a directory named 1 gives
its probes a timeout of 0 (`wigo.go:251`); the body of a poll read in part is
parsed as it is (`wigo.go:508`); a signal that arrives while the logger is
reloaded is dropped (`wigo.go:62`); the log announces as new the probes that are
not (`global.go:437`); the log store's one connection and mutex, and logs written
by goroutines in any order (`global.go:221`); an http post refused with an error
status counts as sent (`notification.go:248`); the back button, with
`reloadOnSearch` false, changes the url and not the page (`app.js:209`).

## 2. The modules

| Module | Models | Runs | Proofs |
|---|---|---|---|
| `RemoteRegistry` (instances `MCRemoteRegistry`) | registry and watchdog | `RegistrySafety`, `RegistryLastWord` | `RemoteRegistryProofs` |
| `Notifications` (`MCNotifications`) | `RemoteRegistry` with those who send notifications, the channel and the callbacks | `Notifications` | `NotificationsProofs` |
| `Authority` (`MCAuthority`) | push server, authority, allowed clients file | `AuthorityConcurrent`, `AuthorityApart`, `AuthorityRevokeRace` | `AuthorityProofs` |
| `Admission` | (abstract) what the push server promises, one atomic request after the other | (through `AuthorityApart`) | `AuthorityProofs` |
| `PullForest` (`MCPullForest`) | wigos that poll each other | `Forest` | `PullForestProofs` |
| `LocalHost` (`MCLocalHost`) | local probes: runs, results, statuses, disabled probes | `LocalHost`, `LocalHostDisabled` | `LocalHostProofs` |
| `ProbeScheduler` (`MCProbeScheduler`) | the watch on the directories of probes and their loops | `ProbeScheduler` | `ProbeSchedulerProofs` |
| `PushClient` | a push client alone | (through `PushSystem`) | (through `PushSystemProofs`) |
| `PushSystem` (`MCPushSystem`) | `PushClient` and `Authority`, composed | `PushSystem` | `PushSystemProofs` |
| `WebInterface` (`MCWebInterface`) | one tab of the web interface and what the http api answers it | `WebInterface` | `WebInterfaceProofs` |

Each module has, next to some definitions, a variant with the same parameters
(`WeSendNoRecovery` before `WeSend`, `EraseLate` before `Erase`, ...). These are
plausible mistakes in that piece of code; put in place of the definition, each
must break the property named for it in `PROJECT.json`. They are used nowhere
else.

### 2.1 RemoteRegistry

| Code | Model |
|---|---|
| an entry of `RemoteWigos` | `entry[r]`: `alive` is `IsAlive`, `age` the time since `LastUpdate`, `down` that `Down()` has put 999 in its statuses, `probes` the status of each probe |
| the lock of `LocalWigo` in `AddOrUpdateRemoteWigo` | `update # NoUpdate` |
| `Get`, the inherited `IsAlive`, `CompareTwoWigosAndRaiseNotifications` | `UpdateBegin` |
| `LastUpdate = now`, `Set` | `UpdateEnd` |
| `now`, `IterBuffered` | `ScanBegin`; the buffered pointers are `held` |
| one iteration of the watchdog | `MarkDown`, `MarkUp` or `LeaveAlone` |
| end of the loop, sleep | `ScanEnd` |
| the registry part of `RevokeClient` | `Revoke` |
| notifications sent | `told` per probe (the status in the last one sent), `hostTold` per host; `appeared` is the status a probe appeared with, until something is sent of it |

A `Pointer` of the watchdog is `current` while the map still holds the wigo it
points to; a write through one that is not current changes nothing anybody
reads. Whether a pointer is stale or alive cannot change while the watchdog
holds it: `LastUpdate` is set before `Set`, and after that only the watchdog
writes `IsAlive`. That is why test, write and notification are one step.

Not modelled here: the statuses a wigo is recomputed to (local host), nested
wigos (`PullForest`), a poll that fails (it is no update). A remote's own json
always says it is alive (`NewWigo` sets `IsAlive`, nothing else writes it on the
local wigo).

**Properties.** `ToldProbeStatus`: as long as a probe stays in the data of its
host, no sequence of updates lets a change of its level go untold, whatever
comes between their two steps: what is known of it equals what was last sent of
it (or, when nothing was sent since, what it appeared with), or both are below
`MinLevelToSend`. That a probe appears or goes is never sent
(`NewNotificationProbe` wants both probes), so over a revocation, or an update
without the probe, the last notification may become false: a probe told to be
bad comes back good and nobody hears of it. `LastProbeWordIsTrue`, which says
otherwise, is checked by no run; what is proved is that removals are the only
way to break it (section 4).
`AliveNever999`: `Up()` does not reset the statuses `Down()` overwrote, so it
must only reach a wigo that replaced the dead one. `UpAfterDown`: the first word
on a host is never UP. `SilentReported`, `Recovered`: the watchdog's two duties, checked
in `Notifications` (2.6), where the watchdog may be held up.

**Finding.** `LastWordIsTrue` fails (`RegistryLastWord`): an update reads that
the old wigo is alive, the watchdog marks the old one down and sends DOWN, the
update stores the new one as alive. No UP follows; the last notification says
DOWN of a host that is up, until it falls silent again.

**Fairness** (stated in `Notifications`). The watchdog loops for ever, an update
that has begun ends, and time passes. Nothing makes a remote report. `Recovered` needs a schedule: with
`UpdateGap > 0` the watchdog ends a scan in every second and two updates of a
remote are at least `UpdateGap` seconds apart, as in the configuration shipped
(watchdog every second, polls and pushes every 10 and 15). Without it updates
could forever replace the wigo between the copy of the map and the write.

### 2.2 Authority

A handler is a goroutine of net/rpc or of the http server: a record of its
program counter, the client, the token it was called with and, in
`SaveAllowedList`, what the loop has still to visit and what it wrote. A step is
one access to shared state:

| Code | Model |
|---|---|
| `Register`, `AddClientToWaitingList` | `Register` (check `Allowed`), `AddWaiting` (check `Waiting` and its length), `PutWaiting` |
| `AllowClient` | `Allow` or `AllowNobody`, `PutAllowed`, save, `AllowEnd` |
| `RevokeClient` | `Revoke` (waiting), `DropAllowed`, save if it was allowed, `RevokeTokens`, `RevokeData` |
| `SaveAllowedList` | `SaveOpen` (truncate), `SaveWrite` once per client, `Saved`: what the loop over a map that changes must have visited |
| `Hello`, `GetToken` | `Hello` (check), `DropTokens`, `PutToken` |
| `Update` | `Auth`, then `Store`, which stores a wigo under a uuid of `Pushes`, or `Discard`: an old format, json that cannot be decoded, and the early returns of `AddOrUpdateRemoteWigo` |
| `Goodbye` | `Goodbye`, `RevokeToken` |
| SIGTERM, or the runtime's fatal error on a map used by two goroutines | `Crash`, between any two steps |
| `NewAuthority`, `LoadAllowedList` | `Restart` |

The file is a sequence of lines of equal length: each handler writes at its own
offset. `GetUuidSignature` and `GetServerCertificate` change nothing and are
left out, like a Hello with a wrong signature and a call with an outdated token,
which are refused. A client whose call timed out calls again while the first
handler still runs. `verdict` is a history variable: what the administrator
decided, and whether the decision has returned.

`Update` checks the token for the uuid of the request and stores the wigo under
the uuid in its json; nothing compares the two. `Pushes` says what a client
sends: its own wigo, as wigo's push client does (`OwnUuids`), or one of any uuid.

**Whatever runs at the same time** (`AuthorityConcurrent`, with
`AutoAcceptClients` and wigos of any uuid): `OnlyApproved` (tokens, places in the
list and in its file are of approved clients; what is in the registry, some
approved client may have sent), `TokensBounded` (a client has at most one token per
handler), `NobodyLeftWaiting`.

**What overlaps break** (`AuthorityApart`, where an administrator decides and
clients send their own wigo). Handlers interleave as they like but for four
overlaps, and each property is false with the overlaps it names:

| Hypothesis | No two handlers at the same time |
|---|---|
| `WritesApart` | are writing the file |
| `RevocationsUncrossed` | revoke a client and are past the check of its Hello or Update |
| `DecisionsApart` | revoke a client and allow it, or revoke it twice |
| `RegistrationsApart` | allow a client and are past the check of its Register |

Nothing in the code sees to these: they say exactly which overlaps an
administrator has to be lucky about. `FileIsAllowed` rests on the first only,
`RevokedIsGone` on the second, `RevokedStaysOut` on the second and third,
`WaitingBound` (the waiting list outgrows its maximum by the other handlers at
most) on none (section 4), over any number of crashes, also in the middle of a request. `Quiet` is the
moments when no handler runs. With all four (`Apart`) the authority implements
the module `Admission` (`ImplementsAdmission`), in which a request is one step: a
client on neither list gets on the waiting list while there is room, moves from
there to the allowed list or is dismissed, loses its place, its session and its
data at once, has a session only while it is allowed, and updates only with one.
Only a save is not atomic: other requests change the list meanwhile, and a stop
may leave any part of it on disk, and nothing that was not on it. The mapping is
at the end of `Authority`: a client is allowed when it leaves the waiting list
(`Accepted`), it has a session from the moment its old tokens are dropped
(`Inside`), and data and tokens of a client that is not allowed any more do not
count (`Inside`, `Known`). The abstract waiting list has as many `Places` as
`WaitingBound` says.

**Findings.** Without the hypotheses `RevokedIsGone` fails (`AuthorityRevokeRace`),
and so would `FileIsAllowed`, as two saves write the same file. A crash inside a
save loses clients allowed long before, as the file is truncated before it is
written. No token ever expires, although the comment at
`push_server.go:237` says that it will within 300 seconds: nothing keeps the date
of one.

### 2.3 PullForest

A tree is the set of its paths; `<<a, b>>` in `forest[n]` is the wigo b nested
in the entry a of n.

| Code | Model |
|---|---|
| `GET /api` and its answer | `Answer`: the tree of the polled node, on its way in `reply` |
| `NewWigoFromJson`, `EraseRemoteWigos` | `Erase` |
| `Deduplicate` | `Deduplicate`, with `Drops` for its two tests |
| `AddOrUpdateRemoteWigo` | `Store`: own uuid refused, the entry replaced as a whole |
| a process that starts again, maybe with other remotes | `Restart` |

The polled node's tree is read in one step; the json encoder walks it while it
may change, but an entry is replaced as a whole, so what it sees is a mixture of
entries that were there. A poll that fails is one that does not happen. Uuids
are distinct and not empty. Revocation and the watchdog are in the other two
modules.

**Properties.** `NoLoop`, `DepthKept`, and, when polls go on for ever,
`KnowsReachable` (without depth limits every tree ends up with exactly the nodes its
owner reaches through others; what is no longer polled by anybody does not live
on in the answers the others exchange) and `NoDirectTwice`.

**Fairness.** Every configured poll is repeated for ever and is answered: the
loop of `launchRemoteHostCheckRoutine` has no end, and a node that stays
unreachable is outside what these two properties promise.

### 2.4 LocalHost

A goroutine of `execProbe` is a record of its program counter and locals:

| Code | Model |
|---|---|
| the loop of a directory starts a probe, which is then in `known` (`currentProbesList`), or finds its file gone and takes it out | `Launch`, `Forget` |
| the ways a run ends: json, exit code or timeout; exit code 12, no file; exit code 13 | `Answered`, `Unanswered`, `Disable` |
| `DisableProbe` | `Disable` (walk the list), `PushBack` (link at the end) |
| `DeleteProbeByName` | `Delete` or `Forget`, which leave the statuses alone |
| `AddOrUpdateProbe` | `Put`, then both recomputations |
| `RecomputeStatus`, `RecomputeGlobalStatus` | `Reset`, `Iterate` (the copy of the map), `Compare` and `Raise` once per probe, `Recomputed` |
| the end of `AddOrUpdateRemoteWigo` | `RemoteUpdate`, which recomputes the global status only |

`container/list` is not made for two `PushBack` at a time. Each writes the link
from the old end to its element, and then the end. Two of them may link behind
the same element, and the one linked first is skipped by whoever walks the
list; they may also write in different orders, and then the end is an element
that nobody comes to, and everything appended later is behind it. The first two
elements may each initialize the empty list. `disabled` is what a walk sees and
`lost` says that it does not come to the end; `Crossed` are the outcomes of a
`PushBack` that was overtaken. Left out is that a third one at the same time may
link an element again that the second had skipped.

`OnTime` says that a run ends before the next look at its probe: `execProbe` is
given one second less than the interval. It holds unless `AddOrUpdateProbe`
blocks in a notification or two directories hold probes of one name. Without
it, results of what is gone could come back after the last look. One goroutine
of the instance, `Updater`, also stands for the polls and pushes, so that remote
updates race with the runs of the other one.

**Properties.** `GoneForGood`: results of probes that are gone or disabled
disappear and stay away, with runs under way and lost insertions.
`StatusHeals`: in between, a status may be 0, lower or higher than the highest
result (a goroutine that read the old results raises it after another reset it,
or one overwrites a higher value with the lower one it compared); while probes
are run and keep their results it shows the highest again and again. That it
stays there is not true and not claimed; nor is anything when no probe has
results any more: after the last one is deleted its status stays for ever.

**Finding.** `DisabledInTheEnd` fails (`LocalHostDisabled`): once two probes have
disabled themselves at the same moment the list may have lost its end. A probe
that is not found in it is run in every round, answers 13, is appended behind the
lost end, and so on until wigo is restarted.

**Fairness.** Runs end (the timeout). `Launch` and `Forget` are strongly fair:
the directories are looked at at moments when their probes are at rest.

### 2.5 PushClient and PushSystem

`PushClient` is `threadPush` with the `PushClient` it creates again after every
error: `step` is the call it is at, `certFile` and `sigFile` the two files, which
are truncated (`Certified`, `Signed`) and then written (`WriteCertificate`,
`WriteSignature`). What the server answers is left open.

`PushSystem` composes it with an instance of `Authority` for one client: `Send`
turns a call of the client into a task of a handler, `Return` takes the
handler's last step and gives its answer to the client; `Timeout` leaves the
handler running while the client reconnects and calls again, and `Lost` is a call
over a connection that broke. `GetServerCertificate`, `GetUuidSignature` and a
Hello with a bad signature change nothing at the server and are one step each;
that they read `Allowed` and then `Waiting` is abstracted. Either side may stop,
also between the truncation and the write of a file.

**Properties.** `SignedWasApproved`: a signature, which is what lets a client in
at every later connection, is only given after an approval. `AllowedPushes`: a
client that stays allowed ends up in the registry for good and its updates keep
being stored, whatever came before, unless a crash cut one of its files: with a
cut signature it is refused at every Hello, and with a cut certificate the
process ends at every start. Nothing in the code repairs either, and the premise
`Intact` leaves these behaviours out.
`AsksAgain`: one that is not allowed and has no token comes back to the waiting
list again and again. One whose Hello crossed its revocation may keep a token and
push with it for ever (`AuthorityRevokeRace` shows how), hence the premise.
The instance has one client: a waiting list that others keep full, from which a
Register is refused for as long as they do, is not in it. A client of the system
sends its own wigo (`OwnWigo`).

**Fairness.** The client loops for ever, handlers run to their end, a server
that stopped is started again. A client that stopped is started
again too (`Start` is a step of `ClientStep`). No administrator has to decide.

### 2.6 Notifications

`Notifications` extends `RemoteRegistry`: its steps are those of the registry,
each held up while its sender waits.

| Code | Model |
|---|---|
| `ChanCallbacks <- notification` | `Offer`: what the sender has still to hand over; it goes on when `Free` |
| `Down`, `Up` in the watchdog | `Says` with `MarkDown` or `MarkUp` |
| `CompareTwoWigosAndRaiseNotifications`, under the lock of the local wigo | `Changed`, offered with `UpdateBegin`; `UpdateEnd` waits for them |
| `AddOrUpdateProbe` with a changed status; `AddClientToWaitingList` in a Register handler | `LocalNews` of a `LocalSender` |
| `go threadCallbacks(...)` in `main`, after listeners and probes | `StartCallbacks` |
| `<-chanCallbacks`, `ToJson`, the goroutine | `Take`; a local probe's notification may fail to be encoded (its value is any json) and is dropped |
| `CallbackHttp` and the fall back | `CallbackHttp`, `MailsAfter` |
| `SendMail` | `SendMail` |

One goroutine mails all recipients, and a mail arrives: `SilenceIsHeard` is about
the way there. A post may succeed or fail each time.

**Properties.** `SendersReturn`: whoever waits for the channel gets on.
`SilentReported` and `Recovered` hold although the watchdog waits behind others.
`SilenceIsHeard`: with http and mail as fall back, the DOWN of a host that falls
silent is delivered, unless it is heard of again or removed first; one that was
delivered for an earlier silence does not count.

Observations. DOWN and UP are sent whatever `MinLevelToSend` is; the settings
`RescueOnly` and `OnWigoChange` of `etc/wigo.conf` are read nowhere. Two
notifications of one host are posted by two goroutines in any order. An http
answer with an error status counts as sent (`notification.go:248`), and
`EmailEnabled = 2` mails nothing when http is off.

**Fairness.** `threadCallbacks` is started and loops for ever; the channel serves
those who wait in turn (strong fairness of `Take` for each sender: Go's channels
queue their senders); posts end, at the latest by their five seconds.

### 2.7 ProbeScheduler

| Code | Model |
|---|---|
| `ListProbesDirectories`, the sends, `watcherNew.Watch` | `ListDirectories`, `telling`, `Install`; what changes in between is `unseen` |
| the select of `threadWatch` | `NextEvent`, which ends for good when a new directory cannot be looked at |
| `ChanWatch`, unbuffered | `telling`: `threadWatch` takes no other event before it is empty |
| `ADDDIRECTORY`, `REMOVEDIRECTORY` | `AddDirectory`, `RemoveDirectory` |
| `checksDirectories`, a `container/list` without lock | `directories`; a loop's place in it is `at`, moved or lost by a removal (`Displaced`) |
| `stillValid` | `Wake`, `Walk` once per element, `Walked` |
| `currentProbesList` | `known`, or `isNil` when the first listing failed |
| `break` on a listing that fails | `BreaksOff` |
| new and deleted probes, the launch | `Round` with `Deleted` and `Launches` |
| `execProbe` | `RunEnds`; that the file is there is looked at when it is launched |

`container/list` clears the links of an element it removes: `Next` of a removed
element is nil. So the walk that removes a deleted probe ends there, one in a
round, and a loop whose place in the list of directories is removed under it
walks no further. If its own directory comes later in the list the loop takes it
for removed, deletes the results of its probes and ends, although the directory
stays (`astray`). Nothing starts it again. The history variables `unseen` and
`astray` are there to say which directories a property is about.

**Properties.** `InStep`: what the loops walk follows the disk, for every
directory that did not change between the first listing and the watch.
`KeepsRunning`: a probe that stays in a directory that stays in the list is run
again and again, whatever other directories do, unless its loop lost its place as
above, or found no files in a directory that was away for a moment and
`threadWatch`, which has ended, starts no other (a directory removed and made
again behind one whose look failed: four changes).
`ForgottenInTheEnd`: a probe that is gone loses its result for good, also when
two loops serve its directory (removed and made again within one sleep) or two
probes are gone at a time, unless a loop found no files before it was told that
its directory was removed: then the results stay for ever. All these exceptions are
real: without them TLC finds the counterexamples, and they are behaviours of the
program that no property promises anything of, as are directories that changed
before they were watched (`unseen`).

**Fairness.** Goroutines go on and sleeps end; a run ends before the next look at
its probe (the timeout is a second less than the interval). Nothing makes
directories or files change. The program may panic (`known` is nil); what
follows is outside the module.

### 2.8 WebInterface

| Code (`app.js`) | Model |
|---|---|
| the controllers' scopes | `view`, one record per kind of page |
| `load()` | `Load`: `Cleared`, then the requests `Asks` |
| a request | its place in `requests`: the server answers it at one moment (`Answer`, `Refuse`) and the answer arrives at another (`Arrive`), or it is lost |
| the success handlers | `GroupsArrive`, `RowsArrive`, `LogsArrive`, `ClientsArrive`, which add to what the scope holds |
| `$refresh` | `timers`, `SetInterval`, `Refresh` |
| `$goto`, links, the routes | `Navigate`, `Open` |
| filters and pages of the logs | `ChangeFilter`, `Turn` |
| `allow`, `allow_all`, `revoke`, `revoke_all`, `$q.all` | `Decide`, `Click`, `Handle`, `Over` |

The scripts under `public/js/plugins` are third-party libraries with their
sample data; no controller uses them and they are not modelled.

**Properties.** `CountsMatchRows`, `RowsBelong`, `OneTimer`. `PageHeals`:
overlapping loads double rows, a lost answer leaves a group out, late logs belong
to another offset, a decision that fails leaves clients in the list that were
decided on; a refresh repairs all that, if an interval is chosen.

Observations. A route change sets the interval back to a minute, whatever was
chosen. The handler of the logs reads its filters from the query while the page
has them in the path, so the server hands out all logs and the page filters its
hundred (`http.go:138`). A filter that changes keeps the offset. A log of status
500 has a level below WARNING (`log.go`), so the filters WARNING and CRITICAL hide
it. The button that revokes an allowed client lies on a row that leads to its
host (`partials/authority.html:66`).

**Fairness.** From some moment on nobody touches anything, nothing is lost and the
server answers before the next refresh (`quiet`); then the timer fires and
answers arrive.

## 3. Runs and bounds

| Run | Instance | Distinct states |
|---|---|---|
| `RegistrySafety` | 2 remotes, 1 probe of status 1, 2 or 3 or absent, `MinLevelToSend` 2, `AliveTimeout` 0 | 5 400 000 |
| `RegistryLastWord` | 1 remote | violation |
| `Notifications` | 1 remote that may be revoked, 1 probe of status 1 or 2, level 2, `AliveTimeout` 4, `UpdateGap` 3, 1 local sender, http with mail as fall back, 2 callback goroutines | 141 000 |
| `AuthorityConcurrent` | 2 clients that send any uuid, 3 tokens (one more than a client may hold), 2 handlers, waiting list of 1, `AutoAcceptClients` | 923 000 |
| `AuthorityApart` | 2 clients that send their own, 3 tokens, 2 handlers that keep apart, waiting list of 1 | 123 000 |
| `AuthorityRevokeRace` | 2 handlers | violation |
| `Forest` | 4 nodes: a ring of three, one of which also polls the third or limits its neighbour to depth 2, and a node behind them that polls itself; 1 restart | 893 000 |
| `LocalHost` | 2 probes of 2 statuses, one goroutine each, one of which also serves remote updates | 209 000 |
| `LocalHostDisabled` | the same | violation |
| `ProbeScheduler` | 2 directories, one with a name that is no number, 1 probe and 4 directory changes or 2 probes and 2, 2 loops | 541 000 |
| `WebInterface` | 2 hosts in 2 groups, 1 probe of 2 statuses, 1 client, 2 requests and 1 decision in flight, 2 pages of logs | 1 117 000 |
| `PushSystem` | 1 client, 4 tokens, 2 rpc handlers and 1 administrator, TLS, no auto accept, 2 timeouts or crashes | 331 000 |

Why they are enough. In the registry nothing relates two probes, and nothing
relates two remotes but the one lock: one probe whose statuses lie below, at and
above the level, and two remotes, meet every case of the code. Ages above
`AliveTimeout` are not told apart by it, and an age of 0 and one above are all it
takes for safety; the liveness properties have longer ages in `Notifications`.
There `VIEW` leaves out `told` and `appeared`, which no guard and no property of
that run reads. In the authority the races are between
two handlers about one client, and between two clients about the length of the
list or the lines of the file. In the forest three nodes make the shortest
circle that is not between neighbours, and depth 2 cuts off the tail below the
second of them, in either branch of `EraseRemoteWigos`; one restart is what it takes to have a node that has
forgotten, and one that polls others than before, among nodes that have not.
In `LocalHost` the races are between two goroutines, about one status or one
list. In `PushSystem` two faults are a timeout whose handler is still running
when the server or the client stops, and four tokens are enough for one
that is valid, an outdated one of the client and one with each handler. In `Notifications` the senders meet at the channel, one of each kind; a second
remote would share the watchdog. In `ProbeScheduler` a loop loses its place when
another directory is removed, which needs no loop of its own: its name is no
number, which is the other case. Two changes are a directory removed and made
again, hence two loops; two probes are what it takes to have one left over after a
round; four changes are what it takes to end `threadWatch` and have a directory
away for a moment. The two bounds are not needed together, hence `Holds` and
`MaxChanges` by it. One directory is renamed and the other deleted (`Leaves`), of
which `threadWatch` makes the same. In `WebInterface` two loads overlap when two requests are in flight, and
two hosts in two groups are pages to go between.
`MaxRestarts`, `MaxFaults`, `MaxChanges`, `MaxLoops`, `MaxCallbacks`,
`MaxRequests`, `MaxClicks` and `MaxOffset` bound the only counters.

The run of `ProbeScheduler` allows deadlock because the program may panic, that of
`WebInterface` because a page without refresh rests when nobody touches it.
The run of `PullForest` allows deadlock, as an instance without edges simply
stops.

## 4. Proofs

The theorems hold for every value of the constants that satisfies the ASSUMEs of
the modules (finite sets where cardinalities are used, numbers where the code
has numbers).

* `RemoteRegistryProofs`. `Inv` strengthens the types by `DownIsOld` (a wigo that
  `Down()` overwrote is dead and was last stored long ago), `HeldIsCurrent` (what
  the watchdog found silent still is, and what it found fresh was not
  overwritten, as long as its pointer is the one in the map) and `DeadWasTold`
  (where an entry, an update or a pointer is dead, the host has had a
  notification). `NeverAlive999` and `UpOnlyAfterDown` follow from it.
  `ToldCorrect` goes from comparison to comparison; its heart, `WeSendCovers`, is
  arithmetic: a change is sent, or stays below the level. Over a removal it does
  not claim that the reader was told. `LastProbeWordWhenProbesStay` does: if no
  probe ever goes from the data of its host (`ProbesStay`, which excludes
  revocations and updates without a probe), the last notification is true, or
  below the level with what it is about. `LastWordWhenApart` is about the property that fails
  (`RegistryLastWord`): if no scan falls between the two steps of an update
  (`Apart`) and nobody's data is removed (`NobodyRevoked`), the last word is
  always true. `AgreeInv`: what the watchdog holds is what the map has, and what
  an update passes on is what the map had. So there are two ways to break
  `LastWordIsTrue` and no third. Both hypotheses are needed: the run breaks it
  without the first, and an instance with a revocable remote without the second.
* `AuthorityProofs`. `ApprovedCorrect`: `TrustedApproved` says that a handler past
  the check of who it serves serves a client that was approved.
  `WaitingBounded`: `WaitingBound` counts the handlers about to add to the list
  (`Adding`) with those already on it; `TokensCorrect`: `TokensInv` does so with a
  client's tokens and the handlers about to add one (`Granting`). `AutoAccepted`:
  `AutoInv`, whoever is on the waiting list has a handler about to allow it.
  The others hold for any number of handlers too, each under the hypotheses of
  2.2 that it needs, stated in the theorem as `[]WritesApart` etc., and no more:
  `FileCorrect` needs one save at a time writing and nothing else; by `FileInv`,
  unless a save is about to begin, the file is the allowed list or has on its
  first lines what the save under way wrote and nothing behind them (`Half`).
  `RevokedLeavesNothing` needs `RevocationsUncrossed`; `HeldInv` says that tokens
  and data without an allowed client are those of a revocation under way, and
  that who is past a check is still allowed. `RevocationHolds` needs
  `DecisionsApart` as well and holds though saves cross each other: by
  `RevokedInv`, what the file has and the list has not a revocation is about to
  remove (`FileAhead`), and who is about to be let in has not been revoked since
  (`ApprovedSince`). These and the refinement take `OwnUuids`, as what a client
  sends under another uuid is not removed with it. By `NotAccepted` nobody is
  added to the waiting list who is allowed, and by `WaitingBound` there is a
  place. `AdmissionImplemented` (`Apart`) has a lemma per request, with a
  step per action: the step of `Admission` it is, or that it is none. What
  `Admission` keeps to (`Sound`) follows from its own steps and so holds of
  `Authority` in the middle of a request too (`AdmissionHolds`). The hypotheses
  are about the code's missing lock, not about the proof: `AuthorityRevokeRace`
  is what happens without `RevocationsUncrossed`. `ApartRuns` relates them to
  the specification that `AuthorityApart` checks.
* `PullForestProofs`. `TypeCorrect`. `LoopFree`: what is on its way from m is as
  free of loops as m's tree, though the tree may have changed since, and a path
  free of m and n stays so with m put on top. `DepthLimited`: no answer is on its
  way along an edge that is not configured.
* `PushSystemProofs`. `ImplementsClient`: the composition implements
  `PushClient`; `ImplementsServer`: for the server it is `Authority` with one
  client, except that the client may update with a token that the server has
  forgotten. `Authority` leaves that call out because it is refused; here it is a
  step (`OutdatedUpdate`), so the composition implements `Authority` with that
  one step added, and what is proved of `Authority` is carried over step by step
  (`NextServer`, through the instance `Server` of `AuthorityProofs`).
  `ServerApproved` is `OnlyApproved` of that instance, where the client sends its
  own wigo, so it is about data as well. `SignatureApproved` rests
  on it: an answer to Hello comes from a handler past the check, and a decision
  is never forgotten. `SystemTypeCorrect`.
* `ProbeSchedulerProofs`. `ListInStep`: `HistoryOf(d)` relates the disk, the
  events not yet read, what `threadWatch` is telling and the list: played in
  their order from what the list has (`Leads`), the events lead to what the disk
  has. `TellingInv` says that nothing else is told while that is so.
  `SchedulerTypeCorrect`: no loop's place is outside the list, though others take
  elements out under it; `PlaceRemoved` says where each element goes.
* `NotificationsProofs`. `ImplementsRegistry`: every step of `Notifications` is
  one of `RemoteRegistry` or leaves the registry alone, so `ToldProbeStatus` and
  `UpAfterDown` hold when the senders wait (`ToldThroughPipe`,
  `UpAfterDownThroughPipe`), for any number of callbacks. `ToldIsOffered`: `told`
  changes only together with an offer to the channel. `PipelineTypeCorrect`
  with `OneEach`.
* `LocalHostProofs`. `LocalHostTypeCorrect`, for any number of goroutines. Of a
  status that several reset and raise without a lock only that it heals is true,
  which is liveness. What the code does compute is `RecomputedAlone`: a
  recomputation that no other overlaps (`OneAtATime`), with no result stored or
  deleted between its steps (`ResultsRest`), ends with the highest status, in
  whatever order it visits them. `VisitInv`: what is left to visit is as the
  results have it, and the status is the highest of those visited. Either
  hypothesis alone is not enough: TLC finds a status that is too low or too high.
* `WebInterfaceProofs`. `RowsStayTheirOwn`: rows come from requests, so `PageInv`
  speaks of these: every request in flight was sent for what the page shows
  (`SentFor`), and the answer about a group has hosts of that group
  (`RequestOK`). `load()` adds requests for the page it is called on, and a route
  change leaves none of the old page's. `CountsStayTrue`: the items that rows count are
  a set (`Tally`), and that of two bags of rows together has as many as both
  (`TallySum`): those of a copy that is added are renumbered behind the copies
  that are there. `RowsOK` and `RequestOK` keep the sets finite; nothing has to be
  known of the order in which loads and answers come. `NoneTwiceWhenPatient`: if
  the timer of a list fires only when no answer is on its way (`Patient`), no row
  is shown twice. `AskedOnce`: what is asked for is asked for once and is not
  shown yet. With the code's timer, which does not wait, `NoneTwice` is false:
  two loads that overlap show every row twice, until the next one repairs it
  (`PageHeals`). `RefreshIsSingle`: nothing but
  `setRefreshInterval` touches the timer. `WebTypeCorrect`, which needs the lists
  of clients to be bags of clients and a decision under way to have requests
  left.

Some ASSUMEs are there for the proofs: the registry, the scheduler and the web
interface need their "nothing" (`NoWigo`, `NoLoop`, `None`) to be none of the
values it stands in for, the push system finitely many tokens and handlers and a
`NoClient` that is not the client. TLC evaluates them in every run.

Only model-checked. All liveness (`SilentReported`, `Recovered`,
`KnowsReachable`, `NoDirectTwice`, and those of `Notifications`, `LocalHost`,
`ProbeScheduler`, `PushSystem` and `WebInterface`), which the prover does not
handle under fairness.

## 5. Plan

Done: all modules of section 2 are checked, and every type invariant and every
safety property that a passing run checks is proved. Next, in this order:

1. `ProbeExec`: child, reader goroutine, timer, kill; one result per run, no
   goroutine left behind.
2. `Startup`, `LogStore`: order of initialisation, mutex, cleaning.
3. `WigoTree`: the recursive queries against reference definitions over bounded
   trees.

## 6. What is not modelled, and why

`PROJECT.json` lists every component with its status. Not planned: the http
api's read only handlers beyond what the web interface asks for, its vendored
scripts (`public/js/plugins`: third-party code that nothing in `app.js` uses, by
far the longest files of the repository), the browser's history, the
configuration file (read once; its settings are constants here), OpenTSDB and the concurrent
maps (external libraries), `wigocli` and the certificate generator (run once),
the perl library and the probes (child processes, to wigo an exit code and an
output), packaging. TLS and the signature of uuids are taken as given: a Hello
whose signature is not the server's is refused.
