----------------------------- MODULE WebInterface -----------------------------
(***************************************************************************)
(* The web interface, src/public/js/app.js: one browser tab with one page  *)
(* at a time.  A page is the scope of the controller of its route; its     *)
(* load() empties the scope and sends requests, and each answer adds to    *)
(* whatever the scope holds when it arrives.  The timer of $refresh calls  *)
(* load() again whether or not the answers of the last one have come, and  *)
(* so does every click that changes what is asked for.                     *)
(*                                                                         *)
(* The server answers a request at one moment and the answer arrives at    *)
(* another; meanwhile answers of other requests may arrive, hosts and      *)
(* clients may change and the user may leave the page.                     *)
(***************************************************************************)
EXTENDS Integers, Sequences, FiniteSets, FiniteSetsExt, Bags, SequencesExt

CONSTANTS
    Host,         \* names of the hosts
    GroupOf,      \* the group of each host
    Probe,        \* names of probes
    Status,       \* probe statuses that occur
    Client,       \* uuids of push clients
    Filter,       \* the filters of the logs page in use: "host", "group", "probe"
    MaxRequests,  \* bound on the requests in flight
    MaxClicks,    \* bound on the decisions in flight
    MaxOffset,    \* bound on the offset of the logs page, in units of its limit
    None

Group == {GroupOf[h] : h \in Host}

ASSUME WebAssumption ==
    /\ IsFiniteSet(Host) /\ IsFiniteSet(Probe) /\ IsFiniteSet(Client)
    /\ Probe # {}
    /\ Status \subseteq Nat
    /\ Filter \subseteq {"host", "group", "probe"}
    /\ {MaxRequests, MaxClicks, MaxOffset} \subseteq Nat
    /\ None \notin Host \cup Group

VARIABLES
    hosts,     \* at the server: the probes of each host, or None when it is gone
    clients,   \* at the server: "unknown", "waiting" or "allowed"
    view,      \* the $scope of the page shown
    requests,  \* the bag of its GET requests that have no effect yet
    clicks,    \* decisions on clients whose POST requests are under way
    timers,    \* pending $timeouts of $refresh; module.timeout is the last one
    auto,      \* an interval other than 0 is chosen
    quiet      \* from now on nobody touches anything, nothing is lost and
               \* answers take less than the interval

tab == <<view, requests, clicks, timers, auto>>
vars == <<hosts, clients, tab, quiet>>

Level == {"OK", "INFO", "WARNING", "CRITICAL", "ERROR"}

-----------------------------------------------------------------------------
\* The colour of a status.
getLevel(status) ==
    CASE status = 100           -> "OK"
      [] status \in 101 .. 199  -> "INFO"
      [] status \in 200 .. 299  -> "WARNING"
      [] status \in 300 .. 499  -> "CRITICAL"
      [] OTHER                  -> "ERROR"

-----------------------------------------------------------------------------
(* Pages.                                                                  *)

ListPages == {"hosts", "group", "host"}
Zero == [l \in Level |-> 0]

\* The name comes from the url: None when the url has none, as after a click
\* on a name in the logs, whose cell's set_group or set_host rewrites the url
\* before the page is made if its template is not loaded yet.
ListPage(page, name) ==
    [page |-> page, name |-> name, rows |-> EmptyBag, counts |-> Zero]
LogsPage(menu) == [page |-> "logs", menu |-> menu, offset |-> 0, logs |-> None]
AuthorityPage == [page |-> "authority", waiting |-> EmptyBag, allowed |-> EmptyBag]

Openings ==
    {ListPage("hosts", None), AuthorityPage}
        \cup {ListPage("group", g) : g \in Group \cup {None}}
        \cup {ListPage("host", h) : h \in Host \cup {None}}
        \cup {LogsPage(menu) : menu \in SUBSET Filter}

\* What load() empties.
ClearedRows(v) == IF v.page \in ListPages THEN [v EXCEPT !.rows = EmptyBag] ELSE v
ClearedLists(v) ==
    IF v.page \in ListPages THEN [v EXCEPT !.rows = EmptyBag, !.counts = Zero] ELSE v
Cleared(v) ==
    CASE v.page \in ListPages   -> [v EXCEPT !.rows = EmptyBag, !.counts = Zero]
      [] v.page = "logs"        -> v
      [] v.page = "authority"   -> [v EXCEPT !.waiting = EmptyBag, !.allowed = EmptyBag]

Get(to, about) == [to |-> to, about |-> about, answer |-> None]

\* The url of a request for logs names the host before the group.
LogsOf(menu) == menu \ (IF "host" \in menu THEN {"group"} ELSE {})

\* What it asks for.  The request for the indexes, which fills the selection
\* boxes of the logs page, is left out.
Asks(v) ==
    CASE v.page = "hosts"      -> {Get("groups", None)}
      [] v.page \in {"group", "host"} ->
             IF v.name = None THEN {} ELSE {Get(v.page, v.name)}
      [] v.page = "logs"       -> {Get("logs", [of |-> LogsOf(v.menu), offset |-> v.offset])}
      [] v.page = "authority"  -> {Get("authority", None)}

Load(v) ==
    /\ BagCardinality(requests) < MaxRequests
    /\ view' = Cleared(v)
    /\ requests' = requests (+) SetToBag(Asks(v))

\* $refresh.setRefreshInterval cancels the pending timeout.
NotCancelled(pending) == pending
Cancelled(pending) == IF pending > 0 THEN pending - 1 ELSE 0

SetInterval(on) ==
    /\ timers' = Cancelled(timers) + IF on THEN 1 ELSE 0
    /\ auto' = on

\* The answers to the old page's requests arrive in a scope that nobody sees.
StillInFlight(pending) == pending
InFlight(pending) == EmptyBag

\* Its decisions are carried out, but their success loads nothing.
Left(decisions) == [i \in DOMAIN decisions |-> [decisions[i] EXCEPT !.loads = FALSE]]

\* A route change makes a new scope, whose controller loads and starts the
\* timer again, whatever interval was chosen before.
Open(v) ==
    /\ view' = v
    /\ requests' = InFlight(requests) (+) SetToBag(Asks(v))
    /\ clicks' = Left(clicks)
    /\ SetInterval(TRUE)
    /\ UNCHANGED <<hosts, clients>>

-----------------------------------------------------------------------------
Init ==
    /\ hosts \in [Host -> [Probe -> Status]]
    /\ clients = [c \in Client |-> "unknown"]
    /\ view \in Openings
    /\ requests = SetToBag(Asks(view))
    /\ clicks = <<>>
    /\ timers = 1
    /\ auto = TRUE
    /\ quiet = FALSE

(* The user.                                                               *)

\* A link, a bookmark or $goto.
Navigate == \E v \in Openings : Open(v)

ChooseInterval ==
    /\ \E on \in BOOLEAN : SetInterval(on)
    /\ UNCHANGED <<hosts, clients, view, requests, clicks>>

\* set_group, remove_host...: the offset stays.
ChangeFilter ==
    /\ view.page = "logs"
    /\ \E f \in Filter :
          \E menu \in {view.menu \cup {f}, view.menu \ {f}} :
              Load([view EXCEPT !.menu = menu])
    /\ UNCHANGED <<hosts, clients, clicks, timers, auto>>

MayTurnBackAlways == TRUE
MayTurnBack == view.offset >= 1

Turn ==
    /\ view.page = "logs"
    /\ \/ MayTurnBack /\ Load([view EXCEPT !.offset = @ - 1])             \* prev
       \/ view.offset < MaxOffset /\ Load([view EXCEPT !.offset = @ + 1])      \* next
    /\ UNCHANGED <<hosts, clients, clicks, timers, auto>>

\* The requests of one click go out together; $q.all succeeds when all do.
Click(what, about) ==
    /\ Len(clicks) < MaxClicks
    /\ clicks' = Append(clicks, [what |-> what, left |-> about, loads |-> TRUE])

\* A click on a waiting client, or "allow all" and "revoke all".  With nobody
\* in the list there is nothing to wait for, and the list is loaded.
Decide ==
    /\ view.page = "authority"
    /\ \/ \E c \in BagToSet(view.waiting), what \in {"allow", "revoke"} :
             Click(what, SetToBag({c})) /\ UNCHANGED <<view, requests>>
       \/ /\ view.waiting # EmptyBag
          /\ Click("allow", view.waiting) /\ UNCHANGED <<view, requests>>
       \/ /\ view.allowed # EmptyBag
          /\ Click("revoke", view.allowed) /\ UNCHANGED <<view, requests>>
       \/ EmptyBag \in {view.waiting, view.allowed} /\ Load(view) /\ UNCHANGED clicks
    /\ UNCHANGED <<hosts, clients, timers, auto>>

\* The button that revokes an allowed client lies on a row that leads to its
\* host: the request is sent and the page is left.
RevokeAllowed ==
    /\ view.page = "authority"
    /\ Len(clicks) < MaxClicks
    /\ \E c \in BagToSet(view.allowed), h \in Host :
          /\ view' = ListPage("host", h)
          /\ requests' = InFlight(requests) (+) SetToBag(Asks(view'))
          /\ clicks' = Append(Left(clicks), [what |-> "revoke", left |-> SetToBag({c}),
                                             loads |-> FALSE])
    /\ SetInterval(TRUE)
    /\ UNCHANGED <<hosts, clients>>

(* The timer of $refresh: load, then the next timeout.                     *)
Refresh ==
    /\ timers > 0
    /\ quiet => requests = EmptyBag
    /\ Load(view)
    /\ UNCHANGED <<hosts, clients, clicks, timers, auto>>

-----------------------------------------------------------------------------
(* The server.                                                             *)

Present == {h \in Host : hosts[h] # None}
InGroup(g) == [h \in {i \in Present : GroupOf[i] = g} |-> hosts[h]]
In(list) == {c \in Client : clients[c] = list}

\* What a request is answered; a host that is gone is "404".  The handler of
\* the logs reads its filters from the query, where the url of the page has
\* none: it hands out all logs from the offset on.
Answers(r) ==
    CASE r.to = "groups"     -> {{GroupOf[h] : h \in Present}}
      [] r.to = "group"      -> {InGroup(r.about)}
      [] r.to = "host"       -> {hosts[r.about]} \ {None}
      [] r.to = "logs"       -> {r.about.offset}
      [] r.to = "authority"  -> {[waiting |-> In("waiting"), allowed |-> In("allowed")]}

Pending == {r \in BagToSet(requests) : r.answer = None}

Answer ==
    /\ \E r \in Pending : \E answer \in Answers(r) :
          requests' = requests (-) SetToBag({r})
                          (+) SetToBag({[r EXCEPT !.answer = answer]})
    /\ UNCHANGED <<hosts, clients, view, clicks, timers, auto>>

\* An error is not looked at: the promise has no handler for it.
Refuse ==
    /\ \E r \in Pending : Answers(r) = {} /\ requests' = requests (-) SetToBag({r})
    /\ UNCHANGED <<hosts, clients, view, clicks, timers, auto>>

Lose ==
    /\ \E r \in Pending : requests' = requests (-) SetToBag({r})
    /\ UNCHANGED <<hosts, clients, view, clicks, timers, auto>>

\* AllowClient fails for a client that is not waiting, RevokeClient never does.
Decided(what, c) ==
    IF what = "revoke" THEN "unknown"
    ELSE IF clients[c] = "waiting" THEN "allowed" ELSE clients[c]
Fails(what, c) == what = "allow" /\ clients[c] # "waiting"

\* One request of a click is over.  The click's promise succeeds with its last
\* request, unless one failed; the page, if it is still shown, then loads.
Over(i, c, failed) ==
    LET click == [clicks[i] EXCEPT !.left = @ (-) SetToBag({c}), !.loads = @ /\ ~failed]
        done == click.left = EmptyBag
    IN  /\ clicks' = IF done THEN RemoveAt(clicks, i) ELSE [clicks EXCEPT ![i] = click]
        /\ IF done /\ click.loads
           THEN Load(view)
           ELSE UNCHANGED <<view, requests>>

Handle ==
    /\ \E i \in DOMAIN clicks : \E c \in BagToSet(clicks[i].left) :
          /\ clients' = [clients EXCEPT ![c] = Decided(clicks[i].what, c)]
          /\ Over(i, c, Fails(clicks[i].what, c))
    /\ UNCHANGED <<hosts, timers, auto>>

LoseClick ==
    /\ \E i \in DOMAIN clicks : \E c \in BagToSet(clicks[i].left) : Over(i, c, TRUE)
    /\ UNCHANGED <<hosts, clients, timers, auto>>

\* Probes report and hosts come and go; clients register, and are decided on
\* elsewhere.
HostChanges ==
    /\ \E h \in Host, probes \in [Probe -> Status] \cup {None} :
          hosts' = [hosts EXCEPT ![h] = probes]
    /\ UNCHANGED <<clients, view, requests, clicks, timers, auto>>

ClientChanges ==
    /\ \E c \in Client, what \in {"unknown", "waiting", "allowed"} :
          /\ what = "allowed" => clients[c] = "waiting"
          /\ what = "waiting" => clients[c] = "unknown"
          /\ clients' = [clients EXCEPT ![c] = what]
    /\ UNCHANGED <<hosts, view, requests, clicks, timers, auto>>

-----------------------------------------------------------------------------
(* An answer arrives.                                                      *)

Arrived == {r \in BagToSet(requests) : r.answer # None}

\* The list of groups: one more request for each.
GroupsArrive(r) ==
    /\ view.page = "hosts" /\ r.to = "groups"
    /\ requests' = requests (-) SetToBag({r}) (+) SetToBag({Get("group", g) : g \in r.answer})
    /\ UNCHANGED view

\* What an answer adds to the page: to the list of hosts a group, to the page
\* of a group its hosts, to the page of a host its probes.
Rows(r) ==
    IF view.page = "hosts"
    THEN {[of |-> None, name |-> r.about, data |-> r.answer]}
    ELSE {[of |-> r.about, name |-> n, data |-> r.answer[n]] : n \in DOMAIN r.answer}

\* A host's status is that of its worst probe.
HostStatus(probes) == Max({probes[p] : p \in Probe})

\* What of a row counts for a level: the list of hosts counts hosts, the other
\* pages probes.
Counted(page, row, l) ==
    CASE page = "hosts" ->
             {h \in DOMAIN row.data : getLevel(HostStatus(row.data[h])) = l}
      [] page = "group" -> {p \in Probe : getLevel(row.data[p]) = l}
      [] page = "host"  -> {p \in {row.name} : getLevel(row.data) = l}

\* The same of a bag of rows, every copy of a row for itself.
Tally(page, rows, l) ==
    UNION {{row} \X ((1 .. rows[row]) \X Counted(page, row, l)) : row \in BagToSet(rows)}

RowsArrive(r) ==
    /\ <<view.page, r.to>> \in {<<"hosts", "group">>, <<"group", "group">>, <<"host", "host">>}
    /\ LET new == SetToBag(Rows(r))
       IN  view' = [view EXCEPT
                      !.rows = @ (+) new,
                      !.counts = [l \in Level |->
                                    @[l] + Cardinality(Tally(view.page, new, l))]]
    /\ requests' = requests (-) SetToBag({r})

LogsArrive(r) ==
    /\ view.page = "logs" /\ r.to = "logs"
    /\ view' = [view EXCEPT !.logs = r.answer]
    /\ requests' = requests (-) SetToBag({r})

ClientsArrive(r) ==
    /\ view.page = "authority" /\ r.to = "authority"
    /\ view' = [view EXCEPT !.waiting = @ (+) SetToBag(r.answer.waiting),
                            !.allowed = @ (+) SetToBag(r.answer.allowed)]
    /\ requests' = requests (-) SetToBag({r})

Arrive ==
    /\ \E r \in Arrived :
          GroupsArrive(r) \/ RowsArrive(r) \/ LogsArrive(r) \/ ClientsArrive(r)
    /\ UNCHANGED <<hosts, clients, clicks, timers, auto>>

-----------------------------------------------------------------------------
User ==
    Navigate \/ ChooseInterval \/ ChangeFilter \/ Turn \/ Decide \/ RevokeAllowed
Disturbance == User \/ HostChanges \/ ClientChanges \/ Lose \/ LoseClick
Work == Refresh \/ Answer \/ Refuse \/ Arrive \/ Handle

Next ==
    \/ ~quiet /\ Disturbance /\ UNCHANGED quiet
    \/ Work /\ UNCHANGED quiet
    \/ ~quiet /\ quiet' = TRUE /\ UNCHANGED <<hosts, clients, tab>>

Spec == Init /\ [][Next]_vars

\* The timer fires, and requests are answered.
FairSpec == Spec /\ WF_vars(quiet /\ Work /\ UNCHANGED quiet)

-----------------------------------------------------------------------------
TypeOK ==
    /\ hosts \in [Host -> [Probe -> Status] \cup {None}]
    /\ clients \in [Client -> {"unknown", "waiting", "allowed"}]
    /\ view.page \in ListPages \cup {"logs", "authority"}
    /\ view.page = "logs" => view.offset \in 0 .. MaxOffset
    /\ IsABag(requests)
    /\ \A i \in DOMAIN clicks : clicks[i].left # EmptyBag
    /\ timers \in Nat /\ {auto, quiet} \subseteq BOOLEAN

\* The numbers at the top of a page are those of the rows below them, although
\* loads overlap, answers arrive in any order and hosts change in between:
\* load() empties the counts and the rows together, and an answer adds to both.
CountsMatchRows ==
    view.page \in ListPages =>
        \A l \in Level :
            view.counts[l] = Cardinality(Tally(view.page, view.rows, l))

\* A page that was opened for a group or a host never shows rows of another,
\* however fast the user goes from one to the next and however late the
\* answers are.
RowsBelong ==
    /\ view.page = "hosts" =>
           \A row \in BagToSet(view.rows) : \A h \in DOMAIN row.data : GroupOf[h] = row.name
    /\ view.page \in {"group", "host"} =>
           \A row \in BagToSet(view.rows) : row.of = view.name

\* There is one refresh pending when an interval is chosen, and none otherwise:
\* no page that was left, and no interval that was replaced, goes on loading.
OneTimer == timers = IF auto THEN 1 ELSE 0

-----------------------------------------------------------------------------
(* Liveness.                                                               *)

\* The page shows what the server has, every row once.
Exact ==
    CASE view.page = "hosts" ->
             view.rows = SetToBag({[of |-> None, name |-> g, data |-> InGroup(g)] :
                                      g \in {GroupOf[h] : h \in Present}})
      [] view.page = "group" /\ view.name # None ->
             view.rows = SetToBag({[of |-> view.name, name |-> h, data |-> hosts[h]] :
                                      h \in DOMAIN InGroup(view.name)})
      [] view.page = "host" /\ view.name \in Present ->
             view.rows = SetToBag({[of |-> view.name, name |-> p, data |-> hosts[view.name][p]] :
                                      p \in Probe})
      [] view.page \in {"group", "host"} /\ view.name \notin Group \cup Present ->
             view.rows = EmptyBag
      [] view.page = "logs" -> view.logs = view.offset
      [] view.page = "authority" ->
             /\ view.waiting = SetToBag(In("waiting"))
             /\ view.allowed = SetToBag(In("allowed"))

\* Whatever overlapping loads, lost requests and late answers have left on a
\* page, doubled rows, missing groups, the logs of another offset or clients
\* decided on long ago, a refresh repairs it, if there is one.
PageHeals == quiet /\ auto ~> Exact
=============================================================================
