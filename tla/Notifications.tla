---------------------------- MODULE Notifications -----------------------------
(***************************************************************************)
(* The registry and its notifications.  Whoever has one to send hands it   *)
(* to threadCallbacks over an unbuffered channel and waits until it is     *)
(* taken: the watchdog in Down() and Up(), an update in the comparison of  *)
(* two wigos, with the lock of the local wigo held, a run of a local probe *)
(* in AddOrUpdateProbe, a push server's Register in AddClientToWaitingList.*)
(* threadCallbacks, which main starts after these, gives each notification *)
(* a goroutine that posts it or mails it.                                  *)
(*                                                                         *)
(* The steps are those of RemoteRegistry, held up while their sender       *)
(* waits.                                                                  *)
(***************************************************************************)
EXTENDS RemoteRegistry, FiniteSets, Bags

CONSTANTS
    Local,         \* the local wigo
    LocalSender,   \* goroutines with news of it: runs of its probes, Register handlers
    HttpEnabled,   \* Notifications.HttpEnabled # 0
    EmailEnabled,  \* Notifications.EmailEnabled: 0, 1, or 2 for "only if http failed"
    MaxCallbacks   \* bound on the goroutines of threadCallbacks at a time

ASSUME NotificationsAssumption ==
    /\ Local \notin Remote
    /\ {"watchdog", "update"} \cap LocalSender = {}
    /\ HttpEnabled \in BOOLEAN
    /\ EmailEnabled \in 0 .. 2
    /\ MaxCallbacks \in Nat \ {0}

VARIABLES
    loop,       \* threadCallbacks: "unloop", "receiving" or "ended"
    sending,    \* what each sender has still to hand over
    callbacks,  \* the bag of callback goroutines
    delivered   \* the last DOWN or UP of a host has been posted or mailed

nvars == <<vars, loop, sending, callbacks, delivered>>

Senders == {"watchdog", "update"} \cup LocalSender

\* What is told of a remote: that it is DOWN or UP, or that a probe of it has
\* changed.  What is told of the local wigo is not told apart.
LocalNote == [host |-> Local, word |-> "news"]
Note == [host : Remote, word : {"DOWN", "UP"} \cup Probe] \cup {LocalNote}
Callback == [note : Note, by : {"http", "mail"}]

NTypeOK ==
    /\ TypeOK
    /\ loop \in {"unloop", "receiving", "ended"}
    /\ sending \in [Senders -> SUBSET Note]
    /\ \A s \in Senders \ {"update"} : Cardinality(sending[s]) <= 1
    /\ IsABag(callbacks) /\ BagToSet(callbacks) \subseteq Callback
    /\ delivered \in [Remote -> BOOLEAN]

-----------------------------------------------------------------------------
NInit ==
    /\ Init
    /\ loop = "unloop"
    /\ sending = [s \in Senders |-> {}]
    /\ callbacks = EmptyBag
    /\ delivered = [r \in Remote |-> FALSE]

Free(s) == sending[s] = {}
Offer(s, notes) == sending' = [sending EXCEPT ![s] = notes]

Changed(r, probes) == {p \in Probe : Sent(entry[r], probes, p)}

Updates ==
    \/ \E r \in Remote, probes \in Probes :
          /\ UpdateBegin(r, probes)
          /\ Offer("update", {[host |-> r, word |-> p] : p \in Changed(r, probes)})
          /\ UNCHANGED <<loop, callbacks, delivered>>
    \/ UpdateEnd /\ Free("update") /\ UNCHANGED <<loop, sending, callbacks, delivered>>

Says(r, word) ==
    /\ Offer("watchdog", {[host |-> r, word |-> word]})
    /\ delivered' = [delivered EXCEPT ![r] = FALSE]
    /\ UNCHANGED <<loop, callbacks>>

Watches ==
    /\ Free("watchdog")
    /\ \/ \E r \in Remote : MarkDown(r) /\ Says(r, "DOWN")
       \/ \E r \in Remote : MarkUp(r) /\ Says(r, "UP")
       \/ /\ ScanBegin \/ ScanEnd \/ \E r \in Remote : LeaveAlone(r)
          /\ UNCHANGED <<loop, sending, callbacks, delivered>>

\* The result of a local probe differs from its last, or a client is put in the
\* waiting list.
LocalNews(s) ==
    /\ Free(s)
    /\ Offer(s, {LocalNote})
    /\ UNCHANGED <<vars, loop, callbacks, delivered>>

StartCallbacks ==
    /\ loop = "unloop"
    /\ loop' = "receiving"
    /\ UNCHANGED <<vars, sending, callbacks, delivered>>

\* The first thing a callback goroutine does, if anything.
First(note) ==
    IF HttpEnabled THEN SetToBag({[note |-> note, by |-> "http"]})
    ELSE IF EmailEnabled = 1 THEN SetToBag({[note |-> note, by |-> "mail"]})
    ELSE EmptyBag

\* A notification that cannot be encoded is dropped: that of a local probe may be.
AfterErrorReturn == "ended"
AfterError == "receiving"

Take(s) ==
    /\ loop = "receiving"
    /\ \E note \in sending[s] :
          /\ sending' = [sending EXCEPT ![s] = @ \ {note}]
          /\ \/ /\ BagCardinality(callbacks) < MaxCallbacks
                /\ callbacks' = callbacks (+) First(note)
                /\ UNCHANGED loop
             \/ s \in LocalSender /\ loop' = AfterError /\ UNCHANGED callbacks
    /\ UNCHANGED <<vars, delivered>>

\* Whether a notification is mailed after it was posted, or was not.
MailsAfterSwapped(posted) == EmailEnabled = 1 \/ (EmailEnabled = 2 /\ posted)
MailsAfter(posted) == EmailEnabled = 1 \/ (EmailEnabled = 2 /\ ~posted)

Delivers(note) ==
    delivered' = [r \in Remote |->
                    delivered[r] \/ note = [host |-> r, word |-> hostTold[r]]]

CallbackHttp(note) ==
    LET post == SetToBag({[note |-> note, by |-> "http"]})
        mail == SetToBag({[note |-> note, by |-> "mail"]})
    IN  /\ [note |-> note, by |-> "http"] \in BagToSet(callbacks)
        /\ \E posted \in BOOLEAN :
              /\ callbacks' = (callbacks (-) post)
                                  (+) (IF MailsAfter(posted) THEN mail ELSE EmptyBag)
              /\ IF posted THEN Delivers(note) ELSE UNCHANGED delivered
        /\ UNCHANGED <<vars, loop, sending>>

\* The mail server takes what it is sent.
SendMail(note) ==
    /\ [note |-> note, by |-> "mail"] \in BagToSet(callbacks)
    /\ callbacks' = callbacks (-) SetToBag({[note |-> note, by |-> "mail"]})
    /\ Delivers(note)
    /\ UNCHANGED <<vars, loop, sending>>

Others ==
    /\ Tick \/ \E r \in Pushers : Revoke(r)
    /\ UNCHANGED <<loop, sending, callbacks, delivered>>

NNext ==
    \/ Updates \/ Watches \/ Others
    \/ \E s \in LocalSender : LocalNews(s)
    \/ StartCallbacks \/ \E s \in Senders : Take(s)
    \/ \E note \in Note : CallbackHttp(note) \/ SendMail(note)

NSpec == NInit /\ [][NNext]_nvars

\* The watchdog's loop never ends and a started update runs to its end; time
\* goes on; main starts threadCallbacks, the channel serves those who wait in
\* turn, and posts and mails come to an end.  Nothing makes a remote send.
NFairSpec ==
    /\ NSpec
    /\ WF_nvars(Tick /\ Others)
    /\ WF_nvars(UpdateEnd /\ Updates)
    /\ \A s \in Senders : SF_nvars(Take(s))
    /\ WF_nvars(Watches) /\ WF_nvars(StartCallbacks)
    /\ \A note \in Note : WF_nvars(CallbackHttp(note)) /\ WF_nvars(SendMail(note))

-----------------------------------------------------------------------------
\* Nobody waits for the channel for ever: not the watchdog, not an update that
\* holds the lock of the local wigo, not a run of a probe or a Register, although
\* they have notifications before threadCallbacks is started, and it meets some it cannot
\* encode.
SendersReturn == \A s \in Senders : ~Free(s) ~> Free(s)

\* Somebody hears of it when a host falls silent, unless it is heard of again
\* or removed first: the watchdog finds it, its notification passes the channel
\* among all the others, and is mailed when it could not be posted.
SilenceIsHeard ==
    HttpEnabled /\ EmailEnabled # 0 =>
        \A r \in Remote :
            Silent(r) ~> \/ entry[r] = NoWigo \/ Fresh(r)
                         \/ hostTold[r] = "DOWN" /\ delivered[r]
=============================================================================
