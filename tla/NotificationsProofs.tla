-------------------------- MODULE NotificationsProofs --------------------------
(***************************************************************************)
(* The registry keeps its promises while its notifications hold up those    *)
(* that send them: every step of Notifications is a step of RemoteRegistry, *)
(* or none of its concern, so that what is proved of the registry holds of  *)
(* the two together, for any number of callbacks under way.                 *)
(***************************************************************************)
EXTENDS Notifications, RemoteRegistryProofs, FiniteSetTheorems

\* All but an update have one notification to hand over at a time.
OneEach == \A s \in Senders \ {"update"} : \E note : sending[s] \subseteq {note}

PipeOK ==
    /\ loop \in {"unloop", "receiving", "ended"}
    /\ sending \in [Senders -> SUBSET Note]
    /\ OneEach
    /\ IsABag(callbacks) /\ BagToSet(callbacks) \subseteq Callback
    /\ delivered \in [Remote -> BOOLEAN]

-----------------------------------------------------------------------------
\* Goroutines that are started and that end.
LEMMA Started ==
    ASSUME NEW A, NEW B, IsABag(A), IsABag(B),
           DOMAIN A \subseteq Callback, DOMAIN B \subseteq Callback
    PROVE  IsABag(A (+) B) /\ DOMAIN (A (+) B) \subseteq Callback
<1> DEFINE D == DOMAIN A \cup DOMAIN B
<1>1. A \in [DOMAIN A -> {n \in Nat : n > 0}] /\ B \in [DOMAIN B -> {n \in Nat : n > 0}]
  BY DEF IsABag
<1>2. \A e \in D : (IF e \in DOMAIN A THEN A[e] ELSE 0)
                       + (IF e \in DOMAIN B THEN B[e] ELSE 0) \in {n \in Nat : n > 0}
  BY <1>1
<1>3. A (+) B = [e \in D |-> (IF e \in DOMAIN A THEN A[e] ELSE 0)
                               + (IF e \in DOMAIN B THEN B[e] ELSE 0)]
  BY DEF (+)
<1> QED  BY <1>2, <1>3 DEF IsABag

LEMMA Ended ==
    ASSUME NEW A, NEW e, IsABag(A), DOMAIN A \subseteq Callback
    PROVE  /\ IsABag(A (-) SetToBag({e}))
           /\ DOMAIN (A (-) SetToBag({e})) \subseteq Callback
<1> DEFINE B == SetToBag({e})
           Rest(d) == A[d] - (IF d \in DOMAIN B THEN B[d] ELSE 0)
           D == {d \in DOMAIN A : Rest(d) > 0}
<1>1. /\ A \in [DOMAIN A -> {n \in Nat : n > 0}]
      /\ B = [d \in {e} |-> 1]
  BY DEF IsABag, SetToBag
<1>2. \A d \in D : Rest(d) \in {n \in Nat : n > 0}
  BY <1>1
<1>3. A (-) B = [d \in D |-> Rest(d)]
  BY <1>1 DEF (-)
<1> QED  BY <1>2, <1>3 DEF IsABag

LEMMA CallbackBag ==
    ASSUME NEW note \in Note, NEW by \in {"http", "mail"}
    PROVE  /\ IsABag(SetToBag({[note |-> note, by |-> by]}))
           /\ DOMAIN SetToBag({[note |-> note, by |-> by]}) \subseteq Callback
           /\ IsABag(EmptyBag) /\ DOMAIN EmptyBag \subseteq Callback
BY DEF IsABag, SetToBag, EmptyBag, Callback

LEMMA FirstOK ==
    ASSUME NEW note \in Note
    PROVE  IsABag(First(note)) /\ DOMAIN First(note) \subseteq Callback
BY CallbackBag DEF First

\* Where one thing is offered, there is no more than one.
LEMMA OfferOne ==
    ASSUME PipeOK, NEW s \in Senders, NEW note \in Note, Offer(s, {note})
    PROVE  sending' \in [Senders -> SUBSET Note] /\ OneEach'
BY DEF PipeOK, Offer, OneEach, Senders

-----------------------------------------------------------------------------
LEMMA PipeInit == NInit => PipeOK
<1> SUFFICES ASSUME NInit PROVE PipeOK
  OBVIOUS
<1>1. IsABag(callbacks) /\ BagToSet(callbacks) \subseteq Callback
  BY DEF NInit, IsABag, EmptyBag, SetToBag, BagToSet
<1> QED  BY <1>1 DEF NInit, PipeOK, OneEach, Senders

\* Every step keeps the pipeline's types.
LEMMA PipeNext == PipeOK /\ [NNext]_nvars => PipeOK'
<1> SUFFICES ASSUME PipeOK, [NNext]_nvars PROVE PipeOK'
  OBVIOUS
<1> USE DEF PipeOK
<1>1. CASE Updates
  <2>1. CASE \E r \in Remote, probes \in Probes :
                /\ UpdateBegin(r, probes)
                /\ Offer("update", {[host |-> r, word |-> p] : p \in Changed(r, probes)})
                /\ UNCHANGED <<loop, callbacks, delivered>>
    <3>1. PICK r \in Remote, probes \in Probes :
                /\ Offer("update", {[host |-> r, word |-> p] : p \in Changed(r, probes)})
                /\ UNCHANGED <<loop, callbacks, delivered>>
      BY <2>1
    <3>2. {[host |-> r, word |-> p] : p \in Changed(r, probes)} \in SUBSET Note
      BY DEF Changed, Note
    <3> QED  BY <3>1, <3>2 DEF Offer, OneEach, Senders, BagToSet
  <2>2. CASE UNCHANGED <<loop, sending, callbacks, delivered>>
    BY <2>2 DEF OneEach, BagToSet
  <2> QED  BY <1>1, <2>1, <2>2 DEF Updates
<1>2. CASE Watches
  <2>1. ASSUME NEW r \in Remote, NEW word \in {"DOWN", "UP"}, Says(r, word)
        PROVE  PipeOK'
    <3>1. [host |-> r, word |-> word] \in Note
      BY DEF Note
    <3>2. sending' \in [Senders -> SUBSET Note] /\ OneEach'
      BY <2>1, <3>1, OfferOne DEF Says, Senders
    <3> QED  BY <2>1, <3>2 DEF Says, BagToSet
  <2>2. CASE UNCHANGED <<loop, sending, callbacks, delivered>>
    BY <2>2 DEF OneEach, BagToSet
  <2> QED  BY <1>2, <2>1, <2>2 DEF Watches
<1>3. ASSUME NEW s \in LocalSender, LocalNews(s) PROVE PipeOK'
  <2>1. sending' \in [Senders -> SUBSET Note] /\ OneEach'
    BY <1>3, OfferOne, NotificationsAssumption DEF LocalNews, Senders, Note
  <2> QED  BY <1>3, <2>1 DEF LocalNews, BagToSet
<1>4. CASE Others
  BY <1>4 DEF Others, OneEach, BagToSet
<1>5. CASE StartCallbacks
  BY <1>5 DEF StartCallbacks, OneEach, BagToSet
<1>6. ASSUME NEW s \in Senders, Take(s) PROVE PipeOK'
  <2>1. PICK note \in sending[s] :
          /\ sending' = [sending EXCEPT ![s] = @ \ {note}]
          /\ \/ /\ BagCardinality(callbacks) < MaxCallbacks
                /\ callbacks' = callbacks (+) First(note)
                /\ UNCHANGED loop
             \/ s \in LocalSender /\ loop' = AfterError /\ UNCHANGED callbacks
    BY <1>6 DEF Take
  <2>2. note \in Note
    BY <2>1
  <2>3. /\ sending' \in [Senders -> SUBSET Note]
        /\ \A t \in Senders : sending'[t] \subseteq sending[t]
    BY <2>1
  <2>4. OneEach'
    BY <2>3 DEF OneEach, Senders
  <2>5. IsABag(callbacks') /\ BagToSet(callbacks') \subseteq Callback
    BY <2>1, <2>2, FirstOK, Started DEF BagToSet
  <2>6. loop' \in {"unloop", "receiving", "ended"}
    BY <2>1 DEF AfterError
  <2> QED  BY <1>6, <2>3, <2>4, <2>5, <2>6 DEF Take
<1>7. ASSUME NEW note \in Note, CallbackHttp(note) PROVE PipeOK'
  <2> DEFINE post == SetToBag({[note |-> note, by |-> "http"]})
             mail == SetToBag({[note |-> note, by |-> "mail"]})
  <2>1. PICK posted \in BOOLEAN :
              /\ callbacks' = (callbacks (-) post)
                                  (+) (IF MailsAfter(posted) THEN mail ELSE EmptyBag)
              /\ IF posted THEN Delivers(note) ELSE UNCHANGED delivered
    BY <1>7 DEF CallbackHttp
  <2> DEFINE more == IF MailsAfter(posted) THEN mail ELSE EmptyBag
  <2>2. IsABag(more) /\ DOMAIN more \subseteq Callback
    BY CallbackBag
  <2>3. IsABag(callbacks (-) post) /\ DOMAIN (callbacks (-) post) \subseteq Callback
    BY Ended DEF BagToSet
  <2> HIDE DEF more, post
  <2>4. callbacks' = (callbacks (-) post) (+) more
    BY <2>1 DEF more, post
  <2>5. IsABag(callbacks') /\ BagToSet(callbacks') \subseteq Callback
    BY <2>2, <2>3, <2>4, Started DEF BagToSet
  <2>6. delivered' \in [Remote -> BOOLEAN]
    BY <2>1 DEF Delivers
  <2> QED  BY <1>7, <2>5, <2>6 DEF CallbackHttp, OneEach
<1>8. ASSUME NEW note \in Note, SendMail(note) PROVE PipeOK'
  <2>1. IsABag(callbacks') /\ BagToSet(callbacks') \subseteq Callback
    BY <1>8, Ended DEF SendMail, BagToSet
  <2>2. delivered' \in [Remote -> BOOLEAN]
    BY <1>8 DEF SendMail, Delivers
  <2> QED  BY <1>8, <2>1, <2>2 DEF SendMail, OneEach
<1>9. CASE UNCHANGED nvars
  BY <1>9 DEF nvars, OneEach, BagToSet
<1> QED  BY <1>1, <1>2, <1>3, <1>4, <1>5, <1>6, <1>7, <1>8, <1>9 DEF NNext

-----------------------------------------------------------------------------
\* A step of the registry that waits for the channel is still a step of the
\* registry, and the channel and the callbacks change nothing of it.
LEMMA StepsOfRegistry == [NNext]_nvars => [Next]_vars
<1> SUFFICES ASSUME [NNext]_nvars PROVE [Next]_vars
  OBVIOUS
<1>1. CASE Updates
  BY <1>1 DEF Updates, Next
<1>2. CASE Watches
  BY <1>2 DEF Watches, Next, Watchdog
<1>3. CASE Others
  BY <1>3 DEF Others, Next
<1>4. CASE UNCHANGED vars
  BY <1>4
<1>5. CASE \/ \E s \in LocalSender : LocalNews(s)
           \/ StartCallbacks \/ \E s \in Senders : Take(s)
           \/ \E note \in Note : CallbackHttp(note) \/ SendMail(note)
  BY <1>4, <1>5 DEF LocalNews, StartCallbacks, Take, CallbackHttp, SendMail
<1>6. CASE UNCHANGED nvars
  BY <1>4, <1>6 DEF nvars
<1> QED  BY <1>1, <1>2, <1>3, <1>5, <1>6 DEF NNext

\* Waiting for threadCallbacks, with the lock of the local wigo held, delays
\* what the registry does and changes nothing of it.
THEOREM ImplementsRegistry == NSpec => Spec
<1>1. NInit => Init
  BY DEF NInit
<1> QED  BY <1>1, StepsOfRegistry, PTL DEF NSpec, Spec

\* What the registry takes for sent is what its updates hand to the channel.
ToldIsOffered ==
    [][\A r \in Remote, p \in Probe :
          told'[r][p] # told[r][p] =>
              [host |-> r, word |-> p] \in sending'["update"]]_nvars

\* No change of level of a probe that stays with its host is kept from the
\* channel: ToldProbeStatus, with told and appeared as the history of what the
\* updates offered.
THEOREM ToldThroughPipe == NSpec => []ToldProbeStatus /\ ToldIsOffered
<1>1. PipeOK /\ TypeOK /\ [NNext]_nvars =>
          [\A r \in Remote, p \in Probe :
              told'[r][p] # told[r][p] =>
                  [host |-> r, word |-> p] \in sending'["update"]]_nvars
  <2> SUFFICES ASSUME PipeOK, TypeOK, [NNext]_nvars, NEW r \in Remote, NEW p \in Probe,
                      told'[r][p] # told[r][p]
               PROVE  [host |-> r, word |-> p] \in sending'["update"]
    OBVIOUS
  <2>1. CASE Updates
    <3>1. PICK s \in Remote, probes \in Probes :
              /\ UpdateBegin(s, probes)
              /\ Offer("update", {[host |-> s, word |-> q] : q \in Changed(s, probes)})
      BY <2>1 DEF Updates, UpdateEnd
    <3>2. /\ told' = [told EXCEPT ![s] = ToldAfter(entry[s], probes, @)]
          /\ told \in [Remote -> Probes]
      BY <3>1 DEF UpdateBegin, TypeOK
    <3>3. r = s /\ p \in Changed(s, probes)
      BY <3>2 DEF ToldAfter, Changed, Probes
    <3>4. sending'["update"] = {[host |-> s, word |-> q] : q \in Changed(s, probes)}
      BY <3>1 DEF Offer, PipeOK, Senders
    <3> QED BY <3>3, <3>4
  <2>2. CASE UNCHANGED told
    BY <2>2
  <2> QED
    BY <2>1, <2>2
    DEF NNext, nvars, vars, Watches, MarkDown, MarkUp, ScanBegin, ScanEnd, LeaveAlone,
        LocalNews, Others, Tick, Revoke, StartCallbacks, Take, CallbackHttp,
        SendMail
<1>2. NSpec => []PipeOK
  BY PipeInit, PipeNext, PTL DEF NSpec
<1> QED
  BY <1>1, <1>2, ImplementsRegistry, TypeCorrect, ToldCorrect, PTL DEF NSpec, ToldIsOffered

\* UP is offered after DOWN only.
THEOREM UpAfterDownThroughPipe == NSpec => UpAfterDown
BY ImplementsRegistry, UpOnlyAfterDown, PTL

\* The type invariant: among it that nobody but an update ever has more than
\* one notification to hand over.
THEOREM PipelineTypeCorrect == NSpec => []NTypeOK
<1>1. PipeOK /\ TypeOK => NTypeOK
  <2> SUFFICES ASSUME PipeOK, TypeOK PROVE NTypeOK
    OBVIOUS
  <2>1. ASSUME NEW s \in Senders \ {"update"} PROVE Cardinality(sending[s]) <= 1
    <3>1. PICK note : sending[s] \subseteq {note}
      BY DEF PipeOK, OneEach
    <3>2. IsFiniteSet({note}) /\ Cardinality({note}) = 1
      BY FS_Singleton
    <3> QED  BY <3>1, <3>2, FS_Subset, FS_CardinalityType
  <2> QED  BY <2>1 DEF PipeOK, NTypeOK
<1>2. NSpec => []PipeOK
  BY PipeInit, PipeNext, PTL DEF NSpec
<1> QED  BY <1>1, <1>2, ImplementsRegistry, TypeCorrect, PTL
=============================================================================
