------------------------------- MODULE LocalHost -------------------------------
(***************************************************************************)
(* The local host: its probes are run by goroutines of execProbe, which    *)
(* store the results and recompute the statuses of the host and of the     *)
(* wigo, with no lock; AddOrUpdateRemoteWigo recomputes one of them too.   *)
(* A goroutine takes one step per access to what the others share.  What   *)
(* decides when a probe is run, and that its file is gone, is taken as it  *)
(* comes: at any time.                                                     *)
(***************************************************************************)
EXTENDS Integers, FiniteSets

CONSTANTS
    Probe,        \* names of the probes of all directories
    Level,        \* statuses of results: 500 for a run that failed, 0 for an answer
                  \* without a status
    Goroutine,
    Of,           \* the probe a goroutine runs
    Updater,      \* the one that calls AddOrUpdateRemoteWigo in between
    NoResult,
    OnTime        \* a run ends before its probe is looked at again: its timeout
                  \* is a second less than the interval

ASSUME LocalHostAssumption ==
    /\ Level \subseteq Nat
    /\ NoResult \notin Level
    /\ Of \in [Goroutine -> Probe]
    /\ Updater \in Goroutine
    /\ OnTime \in BOOLEAN

VARIABLES
    files,     \* the probes that are on the disk
    known,     \* the probes of currentProbesList that have been launched
    disabled,  \* Wigo.disabledProbes, as who walks the list sees it
    lost,      \* who walks it does not come to its last element
    results,   \* the status of each of LocalHost.Probes
    shown,     \* LocalHost.Status and Wigo.GlobalStatus
    run        \* what each goroutine is doing

list == <<disabled, lost>>
vars == <<files, known, list, results, shown, run>>

Results == [Probe -> Level \cup {NoResult}]
NoResults == [p \in Probe |-> NoResult]

\* "status" is the result of the run, or of the probe just compared; "list" and
\* "lost" are disabledProbes when PushBack looked for its end; "left" is what the
\* loop over the probes has still to visit.
Run == [pc : {"Idle", "Exec", "PushBack", "Delete", "Put", "Reset", "Iterate", "Compare", "Raise"},
        field : {"Status", "GlobalStatus"},
        status : Level \cup {NoResult}, list : SUBSET Probe, lost : BOOLEAN,
        left : Results]

Idle == [pc |-> "Idle", field |-> "Status", status |-> NoResult,
         list |-> {}, lost |-> FALSE, left |-> NoResults]

TypeOK ==
    /\ files \subseteq Probe
    /\ known \subseteq Probe
    /\ disabled \subseteq Probe
    /\ lost \in BOOLEAN
    /\ results \in Results
    /\ shown \in [{"Status", "GlobalStatus"} -> Level \cup {0, 100}]
    /\ run \in [Goroutine -> Run]
    /\ \A g \in Goroutine : run[g].pc \in {"Put", "Raise"} => run[g].status # NoResult

Init ==
    /\ files = Probe
    /\ known = {}
    /\ disabled = {}
    /\ lost = FALSE
    /\ results = NoResults
    /\ shown = [f \in {"Status", "GlobalStatus"} |-> 100]
    /\ run = [g \in Goroutine |-> Idle]

-----------------------------------------------------------------------------
At(g, step) == run[g].pc = step

Goto(g, step) == run' = [run EXCEPT ![g].pc = step]

Return(g) == run' = [run EXCEPT ![g] = Idle]

\* Nothing of the probe is under way when its directory is looked at.
Rested(p) == OnTime => \A g \in Goroutine : Of[g] = p => run[g] = Idle

-----------------------------------------------------------------------------
(* The directories.                                                        *)

ChangeFile(p) ==
    /\ files' = IF p \in files THEN files \ {p} ELSE files \cup {p}
    /\ UNCHANGED <<known, list, results, shown, run>>

\* A probe is run when its file is there and it was not disabled.
Launch(g) ==
    /\ Of[g] \in files \ disabled
    /\ At(g, "Idle") /\ Rested(Of[g])
    /\ known' = known \cup {Of[g]}
    /\ Goto(g, "Exec")
    /\ UNCHANGED <<files, list, results, shown>>

StillThere(p) == results

\* DeleteProbeByName leaves the statuses as they are.
Deleted(p) == [results EXCEPT ![p] = NoResult]

\* Once, when the probe leaves the list of its directory.
Forget(p) ==
    /\ p \in known \ files
    /\ Rested(p)
    /\ known' = known \ {p}
    /\ results' = Deleted(p)
    /\ UNCHANGED <<files, list, shown, run>>

-----------------------------------------------------------------------------
(* execProbe: the ways a run ends.                                         *)

ResultLate(r, s) == [r EXCEPT !.pc = "Put"]
Result(r, s) == [r EXCEPT !.pc = "Put", !.status = s]

\* An answer, another exit code or the timeout: there is a result.
Answered(g, s) ==
    /\ At(g, "Exec")
    /\ run' = [run EXCEPT ![g] = Result(@, s)]
    /\ UNCHANGED <<files, known, list, results, shown>>

\* Exit code 12, or a file that is gone or not executable: nothing happens.
Unanswered(g) ==
    /\ At(g, "Exec")
    /\ Return(g)
    /\ UNCHANGED <<files, known, list, results, shown>>

\* Exit code 13.
Disable(g) ==
    /\ At(g, "Exec")
    /\ IF Of[g] \in disabled
       THEN Goto(g, "Delete")
       ELSE run' = [run EXCEPT ![g].pc = "PushBack", ![g].list = disabled, ![g].lost = lost]
    /\ UNCHANGED <<files, known, list, results, shown>>

Appended(g) == disabled \cup {Of[g]}

\* The end of the list was unlinked, or is.
Unlinked(g) == run[g].lost \/ ~(run[g].list \subseteq disabled)

\* What is linked when others have appended to the same end: who links last
\* unlinks the others.  The first elements may all be, as each initializes the
\* empty list.
Crossed(g) ==
    {d \in SUBSET Appended(g) : run[g].list \subseteq d /\ (d = run[g].list => d = {})}

\* PushBack links the end of the list to the new element, and then makes that the
\* end.  Two at the same time may do so in different orders: the end is then
\* an element that was unlinked, and so is all that is appended from then on.
PushBack(g) ==
    /\ At(g, "PushBack")
    /\ \/ /\ Unlinked(g)
          /\ disabled' = disabled
          /\ lost' \in {lost, TRUE}
       \/ /\ ~Unlinked(g) /\ run[g].list = disabled
          /\ disabled' = Appended(g)
          /\ lost' = lost
       \/ /\ ~Unlinked(g) /\ run[g].list # disabled
          /\ disabled' \in Crossed(g)
          /\ lost' \in BOOLEAN
          /\ disabled' = {} => lost'
          /\ disabled' = Appended(g) /\ Of[g] \notin disabled => lost' = lost
    /\ run' = [run EXCEPT ![g].pc = "Delete", ![g].list = {}, ![g].lost = FALSE]
    /\ UNCHANGED <<files, known, results, shown>>

Delete(g) ==
    /\ At(g, "Delete")
    /\ results' = Deleted(Of[g])
    /\ Return(g)
    /\ UNCHANGED <<files, known, list, shown>>

-----------------------------------------------------------------------------
(* AddOrUpdateProbe; RecomputeStatus and RecomputeGlobalStatus.            *)

Put(g) ==
    /\ At(g, "Put")
    /\ results' = [results EXCEPT ![Of[g]] = run[g].status]
    /\ run' = [run EXCEPT ![g].pc = "Reset", ![g].status = NoResult]
    /\ UNCHANGED <<files, known, list, shown>>

\* One at a time, under the lock of the local wigo.
RemoteUpdate ==
    /\ At(Updater, "Idle")
    /\ run' = [run EXCEPT ![Updater].pc = "Reset", ![Updater].field = "GlobalStatus"]
    /\ UNCHANGED <<files, known, list, results, shown>>

StartsFromLast(f) == shown[f]
StartsFrom(f) == 0

Reset(g) ==
    /\ At(g, "Reset")
    /\ shown' = [shown EXCEPT ![run[g].field] = StartsFrom(run[g].field)]
    /\ Goto(g, "Iterate")
    /\ UNCHANGED <<files, known, list, results>>

\* IterBuffered copies the map.
Iterate(g) ==
    /\ At(g, "Iterate")
    /\ run' = [run EXCEPT ![g].pc = "Compare", ![g].left = results]
    /\ UNCHANGED <<files, known, list, results, shown>>

\* The map is visited in any order.
Compare(g, p) ==
    LET s == run[g].left[p] IN
    /\ At(g, "Compare")
    /\ s # NoResult
    /\ run' = [run EXCEPT ![g] = IF s > shown[run[g].field]
                                 THEN [@ EXCEPT !.pc = "Raise", !.status = s, !.left[p] = NoResult]
                                 ELSE [@ EXCEPT !.left[p] = NoResult]]
    /\ UNCHANGED <<files, known, list, results, shown>>

Raise(g) ==
    /\ At(g, "Raise")
    /\ shown' = [shown EXCEPT ![run[g].field] = run[g].status]
    /\ run' = [run EXCEPT ![g].pc = "Compare", ![g].status = NoResult]
    /\ UNCHANGED <<files, known, list, results>>

\* The status of the host is followed by that of the wigo.
Recomputed(g) ==
    /\ At(g, "Compare")
    /\ run[g].left = NoResults
    /\ IF run[g].field = "Status"
       THEN run' = [run EXCEPT ![g] = [Idle EXCEPT !.pc = "Reset", !.field = "GlobalStatus"]]
       ELSE Return(g)
    /\ UNCHANGED <<files, known, list, results, shown>>

-----------------------------------------------------------------------------
Serve(g) ==
    \/ \E s \in Level : Answered(g, s)
    \/ Unanswered(g)
    \/ Disable(g) \/ PushBack(g) \/ Delete(g)
    \/ Put(g)
    \/ Reset(g) \/ Iterate(g) \/ (\E p \in Probe : Compare(g, p)) \/ Raise(g) \/ Recomputed(g)

Next ==
    \/ \E p \in Probe : ChangeFile(p) \/ Forget(p)
    \/ \E g \in Goroutine : Launch(g) \/ Serve(g)
    \/ RemoteUpdate

Spec == Init /\ [][Next]_vars

\* What was started ends: the timeout sees to that.  Every directory is looked
\* at again and again; it is when its probes are at rest that it is looked at,
\* hence the strong fairness.  No remote has to report.
FairSpec ==
    /\ Spec
    /\ \A p \in Probe : SF_vars(Forget(p))
    /\ \A g \in Goroutine : SF_vars(Launch(g)) /\ WF_vars(Serve(g))

-----------------------------------------------------------------------------
\* A probe whose file is gone or that has disabled itself disappears, and its
\* result does not come back, although a run of it may be under way and other
\* goroutines change the same list.
GoneForGood ==
    \A p \in Probe : <>[](p \notin files \/ p \in disabled) => <>[](results[p] = NoResult)

\* A probe that has disabled itself is not run any more, "restart wigo to enable
\* it again" (wigo.go, threadLocalChecks): so it does only finitely often.  Two
\* that do at the same time may leave the list without its end, and then any
\* probe disables itself for ever.
DisabledInTheEnd ==
    \A p \in Probe : <>[][\A g \in Goroutine : Of[g] = p => ~Disable(g)]_vars

Highest(f) == \A p \in Probe : results[p] # NoResult => results[p] <= shown[f]
IsResult(f) == \E p \in Probe : results[p] = shown[f]

\* Whatever the goroutines have left in a status by raising and resetting it at
\* the same time does not last: when the results stay as they are and probes are
\* run, it shows the highest of them again and again.
StatusHeals ==
    \A f \in {"Status", "GlobalStatus"} :
        <>[][UNCHANGED results]_vars /\ []<><<\E g \in Goroutine : Put(g)>>_vars
            => []<>(Highest(f) /\ IsResult(f))
=============================================================================
