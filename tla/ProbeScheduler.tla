---------------------------- MODULE ProbeScheduler ----------------------------
(***************************************************************************)
(* What decides when a probe is run: threadWatch follows the directories   *)
(* of probes on the disk and tells threadLocalChecks, over an unbuffered   *)
(* channel, which come and go.  Its event goroutine keeps their list and   *)
(* starts a loop for each that is added.  A loop looks itself up in that   *)
(* list, walking it with no lock while the event goroutine changes it,     *)
(* lists its files, runs them and sleeps for as many seconds as its        *)
(* directory is named for.                                                 *)
(***************************************************************************)
EXTENDS Integers, FiniteSets, SequencesExt

CONSTANTS
    Dir,          \* directories under ProbesDirectory
    Weird,        \* those whose name is no number
    Probe,        \* names of files
    Leaves,       \* how a directory may go: "delete", "rename" or either
    Holds,        \* the ways to give each directory those it may have
    Starts,       \* bound: the directories there may be at the start
    MaxLoops,     \* bound on the loops at a time
    MaxChanges,   \* bound on the directories made and removed, for each of Holds
    NoLoop

ASSUME SchedulerAssumption ==
    /\ Weird \subseteq Dir
    /\ Leaves \in [Dir -> SUBSET {"delete", "rename"}]
    /\ Holds \subseteq [Dir -> SUBSET Probe]
    /\ Starts \subseteq SUBSET Dir
    /\ MaxLoops \in Nat \ {0}
    /\ MaxChanges \in [Holds -> Nat]

VARIABLES
    present,      \* the directories that are on the disk
    files,        \* and the files in each of them,
    holds,        \* of those it may have
    changes,      \* directories made and removed so far
    events,       \* what inotify has for threadWatch
    watch,        \* threadWatch: "listing", "starting", "watching" or "ended"
    telling,      \* what threadWatch has to send over ChanWatch
    directories,  \* checksDirectories
    loops,        \* the loop goroutines
    runs,         \* the probes each loop has started and that still run
    disabled,     \* Wigo.disabledProbes
    results,      \* the probes that LocalHost.Probes holds
    panicked,     \* the program has stopped
    unseen,       \* directories that changed before they were watched
    astray        \* how loops ended that did not find their directory removed

vars == <<present, files, holds, changes, events, watch, telling, directories, loops, runs,
          disabled, results, panicked, unseen, astray>>
external == <<present, files, holds, changes, unseen>>

Slot == 1 .. MaxLoops
Event == [type : {"create", "delete", "rename"}, dir : Dir]
Message == [type : {"ADDDIRECTORY", "REMOVEDIRECTORY"}, dir : Dir]

\* "at" is the place in checksDirectories, 0 behind its end; "known" is
\* currentProbesList, which is nil until a listing of the directory succeeds.
Loop == [dir : Dir, pc : {"walk", "list", "sleep"}, at : Nat, valid : BOOLEAN,
         known : SUBSET Probe, isNil : BOOLEAN]

ASSUME NoLoopAssumption == NoLoop \notin Loop

TypeOK ==
    /\ present \subseteq Dir /\ files \in [Dir -> SUBSET Probe]
    /\ \A d \in Dir \ present : files[d] = {}
    /\ holds \in Holds
    /\ changes \in 0 .. MaxChanges[holds]
    /\ events \in Seq(Event)
    /\ watch \in {"listing", "starting", "watching", "ended"}
    /\ telling \subseteq Message
    /\ watch = "watching" => Cardinality(telling) <= 1
    /\ directories \in Seq(Dir)
    /\ loops \in [Slot -> Loop \cup {NoLoop}]
    /\ \A l \in Slot : loops[l] # NoLoop => loops[l].at \in 0 .. Len(directories)
    /\ runs \in [Slot -> SUBSET Probe]
    /\ \A l \in Slot : runs[l] # {} => loops[l] # NoLoop /\ loops[l].pc = "sleep"
    /\ disabled \subseteq Probe /\ results \subseteq Probe
    /\ panicked \in BOOLEAN
    /\ unseen \subseteq Dir
    /\ astray \subseteq Dir \X {"lost its place", "found no files"}

Init ==
    /\ present \in Starts
    /\ files \in [Dir -> SUBSET Probe]
    /\ holds \in Holds
    /\ \A d \in Dir : files[d] \subseteq IF d \in present THEN holds[d] ELSE {}
    /\ changes = 0
    /\ events = <<>>
    /\ watch = "listing"
    /\ telling = {}
    /\ directories = <<>>
    /\ loops = [l \in Slot |-> NoLoop]
    /\ runs = [l \in Slot |-> {}]
    /\ disabled = {} /\ results = {}
    /\ panicked = FALSE
    /\ unseen = {} /\ astray = {}

-----------------------------------------------------------------------------
(* The disk.                                                               *)

Watched == watch \in {"watching", "ended"}

DirChanges(d, type) ==
    /\ changes < MaxChanges[holds]
    /\ changes' = changes + 1
    /\ events' = IF Watched THEN Append(events, [type |-> type, dir |-> d]) ELSE events
    /\ unseen' = IF Watched \/ watch = "listing" THEN unseen ELSE unseen \cup {d}
    /\ UNCHANGED <<holds, watch, telling, directories, loops, runs, disabled, results,
                   panicked, astray>>

\* A directory is made, or moved here with its files.
MakeDir(d, within) ==
    /\ d \notin present
    /\ present' = present \cup {d}
    /\ files' = [files EXCEPT ![d] = within]
    /\ DirChanges(d, "create")

RemoveDir(d) ==
    /\ d \in present
    /\ present' = present \ {d}
    /\ files' = [files EXCEPT ![d] = {}]
    /\ \E type \in Leaves[d] : DirChanges(d, type)

\* The files of the directories are not watched.
ChangeFile(d, p) ==
    /\ d \in present
    /\ files' = [files EXCEPT ![d] = IF p \in @ THEN @ \ {p} ELSE @ \cup {p}]
    /\ UNCHANGED <<present, holds, changes, events, watch, telling, directories, loops, runs,
                   disabled, results, panicked, unseen, astray>>

-----------------------------------------------------------------------------
(* threadWatch.                                                            *)

WatchStep ==
    /\ ~panicked
    /\ UNCHANGED <<external, directories, loops, runs, disabled, results, panicked, astray>>

Tells(type, d) == [type |-> type, dir |-> d]

ListDirectories ==
    /\ watch = "listing"
    /\ watch' = "starting"
    /\ telling' = {Tells("ADDDIRECTORY", d) : d \in present}
    /\ UNCHANGED events /\ WatchStep

\* What happened before is not seen.
Install ==
    /\ watch = "starting" /\ telling = {}
    /\ watch' = "watching"
    /\ UNCHANGED <<events, telling>> /\ WatchStep

RemovalsOnlyDeleted == {"delete"}
Removals == {"delete", "rename"}

\* It ends when a new directory is gone before it is looked at.
NextEvent ==
    /\ watch = "watching" /\ telling = {} /\ events # <<>>
    /\ LET e == Head(events) IN
          /\ watch' = IF e.type = "create" /\ e.dir \notin present THEN "ended" ELSE watch
          /\ telling' = IF e.type = "create" /\ e.dir \in present
                            THEN {Tells("ADDDIRECTORY", e.dir)}
                        ELSE IF e.type \in Removals
                            THEN {Tells("REMOVEDIRECTORY", e.dir)}
                        ELSE {}
    /\ events' = Tail(events)
    /\ WatchStep

-----------------------------------------------------------------------------
(* The event goroutine of threadLocalChecks.                               *)

AddDirectory(d) ==
    /\ Tells("ADDDIRECTORY", d) \in telling
    /\ telling' = telling \ {Tells("ADDDIRECTORY", d)}
    /\ directories' = Append(directories, d)
    /\ \E l \in Slot :
          /\ loops[l] = NoLoop /\ \A k \in 1 .. l - 1 : loops[k] # NoLoop
          /\ loops' = [loops EXCEPT ![l] = [dir |-> d, pc |-> "sleep", at |-> 0,
                                            valid |-> FALSE, known |-> files[d],
                                            isNil |-> d \notin present]]
    /\ ~panicked
    /\ UNCHANGED <<external, events, watch, runs, disabled, results, panicked, astray>>

\* Place i of the list is removed.  A loop that stands there still has the
\* element, which leads nowhere now.
DisplacedNot(loop, i) == loop
Displaced(loop, i) ==
    IF loop = NoLoop THEN loop
    ELSE IF loop.at = i
         THEN [loop EXCEPT !.at = 0, !.valid = @ \/ directories[i] = loop.dir]
         ELSE [loop EXCEPT !.at = IF @ > i THEN @ - 1 ELSE @]

\* It misses its directory although that is in the list.
LosesPlace(loop, i) ==
    /\ loop # NoLoop /\ loop.at = i /\ ~loop.valid /\ directories[i] # loop.dir
    /\ loop.dir \in Range(directories)

RemoveDirectory(d) ==
    /\ Tells("REMOVEDIRECTORY", d) \in telling
    /\ telling' = {}
    /\ ~panicked
    /\ IF d \in Range(directories)
       THEN LET i == SelectInSeq(directories, LAMBDA e : e = d) IN
            /\ directories' = RemoveAt(directories, i)
            /\ loops' = [l \in Slot |-> Displaced(loops[l], i)]
            /\ astray' = astray \cup {<<loops[l].dir, "lost its place">> :
                                        l \in {k \in Slot : LosesPlace(loops[k], i)}}
       ELSE UNCHANGED <<directories, loops, astray>>
    /\ UNCHANGED <<external, events, watch, runs, disabled, results, panicked>>

-----------------------------------------------------------------------------
(* A loop of threadLocalChecks.                                            *)

LoopStep == ~panicked /\ UNCHANGED <<external, events, watch, telling, directories>>

Ends(l) == loops' = [loops EXCEPT ![l] = NoLoop]

\* It has slept, or has just been started.  What it has run is over: the
\* timeout of a probe is a second less than the sleep.
Wake(l) ==
    /\ loops[l] # NoLoop /\ loops[l].pc = "sleep" /\ runs[l] = {}
    /\ loops' = [loops EXCEPT ![l].pc = "walk", ![l].valid = FALSE,
                              ![l].at = IF directories = <<>> THEN 0 ELSE 1]
    /\ LoopStep /\ UNCHANGED <<runs, disabled, results, panicked, astray>>

Walking(l) == loops[l] # NoLoop /\ loops[l].pc = "walk"

Walk(l) ==
    /\ Walking(l) /\ loops[l].at # 0
    /\ loops' = [loops EXCEPT
                    ![l].valid = @ \/ directories[loops[l].at] = loops[l].dir,
                    ![l].at = IF @ = Len(directories) THEN 0 ELSE @ + 1]
    /\ LoopStep /\ UNCHANGED <<runs, disabled, results, panicked, astray>>

\* The end of the walk.  The results of a directory that was removed go with
\* it.  There is no list of them to go through when the directory was gone as it
\* was added: the program panics.
Walked(l) ==
    /\ Walking(l) /\ loops[l].at = 0
    /\ IF loops[l].valid
       THEN /\ IF loops[l].dir \in Weird
               THEN Ends(l)
               ELSE loops' = [loops EXCEPT ![l].pc = "list"]
            /\ UNCHANGED <<results, panicked>>
       ELSE /\ Ends(l)
            /\ IF loops[l].isNil
               THEN panicked' = TRUE /\ UNCHANGED results
               ELSE results' = results \ loops[l].known /\ UNCHANGED panicked
    /\ LoopStep /\ UNCHANGED <<runs, disabled, astray>>

\* A loop that cannot list its files ends as it is.
BreaksOff(l) ==
    /\ loops[l] # NoLoop /\ loops[l].pc = "list" /\ loops[l].dir \notin present
    /\ Ends(l)
    /\ astray' = astray \cup {<<loops[l].dir, "found no files">>}
    /\ LoopStep /\ UNCHANGED <<runs, disabled, results, panicked>>

\* The probes that leave the list in a round: the walk along it ends with the
\* first that it removes.
DeletedNone(known, there) == {{}}
Deleted(known, there) ==
    IF known \subseteq there THEN {{}} ELSE {{p} : p \in known \ there}

LaunchesNew(l) == files[loops[l].dir] \ (loops[l].known \cup disabled)
Launches(l) == files[loops[l].dir] \ disabled

\* New files join the list, one that is gone leaves it with its result, and the
\* others are run unless they were disabled; execProbe only looks at a file
\* that is gone.
Round(l) ==
    /\ loops[l] # NoLoop /\ loops[l].pc = "list" /\ loops[l].dir \in present
    /\ IF loops[l].isNil
       THEN panicked' = TRUE /\ UNCHANGED <<loops, runs, results>>
       ELSE LET there == files[loops[l].dir] IN
            \E deleted \in Deleted(loops[l].known, there) :
               /\ loops' = [loops EXCEPT ![l].pc = "sleep",
                                         ![l].known = (@ \cup there) \ deleted]
               /\ runs' = [runs EXCEPT ![l] = Launches(l)]
               /\ results' = results \ deleted
               /\ UNCHANGED panicked
    /\ LoopStep /\ UNCHANGED <<disabled, astray>>

\* execProbe ends with a result or without, or by exit code 13.
RunEnds(l, p) ==
    /\ p \in runs[l]
    /\ runs' = [runs EXCEPT ![l] = @ \ {p}]
    /\ \/ results' = results \cup {p} /\ UNCHANGED disabled
       \/ UNCHANGED <<results, disabled>>
       \/ disabled' = disabled \cup {p} /\ results' = results \ {p}
    /\ LoopStep /\ UNCHANGED <<loops, panicked, astray>>

-----------------------------------------------------------------------------
LoopNext(l) == Wake(l) \/ Walk(l) \/ Walked(l) \/ BreaksOff(l) \/ Round(l)

Next ==
    \/ \E d \in Dir :
          \/ \E within \in SUBSET holds[d] : MakeDir(d, within)
          \/ RemoveDir(d)
          \/ \E p \in holds[d] : ChangeFile(d, p)
          \/ AddDirectory(d) \/ RemoveDirectory(d)
    \/ ListDirectories \/ Install \/ NextEvent
    \/ \E l \in Slot : LoopNext(l) \/ \E p \in Probe : RunEnds(l, p)

Spec == Init /\ [][Next]_vars

\* Goroutines go on, sleeps end and so do probes, at the latest by their
\* timeout.
FairSpec ==
    /\ Spec
    /\ WF_vars(ListDirectories) /\ WF_vars(Install) /\ WF_vars(NextEvent)
    /\ \A d \in Dir : WF_vars(AddDirectory(d)) /\ WF_vars(RemoveDirectory(d))
    /\ \A l \in Slot : WF_vars(LoopNext(l))
    /\ \A l \in Slot, p \in Probe : WF_vars(RunEnds(l, p))

-----------------------------------------------------------------------------
Times(d) == Cardinality({i \in DOMAIN directories : directories[i] = d})

\* While threadWatch lives and has nothing left to tell, the list of the loops
\* holds every directory that is on the disk, once, and no other, however they
\* come and go between its stats and its sends: but for what happened between
\* its first listing and the watch.
InStep ==
    watch = "watching" /\ telling = {} /\ events = <<>> =>
        \A d \in Dir \ unseen : Times(d) = IF d \in present THEN 1 ELSE 0

\* A probe whose file stays in a directory that stays in the list is run again
\* and again, whatever becomes of other directories, unless the program panics, a
\* removal made the directory's loop lose its place in the list, or the loop found
\* no files and threadWatch, which has ended, starts no other.
KeepsRunning ==
    \A d \in Dir \ Weird, p \in Probe :
        /\ <>[](p \in files[d] /\ p \notin disabled)
        /\ <>[](d \in Range(directories) /\ d \notin unseen)
        /\ [](~panicked /\ <<d, "lost its place">> \notin astray)
        /\ [](watch = "ended" => <<d, "found no files">> \notin astray)
        => []<>(\E l \in Slot : loops[l] # NoLoop /\ loops[l].dir = d /\ p \in runs[l])

\* A probe that is gone from every directory loses its result for good,
\* although only one is removed from the list in a round, runs of it may be
\* under way and two loops may serve the same directory, unless a directory was
\* removed so fast that its loop found no files.
ForgottenInTheEnd ==
    \A p \in Probe :
        /\ <>[](\A d \in Dir : p \notin files[d])
        /\ [](~panicked /\ \A d \in Dir : <<d, "found no files">> \notin astray)
        => <>[](p \notin results)
=============================================================================
