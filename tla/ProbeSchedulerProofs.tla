-------------------------- MODULE ProbeSchedulerProofs --------------------------
(***************************************************************************)
(* The list of directories is in step with the disk, for any number of     *)
(* directories, probes, loops and changes.                                 *)
(***************************************************************************)
EXTENDS ProbeScheduler, FiniteSetTheorems, SequenceTheorems, WellFoundedInduction, TLAPS

-----------------------------------------------------------------------------
(* Types, in two parts: the loops, and the rest.                           *)

LoopsType ==
    /\ loops \in [Slot -> Loop \cup {NoLoop}]
    /\ \A l \in Slot : loops[l] # NoLoop => loops[l].at \in 0 .. Len(directories)
    /\ runs \in [Slot -> SUBSET Probe]
    /\ \A l \in Slot : runs[l] # {} => loops[l] # NoLoop /\ loops[l].pc = "sleep"

Ways == Dir \X {"lost its place", "found no files"}

DiskType ==
    /\ present \subseteq Dir /\ files \in [Dir -> SUBSET Probe]
    /\ \A d \in Dir \ present : files[d] = {}
    /\ holds \in Holds
    /\ changes \in 0 .. MaxChanges[holds]
    /\ events \in Seq(Event)
    /\ watch \in {"listing", "starting", "watching", "ended"}
    /\ telling \subseteq Message
    /\ directories \in Seq(Dir)
    /\ disabled \subseteq Probe /\ results \subseteq Probe
    /\ panicked \in BOOLEAN
    /\ unseen \subseteq Dir
    /\ astray \subseteq Ways

Types == DiskType /\ LoopsType

\* A loop that becomes another one.
LEMMA LoopType ==
    ASSUME LoopsType, NEW l \in Slot, NEW loop \in Loop, NEW probes \in SUBSET Probe,
           loop.at \in 0 .. Len(directories),
           probes # {} => loop.pc = "sleep",
           loops' = [loops EXCEPT ![l] = loop], runs' = [runs EXCEPT ![l] = probes],
           UNCHANGED directories
    PROVE  LoopsType'
BY NoLoopAssumption DEF LoopsType

LEMMA EndsType ==
    ASSUME LoopsType, NEW l \in Slot, runs[l] = {}, Ends(l), UNCHANGED <<directories, runs>>
    PROVE  LoopsType'
BY DEF LoopsType, Ends

\* The place that a removal takes away is in the list.
LEMMA PlaceFound ==
    ASSUME DiskType, NEW d \in Dir, d \in Range(directories)
    PROVE  LET i == SelectInSeq(directories, LAMBDA e : e = d)
           IN  i \in 1 .. Len(directories) /\ directories[i] = d
<1> DEFINE I == {i \in 1 .. Len(directories) : directories[i] = d}
<1>1. directories \in Seq(Dir)
  BY DEF DiskType
<1>2. PICK j \in DOMAIN directories : directories[j] = d
  BY Zenon DEF Range
<1>3. I # {} /\ I \subseteq Nat
  BY <1>1, <1>2
<1>4. PICK i \in I : \A k \in I : <<k, i>> \notin OpToRel(<, Nat)
  BY <1>3, NatLessThanWellFounded, WFMin, Zenon
<1>5. \A k \in I : ~(k < i)
  BY <1>3, <1>4, Zenon DEF OpToRel
<1>6. \A k \in I : i <= k
  BY <1>1, <1>5
<1>7. Min(I) \in I
  BY <1>6 DEF Min
<1>8. SelectInSeq(directories, LAMBDA e : e = d) = Min(I)
  BY <1>3 DEF SelectInSeq
<1> QED BY <1>7, <1>8

\* What is left when place i is removed.
LEMMA PlaceRemoved ==
    ASSUME NEW S, NEW s \in Seq(S), NEW i \in 1 .. Len(s)
    PROVE  /\ RemoveAt(s, i) \in Seq(S)
           /\ Len(RemoveAt(s, i)) = Len(s) - 1
           /\ \A j \in 1 .. Len(s) - 1 :
                 RemoveAt(s, i)[j] = IF j < i THEN s[j] ELSE s[j + 1]
<1> DEFINE front == SubSeq(s, 1, i - 1)
           rest == SubSeq(s, i + 1, Len(s))
<1>1. front \in Seq(S) /\ Len(front) = i - 1 /\ \A j \in 1 .. i - 1 : front[j] = s[j]
  OBVIOUS
<1>2. /\ rest \in Seq(S) /\ Len(rest) = Len(s) - i
      /\ \A j \in 1 .. Len(s) - i : rest[j] = s[i + j]
  OBVIOUS
<1>3. RemoveAt(s, i) = front \o rest
  BY DEF RemoveAt
<1> HIDE DEF front, rest
<1>4. /\ front \o rest \in Seq(S)
      /\ Len(front \o rest) = Len(front) + Len(rest)
      /\ \A j \in 1 .. Len(front) + Len(rest) :
            (front \o rest)[j] = IF j <= Len(front) THEN front[j] ELSE rest[j - Len(front)]
  BY <1>1, <1>2, ConcatProperties, Zenon
<1>5. /\ Len(front \o rest) = Len(s) - 1
      /\ \A j \in 1 .. Len(s) - 1 :
            (front \o rest)[j] = IF j < i THEN front[j] ELSE rest[j - (i - 1)]
  BY <1>1, <1>2, <1>4
<1>6. \A j \in i .. Len(s) - 1 : rest[j - (i - 1)] = s[j + 1]
  BY <1>2
<1> QED BY <1>1, <1>3, <1>4, <1>5, <1>6

LEMMA InitTypes == Init => Types
<1> SUFFICES ASSUME Init PROVE Types
  OBVIOUS
<1>1. files \in [Dir -> SUBSET Probe] /\ \A d \in Dir \ present : files[d] = {}
  BY DEF Init
<1>2. holds \in Holds /\ 0 \in 0 .. MaxChanges[holds]
  <2>1. holds \in Holds
    BY DEF Init
  <2>2. MaxChanges[holds] \in Nat
    BY <2>1, SchedulerAssumption
  <2> QED BY <2>1, <2>2
<1>0. present \subseteq Dir
  BY SchedulerAssumption DEF Init
<1>3. /\ changes = 0 /\ events = <<>> /\ watch = "listing"
      /\ telling = {} /\ directories = <<>> /\ disabled = {} /\ results = {}
      /\ panicked = FALSE /\ unseen = {} /\ astray = {}
  BY DEF Init
<1>4. DiskType
  <2>1. events \in Seq(Event) /\ directories \in Seq(Dir)
    BY <1>3
  <2>2. panicked \in BOOLEAN
    BY <1>3
  <2> QED BY <1>0, <1>1, <1>2, <1>3, <2>1, <2>2 DEF DiskType
<1>5. LoopsType
  BY DEF Init, LoopsType
<1> QED BY <1>4, <1>5 DEF Types

\* The disk and threadWatch.
LEMMA DirChangesType ==
    ASSUME Types, NEW d \in Dir, NEW type \in {"create", "delete", "rename"},
           DirChanges(d, type)
    PROVE  /\ changes' \in 0 .. MaxChanges[holds]
           /\ UNCHANGED holds
           /\ events' \in Seq(Event)
           /\ unseen' \subseteq Dir
           /\ UNCHANGED <<watch, telling, directories, disabled, results, panicked, astray>>
           /\ LoopsType'
<1>1. changes' \in 0 .. MaxChanges[holds] /\ UNCHANGED holds
  <2>1. holds \in Holds
    BY DEF Types, DiskType
  <2>2. MaxChanges[holds] \in Nat
    BY <2>1, SchedulerAssumption
  <2> QED BY <2>2 DEF DirChanges, Types, DiskType
<1>2. [type |-> type, dir |-> d] \in Event
  BY DEF Event
<1>3. events' \in Seq(Event)
  BY <1>2 DEF DirChanges, Types, DiskType
<1>4. LoopsType'
  BY DEF DirChanges, Types, LoopsType
<1> QED BY <1>1, <1>3, <1>4 DEF DirChanges, Types, DiskType

LEMMA DiskStepTypes ==
    ASSUME Types, NEW d \in Dir,
           \/ \E within \in SUBSET holds[d] : MakeDir(d, within)
           \/ RemoveDir(d)
           \/ \E p \in holds[d] : ChangeFile(d, p)
    PROVE  Types'
<1> USE DEF Types
<1>1. holds[d] \subseteq Probe
  <2>1. holds \in Holds
    BY DEF DiskType
  <2> QED BY <2>1, SchedulerAssumption
<1>2. ASSUME NEW within \in SUBSET holds[d], MakeDir(d, within) PROVE Types'
  <2>1. /\ files' \in [Dir -> SUBSET Probe] /\ present' \subseteq Dir
        /\ \A e \in Dir \ present' : files'[e] = {}
    BY <1>1, <1>2 DEF MakeDir, DiskType
  <2> QED BY <1>2, <2>1, DirChangesType DEF MakeDir, DiskType
<1>3. CASE RemoveDir(d)
  <2>1. /\ files' \in [Dir -> SUBSET Probe] /\ present' \subseteq Dir
        /\ \A e \in Dir \ present' : files'[e] = {}
    BY <1>3 DEF RemoveDir, DiskType
  <2>2. PICK type \in {"delete", "rename"} : DirChanges(d, type)
    BY <1>3, SchedulerAssumption DEF RemoveDir
  <2> QED BY <2>1, <2>2, DirChangesType DEF DiskType
<1>4. ASSUME NEW p \in holds[d], ChangeFile(d, p) PROVE Types'
  <2>1. /\ files' \in [Dir -> SUBSET Probe]
        /\ \A e \in Dir \ present : files'[e] = {}
    BY <1>1, <1>4 DEF ChangeFile, DiskType
  <2> QED BY <1>4, <2>1 DEF ChangeFile, DiskType, LoopsType
<1> QED BY <1>2, <1>3, <1>4

LEMMA WatchStepTypes ==
    ASSUME Types, ListDirectories \/ Install \/ NextEvent
    PROVE  Types'
<1> USE DEF Types
<1>1. LoopsType'
  BY DEF ListDirectories, Install, NextEvent, WatchStep, LoopsType
<1>2. CASE ListDirectories
  <2>1. telling' \subseteq Message
    BY <1>2 DEF ListDirectories, DiskType, Tells, Message
  <2> QED BY <1>1, <1>2, <2>1 DEF ListDirectories, WatchStep, external, DiskType
<1>3. CASE Install
  BY <1>1, <1>3 DEF Install, WatchStep, external, DiskType
<1>4. CASE NextEvent
  <2>1. Head(events) \in Event /\ events' \in Seq(Event)
    BY <1>4 DEF NextEvent, DiskType
  <2>2. Head(events).dir \in Dir
    BY <2>1 DEF Event
  <2>3. telling' \subseteq Message
    BY <1>4, <2>2 DEF NextEvent, Tells, Message
  <2>4. watch' \in {"watching", "ended"}
    BY <1>4 DEF NextEvent
  <2> QED BY <1>1, <1>4, <2>1, <2>3, <2>4 DEF NextEvent, WatchStep, external, DiskType
<1> QED BY <1>2, <1>3, <1>4

-----------------------------------------------------------------------------
(* The event goroutine.                                                    *)

LEMMA AddTypes ==
    ASSUME Types, NEW d \in Dir, AddDirectory(d)
    PROVE  Types'
<1> USE DEF Types
<1>1. directories' \in Seq(Dir) /\ Len(directories') = Len(directories) + 1
  BY DEF AddDirectory, DiskType
<1>2. DiskType'
  BY <1>1 DEF AddDirectory, external, DiskType
<1>3. PICK l \in Slot :
          /\ loops[l] = NoLoop
          /\ loops' = [loops EXCEPT ![l] = [dir |-> d, pc |-> "sleep", at |-> 0,
                                            valid |-> FALSE, known |-> files[d],
                                            isNil |-> d \notin present]]
  BY DEF AddDirectory
<1> DEFINE new == [dir |-> d, pc |-> "sleep", at |-> 0, valid |-> FALSE, known |-> files[d],
                   isNil |-> d \notin present]
<1>4. new \in Loop /\ new.at = 0 /\ new.pc = "sleep"
  BY DEF Loop, DiskType
<1> HIDE DEF new
<1>5. UNCHANGED runs
  BY DEF AddDirectory
<1>6. Len(directories) \in Nat
  BY DEF DiskType
<1>7. LoopsType'
  BY <1>1, <1>3, <1>4, <1>5, <1>6, NoLoopAssumption DEF LoopsType, new
<1> QED BY <1>2, <1>7

LEMMA RemoveTypes ==
    ASSUME Types, NEW d \in Dir, RemoveDirectory(d)
    PROVE  Types'
<1> USE DEF Types
<1>1. CASE d \notin Range(directories)
  BY <1>1 DEF RemoveDirectory, external, DiskType, LoopsType
<1>2. CASE d \in Range(directories)
  <2> DEFINE i == SelectInSeq(directories, LAMBDA e : e = d)
  <2>1. i \in 1 .. Len(directories)
    BY <1>2, PlaceFound
  <2>2. /\ directories' = RemoveAt(directories, i)
        /\ loops' = [l \in Slot |-> Displaced(loops[l], i)]
        /\ astray' = astray \cup {<<loops[l].dir, "lost its place">> :
                                     l \in {k \in Slot : LosesPlace(loops[k], i)}}
        /\ telling' = {}
        /\ UNCHANGED <<external, events, watch, runs, disabled, results, panicked>>
    BY <1>2 DEF RemoveDirectory
  <2> HIDE DEF i
  <2>3. directories \in Seq(Dir) /\ Len(directories) \in Nat
    BY DEF DiskType
  <2>4. directories' \in Seq(Dir) /\ Len(directories') = Len(directories) - 1
    BY <2>1, <2>2, <2>3, PlaceRemoved
  <2>5. ASSUME NEW l \in Slot, loops[l] # NoLoop
        PROVE  /\ loops'[l] \in Loop /\ loops'[l].at \in 0 .. Len(directories')
               /\ loops'[l].pc = loops[l].pc
    <3>1. loops[l] \in Loop /\ loops[l].at \in 0 .. Len(directories)
      BY <2>5 DEF LoopsType
    <3>3. CASE loops[l].at = i
      <4> DEFINE moved ==
                [loops[l] EXCEPT !.at = 0, !.valid = @ \/ directories[i] = loops[l].dir]
      <4>1. loops'[l] = moved
        BY <2>2, <2>5, <3>3 DEF Displaced
      <4>2. moved \in Loop /\ moved.at = 0 /\ moved.pc = loops[l].pc
        BY <3>1 DEF Loop
      <4> HIDE DEF moved
      <4> QED BY <2>1, <2>3, <2>4, <4>1, <4>2
    <3>4. CASE loops[l].at # i
      <4>1. loops'[l] = [loops[l] EXCEPT !.at = IF @ > i THEN @ - 1 ELSE @]
        BY <2>2, <2>5, <3>4 DEF Displaced
      <4> QED BY <2>1, <2>3, <2>4, <3>1, <3>4, <4>1 DEF Loop
    <3> QED BY <3>3, <3>4
  <2>6. \A l \in Slot : loops[l] = NoLoop => loops'[l] = NoLoop
    BY <2>2 DEF Displaced
  <2>7. DOMAIN loops' = Slot /\ loops' = [l \in Slot |-> loops'[l]]
    BY <2>2
  <2>8. LoopsType'
    BY <2>2, <2>5, <2>6, <2>7, NoLoopAssumption DEF LoopsType
  <2>9. \A k \in Slot : LosesPlace(loops[k], i) => loops[k].dir \in Dir
    BY DEF LosesPlace, LoopsType, Loop
  <2>10. astray' \subseteq Ways
    <3>1. \A k \in Slot : LosesPlace(loops[k], i) => <<loops[k].dir, "lost its place">> \in Ways
      BY <2>9 DEF Ways
    <3>2. astray \subseteq Ways
      BY DEF DiskType
    <3> QED BY <2>2, <3>1, <3>2, Zenon
  <2> QED BY <2>2, <2>4, <2>8, <2>10 DEF DiskType, external
<1> QED BY <1>1, <1>2

-----------------------------------------------------------------------------
(* The loops.                                                              *)

\* What a loop's step leaves alone.
LEMMA LoopStepType ==
    ASSUME Types, LoopStep, LoopsType',
           disabled' \subseteq Probe, results' \subseteq Probe,
           panicked' \in BOOLEAN, astray' \subseteq Ways
    PROVE  Types'
BY DEF Types, DiskType, LoopStep, external

LEMMA WakeTypes ==
    ASSUME Types, NEW l \in Slot, Wake(l)
    PROVE  Types'
<1> DEFINE new == [loops[l] EXCEPT !.pc = "walk", !.valid = FALSE,
                                   !.at = IF directories = <<>> THEN 0 ELSE 1]
<1>1. loops[l] \in Loop /\ runs[l] = {}
  BY DEF Wake, Types, LoopsType
<1>2. new \in Loop /\ new.at = IF directories = <<>> THEN 0 ELSE 1
  BY <1>1 DEF Loop
<1>3. loops' = [loops EXCEPT ![l] = new]
  BY DEF Wake
<1>4. directories \in Seq(Dir)
  BY DEF Types, DiskType
<1>5. new.at \in 0 .. Len(directories)
  BY <1>2, <1>4
<1> HIDE DEF new
<1>6. runs' = [runs EXCEPT ![l] = {}] /\ UNCHANGED directories
  BY <1>1 DEF Wake, LoopStep, Types, LoopsType
<1>7. LoopsType'
  BY <1>2, <1>3, <1>5, <1>6, LoopType DEF Types
<1> QED BY <1>7, LoopStepType DEF Wake, Types, DiskType

LEMMA WalkTypes ==
    ASSUME Types, NEW l \in Slot, Walk(l)
    PROVE  Types'
<1> DEFINE valid == loops[l].valid \/ directories[loops[l].at] = loops[l].dir
           at == IF loops[l].at = Len(directories) THEN 0 ELSE loops[l].at + 1
           new == [loops[l] EXCEPT !.valid = valid, !.at = at]
<1>1. loops[l] \in Loop /\ loops[l].at \in 0 .. Len(directories) /\ runs[l] = {}
  BY DEF Walk, Walking, Types, LoopsType
<1>2. directories \in Seq(Dir)
  BY DEF Types, DiskType
<1>3. valid \in BOOLEAN /\ at \in Nat /\ at \in 0 .. Len(directories)
  BY <1>1, <1>2
<1>4. loops' = [loops EXCEPT ![l] = new]
  BY DEF Walk
<1> HIDE DEF valid, at
<1>5. new \in Loop /\ new.at = at
  BY <1>1, <1>3 DEF Loop
<1> HIDE DEF new
<1>6. runs' = [runs EXCEPT ![l] = {}] /\ UNCHANGED directories
  BY <1>1 DEF Walk, LoopStep, Types, LoopsType
<1>7. LoopsType'
  BY <1>3, <1>4, <1>5, <1>6, LoopType DEF Types
<1> QED BY <1>7, LoopStepType DEF Walk, Types, DiskType

LEMMA WalkedTypes ==
    ASSUME Types, NEW l \in Slot, Walked(l)
    PROVE  Types'
<1> DEFINE new == [loops[l] EXCEPT !.pc = "list"]
<1>1. /\ loops[l] \in Loop /\ loops[l].at \in 0 .. Len(directories) /\ runs[l] = {}
  BY DEF Walked, Walking, Types, LoopsType
<1>2. new \in Loop /\ new.at = loops[l].at
  BY <1>1 DEF Loop
<1>3. \/ Ends(l)
      \/ loops' = [loops EXCEPT ![l] = new]
  BY DEF Walked
<1> HIDE DEF new
<1>4. runs' = [runs EXCEPT ![l] = {}] /\ UNCHANGED <<directories, runs>>
  BY <1>1 DEF Walked, LoopStep, Types, LoopsType
<1>5. LoopsType'
  BY <1>1, <1>2, <1>3, <1>4, LoopType, EndsType DEF Types
<1>6. results' \subseteq Probe /\ panicked' \in BOOLEAN
  BY DEF Walked, Types, DiskType
<1> QED BY <1>5, <1>6, LoopStepType DEF Walked, Types, DiskType

LEMMA BreaksOffTypes ==
    ASSUME Types, NEW l \in Slot, BreaksOff(l)
    PROVE  Types'
<1>1. loops[l] \in Loop /\ runs[l] = {}
  BY DEF BreaksOff, Types, LoopsType
<1>2. <<loops[l].dir, "found no files">> \in Ways
  BY <1>1 DEF Loop, Ways
<1>3. astray' \subseteq Ways
  <2>1. astray \subseteq Ways
    BY DEF Types, DiskType
  <2>2. astray' = astray \cup {<<loops[l].dir, "found no files">>}
    BY DEF BreaksOff
  <2> QED BY <1>2, <2>1, <2>2, Zenon
<1>4. LoopsType'
  BY <1>1, EndsType DEF BreaksOff, LoopStep, Types
<1> QED BY <1>3, <1>4, LoopStepType DEF BreaksOff, Types, DiskType

LEMMA RoundTypes ==
    ASSUME Types, NEW l \in Slot, Round(l)
    PROVE  Types'
<1>1. /\ loops[l] \in Loop /\ loops[l].at \in 0 .. Len(directories)
      /\ files[loops[l].dir] \subseteq Probe
  BY DEF Round, Types, LoopsType, DiskType, Loop
<1>2. CASE loops[l].isNil
  <2>1. LoopsType'
    BY <1>2 DEF Round, LoopStep, Types, LoopsType
  <2> QED BY <1>2, <2>1, LoopStepType DEF Round, Types, DiskType
<1>3. CASE ~loops[l].isNil
  <2> DEFINE there == files[loops[l].dir]
  <2>1. PICK deleted \in Deleted(loops[l].known, there) :
            /\ loops' = [loops EXCEPT ![l].pc = "sleep",
                                      ![l].known = (@ \cup there) \ deleted]
            /\ runs' = [runs EXCEPT ![l] = Launches(l)]
            /\ results' = results \ deleted
            /\ UNCHANGED panicked
    BY <1>3 DEF Round
  <2> DEFINE new == [loops[l] EXCEPT !.pc = "sleep", !.known = (@ \cup there) \ deleted]
  <2>2. new \in Loop /\ new.at = loops[l].at /\ new.pc = "sleep"
    BY <1>1 DEF Loop
  <2>3. loops' = [loops EXCEPT ![l] = new]
    BY <2>1
  <2> HIDE DEF new
  <2>4. Launches(l) \in SUBSET Probe /\ UNCHANGED directories
    BY <1>1 DEF Launches, Round, LoopStep
  <2>5. LoopsType'
    BY <1>1, <2>1, <2>2, <2>3, <2>4, LoopType DEF Types
  <2>6. results' \subseteq Probe
    BY <2>1 DEF Types, DiskType
  <2> QED BY <2>1, <2>5, <2>6, LoopStepType DEF Round, Types, DiskType
<1> QED BY <1>2, <1>3

LEMMA RunEndsTypes ==
    ASSUME Types, NEW l \in Slot, NEW p \in Probe, RunEnds(l, p)
    PROVE  Types'
<1>1. LoopsType'
  BY DEF RunEnds, LoopStep, Types, LoopsType
<1>2. disabled' \subseteq Probe /\ results' \subseteq Probe
  BY DEF RunEnds, Types, DiskType
<1> QED BY <1>1, <1>2, LoopStepType DEF RunEnds, Types, DiskType

LEMMA NextTypes == Types /\ [Next]_vars => Types'
<1> SUFFICES ASSUME Types, [Next]_vars PROVE Types'
  OBVIOUS
<1>1. CASE UNCHANGED vars
  BY <1>1 DEF vars, Types, DiskType, LoopsType
<1>2. ASSUME NEW l \in Slot, LoopNext(l) \/ \E p \in Probe : RunEnds(l, p) PROVE Types'
  BY <1>2, WakeTypes, WalkTypes, WalkedTypes, BreaksOffTypes, RoundTypes, RunEndsTypes
  DEF LoopNext
<1> QED BY <1>1, <1>2, DiskStepTypes, AddTypes, RemoveTypes, WatchStepTypes DEF Next

-----------------------------------------------------------------------------
(* In step with the disk.                                                  *)

\* What threadWatch has to send: the directories that it listed, or what came
\* of one event.
TellingInv ==
    /\ watch \in {"listing", "ended"} => telling = {}
    /\ watch = "listing" => directories = <<>>
    /\ watch \in {"listing", "starting"} => events = <<>>
    /\ watch = "starting" => \A m \in telling : m.type = "ADDDIRECTORY"
    /\ watch = "watching" => telling = {} \/ \E m \in Message : telling = {m}

InList(d) == \E i \in DOMAIN directories : directories[i] = d

Once(d) ==
    \A i, j \in DOMAIN directories : directories[i] = d /\ directories[j] = d => i = j

\* Whether the list holds the directory when all that is told has been heard.
Told(d) ==
    \/ Tells("ADDDIRECTORY", d) \in telling
    \/ InList(d) /\ Tells("REMOVEDIRECTORY", d) \notin telling

\* The events of a directory lead from what threadWatch has told of it to what
\* is on the disk: it was there at the places in "was", and each event of it is
\* a change.
Leads(was, d) ==
    /\ 0 \in was <=> Told(d)
    /\ Len(events) \in was <=> d \in present
    /\ \A i \in 1 .. Len(events) :
          /\ events[i].dir = d => (i \in was <=> events[i].type = "create")
          /\ events[i].dir = d <=> ~(i \in was <=> i - 1 \in was)

HistoryOf(d) ==
    /\ Once(d)
    /\ Tells("ADDDIRECTORY", d) \in telling => ~InList(d)
    /\ Tells("REMOVEDIRECTORY", d) \in telling => InList(d)
    /\ \E was \in SUBSET (0 .. Len(events)) : Leads(was, d)

HistoryInv ==
    watch \in {"starting", "watching"} => \A d \in Dir \ unseen : HistoryOf(d)

StepInv == Types /\ TellingInv /\ HistoryInv

LEMMA InitStep == Init => StepInv
BY InitTypes DEF Init, StepInv, TellingInv, HistoryInv

\* What threadWatch and the event goroutine tell each other.
LEMMA NextTelling == Types /\ TellingInv /\ [Next]_vars => TellingInv'
<1> SUFFICES ASSUME Types, TellingInv, [Next]_vars PROVE TellingInv'
  OBVIOUS
<1> USE DEF TellingInv
<1>1. CASE UNCHANGED <<watch, telling, directories, events>>
  BY <1>1
<1>2. ASSUME NEW d \in Dir,
             \/ \E within \in SUBSET holds[d] : MakeDir(d, within)
             \/ RemoveDir(d)
             \/ \E p \in holds[d] : ChangeFile(d, p)
      PROVE  TellingInv'
  BY <1>1, <1>2 DEF MakeDir, RemoveDir, ChangeFile, DirChanges, Watched
<1>3. CASE ListDirectories
  BY <1>3 DEF ListDirectories, Tells
<1>4. CASE Install
  BY <1>4 DEF Install
<1>5. CASE NextEvent
  <2>1. events \in Seq(Event) /\ events # <<>>
    BY <1>5 DEF NextEvent, Types, DiskType
  <2>2. Head(events) \in Event
    BY <2>1
  <2>3. Head(events).dir \in Dir
    BY <2>2 DEF Event
  <2>4. \A d \in Dir :
            Tells("ADDDIRECTORY", d) \in Message /\ Tells("REMOVEDIRECTORY", d) \in Message
    BY DEF Tells, Message
  <2>5. /\ watch' \in {"watching", "ended"}
        /\ watch' = "ended" => telling' = {}
        /\ telling' = {} \/ \E m \in Message : telling' = {m}
    BY <1>5, <2>3, <2>4 DEF NextEvent, Removals
  <2> QED BY <2>5
<1>6. ASSUME NEW d \in Dir, AddDirectory(d) PROVE TellingInv'
  <2>1. Tells("ADDDIRECTORY", d) \in telling
        /\ telling' = telling \ {Tells("ADDDIRECTORY", d)} /\ UNCHANGED <<watch, events>>
    BY <1>6 DEF AddDirectory
  <2> QED BY <2>1
<1>7. ASSUME NEW d \in Dir, RemoveDirectory(d) PROVE TellingInv'
  <2>1. Tells("REMOVEDIRECTORY", d) \in telling /\ telling' = {} /\ UNCHANGED <<watch, events>>
    BY <1>7 DEF RemoveDirectory
  <2> QED BY <2>1
<1>8. ASSUME NEW l \in Slot, LoopNext(l) \/ \E p \in Probe : RunEnds(l, p)
      PROVE  TellingInv'
  BY <1>1, <1>8
  DEF LoopNext, Wake, Walk, Walked, BreaksOff, Round, RunEnds, LoopStep
<1>9. CASE UNCHANGED vars
  BY <1>1, <1>9 DEF vars
<1> QED BY <1>2, <1>3, <1>4, <1>5, <1>6, <1>7, <1>8, <1>9 DEF Next

-----------------------------------------------------------------------------
(* A directory's history, step by step.                                    *)

\* It depends on these alone.
LEMMA HistoryKept ==
    ASSUME NEW d, HistoryOf(d), UNCHANGED <<telling, directories, events>>,
           d \in present' <=> d \in present
    PROVE  HistoryOf(d)'
BY DEF HistoryOf, Once, InList, Told, Leads, Tells

\* A change on the disk puts one event at the end.
LEMMA HistoryGrows ==
    ASSUME Types, NEW d \in Dir, HistoryOf(d),
           NEW e \in Event, events' = Append(events, e),
           e.dir # d => (d \in present' <=> d \in present),
           e.dir = d => /\ d \in present' <=> e.type = "create"
                        /\ d \in present' <=> d \notin present,
           UNCHANGED <<telling, directories>>
    PROVE  HistoryOf(d)'
<1>1. events \in Seq(Event)
  BY DEF Types, DiskType
<1>2. PICK was \in SUBSET (0 .. Len(events)) : Leads(was, d)
  BY DEF HistoryOf
<1>3. /\ Len(events') = Len(events) + 1 /\ Len(events) \in Nat
      /\ \A i \in 1 .. Len(events) : events'[i] = events[i]
      /\ events'[Len(events) + 1] = e
  BY <1>1
<1>4. PICK now \in SUBSET (0 .. Len(events) + 1) :
          /\ \A i \in 0 .. Len(events) : i \in now <=> i \in was
          /\ Len(events) + 1 \in now <=> d \in present'
  <2> DEFINE next == IF d \in present' THEN was \cup {Len(events) + 1} ELSE was
  <2>1. next \in SUBSET (0 .. Len(events) + 1)
    <3>1. \A n \in was : n \in 0 .. Len(events) + 1
      BY <1>3
    <3>2. Len(events) + 1 \in 0 .. Len(events) + 1
      BY <1>3
    <3> QED BY <3>1, <3>2, Zenon
  <2>2. \A i \in 0 .. Len(events) : i \in next <=> i \in was
    BY <1>3
  <2>3. Len(events) + 1 \in next <=> d \in present'
    BY <1>3
  <2> QED BY <2>1, <2>2, <2>3
<1>5. Told(d)' <=> Told(d)
  BY DEF Told, InList, Tells
<1>8. ASSUME NEW i \in 1 .. Len(events')
      PROVE  /\ events'[i].dir = d => (i \in now <=> events'[i].type = "create")
             /\ events'[i].dir = d <=> ~(i \in now <=> i - 1 \in now)
  <2>1. CASE i \in 1 .. Len(events)
    <3>1. i \in 0 .. Len(events) /\ i - 1 \in 0 .. Len(events)
      BY <1>3, <2>1
    <3> QED BY <1>2, <1>3, <1>4, <2>1, <3>1 DEF Leads
  <2>2. CASE i = Len(events) + 1
    <3>1. i - 1 = Len(events) /\ events'[i] = e
      BY <1>3, <2>2
    <3>2. i - 1 \in now <=> d \in present
      BY <1>2, <1>3, <1>4, <3>1 DEF Leads
    <3> QED BY <1>4, <2>2, <3>1, <3>2
  <2> QED BY <1>3, <2>1, <2>2
<1>9. 0 \in now <=> Told(d)'
  BY <1>2, <1>3, <1>4, <1>5 DEF Leads
<1>10. Leads(now, d)'
  BY <1>3, <1>4, <1>8, <1>9 DEF Leads
<1>11. now \in SUBSET (0 .. Len(events'))
  BY <1>3
<1> QED BY <1>10, <1>11 DEF HistoryOf, Once, InList, Tells

\* threadWatch takes the first event: what it has to tell makes up for it.
LEMMA HistoryShrinks ==
    ASSUME Types, NEW d \in Dir, HistoryOf(d), NextEvent, watch' # "ended"
    PROVE  HistoryOf(d)'
<1> DEFINE e == Head(events)
<1>1. /\ events \in Seq(Event) /\ events # <<>> /\ telling = {}
      /\ UNCHANGED <<present, directories>>
  BY DEF NextEvent, WatchStep, external, Types, DiskType
<1>2. /\ Len(events') = Len(events) - 1 /\ Len(events) \in Nat \ {0}
      /\ \A i \in 1 .. Len(events) - 1 : events'[i] = events[i + 1]
      /\ e = events[1] /\ e \in Event
  BY <1>1 DEF NextEvent
<1>3. PICK was \in SUBSET (0 .. Len(events)) : Leads(was, d)
  BY DEF HistoryOf
<1>4. PICK now \in SUBSET (0 .. Len(events) - 1) :
          \A i \in 0 .. Len(events) - 1 : i \in now <=> i + 1 \in was
  <2> DEFINE next == {i \in 0 .. Len(events) - 1 : i + 1 \in was}
  <2> QED BY <1>2, next \in SUBSET (0 .. Len(events) - 1), Zenon
<1>5. /\ InList(d)' <=> InList(d)
      /\ Told(d) <=> InList(d)
  BY <1>1 DEF InList, Told, Tells
<1>6. /\ 0 \in was <=> InList(d)
      /\ e.dir = d => (1 \in was <=> e.type = "create")
      /\ e.dir = d <=> ~(1 \in was <=> 0 \in was)
  BY <1>2, <1>3, <1>5 DEF Leads
<1>7. e.type \in {"create", "delete", "rename"} /\ e.dir \in Dir
  BY <1>2 DEF Event
<1>8. telling' = IF e.type = "create" THEN {Tells("ADDDIRECTORY", e.dir)}
                 ELSE {Tells("REMOVEDIRECTORY", e.dir)}
  BY <1>7 DEF NextEvent, Removals
<1> HIDE DEF e
<1>9. /\ Told(d)' <=> 1 \in was
      /\ Tells("ADDDIRECTORY", d) \in telling' => ~InList(d)
      /\ Tells("REMOVEDIRECTORY", d) \in telling' => InList(d)
  <2>1. CASE e.dir = d
    BY <1>5, <1>6, <1>8, <2>1 DEF Told, Tells
  <2>2. CASE e.dir # d
    BY <1>5, <1>6, <1>8, <2>2 DEF Told, Tells
  <2> QED BY <2>1, <2>2
<1>10. 0 \in now <=> Told(d)'
  BY <1>2, <1>4, <1>9
<1>11. Len(events') \in now <=> d \in present'
  <2>1. Len(events) \in was <=> d \in present
    BY <1>3 DEF Leads
  <2> QED BY <1>1, <1>2, <1>4, <2>1
<1>12. ASSUME NEW i \in 1 .. Len(events')
       PROVE  /\ events'[i].dir = d => (i \in now <=> events'[i].type = "create")
              /\ events'[i].dir = d <=> ~(i \in now <=> i - 1 \in now)
  <2>1. /\ i + 1 \in 1 .. Len(events) /\ events'[i] = events[i + 1]
        /\ i \in now <=> i + 1 \in was
        /\ i - 1 \in now <=> i \in was
    BY <1>2, <1>4
  <2>2. /\ events[i + 1].dir = d => (i + 1 \in was <=> events[i + 1].type = "create")
        /\ events[i + 1].dir = d <=> ~(i + 1 \in was <=> (i + 1) - 1 \in was)
    BY <1>3, <2>1 DEF Leads
  <2>3. (i + 1) - 1 = i
    BY <1>2
  <2> QED BY <2>1, <2>2, <2>3
<1>13. Leads(now, d)'
  BY <1>10, <1>11, <1>12 DEF Leads
<1>14. now \in SUBSET (0 .. Len(events'))
  BY <1>2
<1> QED BY <1>1, <1>5, <1>9, <1>13, <1>14 DEF HistoryOf, Once, Tells

\* The event goroutine hears of a directory.
LEMMA HistoryHeard ==
    ASSUME NEW d, HistoryOf(d), UNCHANGED <<events, present>>,
           Once(d)', Told(d)' <=> Told(d),
           Tells("ADDDIRECTORY", d) \in telling' => ~InList(d)',
           Tells("REMOVEDIRECTORY", d) \in telling' => InList(d)'
    PROVE  HistoryOf(d)'
BY DEF HistoryOf, Leads, Tells

LEMMA HistoryAdds ==
    ASSUME Types, NEW d \in Dir, HistoryOf(d), NEW added \in Dir, AddDirectory(added)
    PROVE  HistoryOf(d)'
<1>1. directories \in Seq(Dir)
  BY DEF Types, DiskType
<1>2. /\ directories' = Append(directories, added)
      /\ Tells("ADDDIRECTORY", added) \in telling
      /\ telling' = telling \ {Tells("ADDDIRECTORY", added)}
      /\ UNCHANGED <<events, present>>
  BY DEF AddDirectory, external
<1>3. /\ DOMAIN directories' = 1 .. Len(directories) + 1
      /\ DOMAIN directories = 1 .. Len(directories)
      /\ Len(directories) \in Nat
      /\ \A i \in 1 .. Len(directories) : directories'[i] = directories[i]
      /\ directories'[Len(directories) + 1] = added
  BY <1>1, <1>2
<1>4. InList(d)' <=> InList(d) \/ d = added
  BY <1>3 DEF InList
<1>5. d = added => ~InList(d)
  BY <1>2 DEF HistoryOf
<1>6. Once(d)'
  BY <1>3, <1>5 DEF HistoryOf, Once, InList
<1>7. /\ Tells("ADDDIRECTORY", d) \in telling' <=>
              Tells("ADDDIRECTORY", d) \in telling /\ d # added
      /\ Tells("REMOVEDIRECTORY", d) \in telling' <=> Tells("REMOVEDIRECTORY", d) \in telling
  BY <1>2 DEF Tells
<1>8. d = added => Tells("REMOVEDIRECTORY", d) \notin telling
  BY <1>5 DEF HistoryOf
<1>9. Told(d)' <=> Told(d)
  BY <1>2, <1>4, <1>7, <1>8 DEF Told, Tells
<1> QED BY <1>2, <1>4, <1>6, <1>7, <1>9, HistoryHeard DEF HistoryOf

LEMMA HistoryRemoves ==
    ASSUME Types, TellingInv, NEW d \in Dir, HistoryOf(d),
           NEW removed \in Dir, RemoveDirectory(removed)
    PROVE  HistoryOf(d)'
<1>1. directories \in Seq(Dir) /\ watch \in {"listing", "starting", "watching", "ended"}
  BY DEF Types, DiskType
<1>2. /\ Tells("REMOVEDIRECTORY", removed) \in telling /\ telling' = {}
      /\ UNCHANGED <<events, present>>
  BY DEF RemoveDirectory, external
<1>3. telling = {Tells("REMOVEDIRECTORY", removed)}
  BY <1>1, <1>2 DEF TellingInv, Tells
<1>4. Told(d) <=> InList(d) /\ d # removed
  BY <1>3 DEF Told, Tells
<1>5. CASE removed \notin Range(directories)
  <2>1. UNCHANGED directories
    BY <1>5 DEF RemoveDirectory
  <2>2. d # removed
    BY <1>3, <1>5 DEF HistoryOf, InList, Range
  <2> QED BY <1>2, <1>4, <2>1, <2>2, HistoryHeard DEF HistoryOf, Once, InList, Told
<1>6. CASE removed \in Range(directories)
  <2> DEFINE i == SelectInSeq(directories, LAMBDA e : e = removed)
  <2>1. i \in 1 .. Len(directories) /\ directories[i] = removed
    BY <1>6, PlaceFound DEF Types
  <2>2. directories' = RemoveAt(directories, i)
    BY <1>6 DEF RemoveDirectory
  <2> HIDE DEF i
  <2>3. /\ directories' \in Seq(Dir) /\ Len(directories') = Len(directories) - 1
        /\ \A j \in 1 .. Len(directories) - 1 :
              directories'[j] = IF j < i THEN directories[j] ELSE directories[j + 1]
    BY <1>1, <2>1, <2>2, PlaceRemoved, Zenon
  <2>4. /\ DOMAIN directories = 1 .. Len(directories) /\ Len(directories) \in Nat
        /\ DOMAIN directories' = 1 .. Len(directories) - 1
    BY <1>1, <2>3
  <2> DEFINE before(j) == IF j < i THEN j ELSE j + 1
  <2>5. \A j \in DOMAIN directories' :
           /\ before(j) \in DOMAIN directories /\ before(j) # i
           /\ directories'[j] = directories[before(j)]
    BY <2>1, <2>3, <2>4
  <2>6. Once(d)'
    <3> SUFFICES ASSUME NEW j \in DOMAIN directories', NEW k \in DOMAIN directories',
                        directories'[j] = d, directories'[k] = d
                 PROVE  j = k
      BY DEF Once
    <3>1. before(j) = before(k)
      BY <2>5 DEF HistoryOf, Once
    <3> QED BY <2>1, <2>4, <3>1
  <2>7. InList(d)' <=> InList(d) /\ d # removed
    <3>1. ASSUME InList(d)' PROVE InList(d) /\ d # removed
      <4>1. PICK j \in DOMAIN directories' : directories'[j] = d
        BY <3>1 DEF InList
      <4>2. before(j) \in DOMAIN directories /\ before(j) # i /\ directories[before(j)] = d
        BY <2>5, <4>1
      <4> HIDE DEF before
      <4> QED BY <2>1, <2>4, <4>2 DEF InList, HistoryOf, Once
    <3>2. ASSUME InList(d), d # removed PROVE InList(d)'
      <4>1. PICK j \in DOMAIN directories : directories[j] = d
        BY <3>2 DEF InList
      <4>2. j < i => j \in DOMAIN directories' /\ directories'[j] = d
        BY <2>1, <2>3, <2>4, <4>1
      <4>3. j > i => j - 1 \in DOMAIN directories' /\ directories'[j - 1] = d
        BY <2>1, <2>3, <2>4, <4>1
      <4> QED BY <2>1, <2>4, <3>2, <4>1, <4>2, <4>3 DEF InList
    <3> QED BY <3>1, <3>2
  <2>8. Told(d)' <=> Told(d)
    BY <1>2, <1>4, <2>7 DEF Told
  <2> QED BY <1>2, <2>6, <2>8, HistoryHeard
<1> QED BY <1>5, <1>6

LEMMA NextHistory == Types /\ TellingInv /\ HistoryInv /\ [Next]_vars => HistoryInv'
<1> SUFFICES ASSUME Types, TellingInv, HistoryInv, [Next]_vars,
                    watch' \in {"starting", "watching"}, NEW d \in Dir \ unseen'
             PROVE  HistoryOf(d)'
  BY DEF HistoryInv
<1>1. ASSUME UNCHANGED <<present, events, watch, telling, directories, unseen>>
      PROVE  HistoryOf(d)'
  BY <1>1, HistoryKept DEF HistoryInv
<1>2. ASSUME NEW changed \in Dir, NEW type \in {"create", "delete", "rename"},
             DirChanges(changed, type),
             d # changed => (d \in present' <=> d \in present),
             d = changed => /\ d \in present' <=> type = "create"
                            /\ d \in present' <=> d \notin present
      PROVE  HistoryOf(d)'
  <2>1. UNCHANGED <<watch, telling, directories>>
    BY <1>2 DEF DirChanges
  <2>2. d \in Dir \ unseen /\ HistoryOf(d)
    BY <1>2, <2>1 DEF DirChanges, HistoryInv
  <2>3. CASE watch = "watching"
    <3> DEFINE e == [type |-> type, dir |-> changed]
    <3>1. events' = Append(events, e)
      BY <1>2, <2>3 DEF DirChanges, Watched
    <3>2. e \in Event /\ e.type = type /\ e.dir = changed
      BY DEF Event
    <3> HIDE DEF e
    <3> QED BY <1>2, <2>1, <2>2, <3>1, <3>2, HistoryGrows
  <2>4. CASE watch = "starting"
    <3>1. d # changed /\ UNCHANGED events
      BY <1>2, <2>4 DEF DirChanges, Watched
    <3> QED BY <1>2, <2>1, <2>2, <3>1, HistoryKept
  <2> QED BY <2>1, <2>3, <2>4
<1>3. ASSUME NEW c \in Dir,
             \/ \E within \in SUBSET holds[c] : MakeDir(c, within)
             \/ RemoveDir(c)
             \/ \E p \in holds[c] : ChangeFile(c, p)
      PROVE  HistoryOf(d)'
  <2>1. RemoveDir(c) => \E type \in {"delete", "rename"} : DirChanges(c, type)
    BY SchedulerAssumption DEF RemoveDir
  <2> QED BY <1>1, <1>2, <1>3, <2>1 DEF MakeDir, RemoveDir, ChangeFile
<1>4. CASE ListDirectories
  <2>1. /\ watch = "listing" /\ directories' = <<>> /\ events' = <<>>
        /\ telling' = {Tells("ADDDIRECTORY", c) : c \in present} /\ UNCHANGED present
    BY <1>4 DEF ListDirectories, WatchStep, external, TellingInv
  <2>2. ~InList(d)' /\ Once(d)'
    BY <2>1 DEF InList, Once
  <2>3. /\ Tells("ADDDIRECTORY", d) \in telling' <=> d \in present'
        /\ Tells("REMOVEDIRECTORY", d) \notin telling'
    BY <2>1 DEF Tells
  <2>4. Told(d)' <=> d \in present'
    BY <2>2, <2>3 DEF Told, Tells
  <2>5. PICK was \in SUBSET {0} : 0 \in was <=> d \in present'
    <3> {n \in {0} : d \in present'} \in SUBSET {0}
      OBVIOUS
    <3> QED OBVIOUS
  <2>6. Len(events') = 0 /\ was \in SUBSET (0 .. Len(events'))
    BY <2>1
  <2>7. Leads(was, d)'
    BY <2>1, <2>4, <2>5, <2>6 DEF Leads
  <2> QED BY <2>2, <2>3, <2>6, <2>7 DEF HistoryOf, Tells
<1>5. CASE Install
  BY <1>5, HistoryKept DEF Install, WatchStep, external, HistoryInv
<1>6. CASE NextEvent
  <2>1. watch = "watching" /\ d \in Dir \ unseen
    BY <1>6 DEF NextEvent, WatchStep, external
  <2> QED BY <1>6, <2>1, HistoryShrinks DEF HistoryInv
<1>7. ASSUME NEW c \in Dir, AddDirectory(c) \/ RemoveDirectory(c) PROVE HistoryOf(d)'
  <2>1. UNCHANGED watch /\ d \in Dir \ unseen
    BY <1>7 DEF AddDirectory, RemoveDirectory, external
  <2> QED BY <1>7, <2>1, HistoryAdds, HistoryRemoves DEF HistoryInv
<1>8. ASSUME NEW l \in Slot, LoopNext(l) \/ \E p \in Probe : RunEnds(l, p)
      PROVE  HistoryOf(d)'
  BY <1>1, <1>8
  DEF LoopNext, Wake, Walk, Walked, BreaksOff, Round, RunEnds, LoopStep, external
<1>9. CASE UNCHANGED vars
  BY <1>1, <1>9 DEF vars
<1> QED BY <1>3, <1>4, <1>5, <1>6, <1>7, <1>8, <1>9 DEF Next

LEMMA StepCorrect == Spec => []StepInv
<1>1. StepInv /\ [Next]_vars => StepInv'
  BY NextTypes, NextTelling, NextHistory DEF StepInv
<1> QED BY <1>1, InitStep, PTL DEF Spec

-----------------------------------------------------------------------------
\* Types, in every state: no loop stands outside the list that others change
\* under it, and threadWatch tells one thing at a time once it watches.
THEOREM SchedulerTypeCorrect == Spec => []TypeOK
<1>1. ASSUME StepInv PROVE TypeOK
  <2>1. watch = "watching" => Cardinality(telling) <= 1
    <3>1. Cardinality({}) = 0
      BY FS_EmptySet
    <3>2. \A m \in Message : Cardinality({m}) = 1
      BY FS_Singleton
    <3>3. watch = "watching" => telling = {} \/ \E m \in Message : telling = {m}
      BY <1>1 DEF StepInv, TellingInv
    <3> QED BY <3>1, <3>2, <3>3
  <2> QED BY <1>1, <2>1, Zenon DEF StepInv, Types, DiskType, LoopsType, Ways, TypeOK
<1> QED BY <1>1, StepCorrect, PTL

\* The list of the loops follows the disk, for any number of directories that
\* come and go at any time after the watch was installed.
THEOREM ListInStep == Spec => []InStep
<1>1. ASSUME StepInv, watch = "watching", telling = {}, events = <<>>, NEW d \in Dir \ unseen
      PROVE  Times(d) = IF d \in present THEN 1 ELSE 0
  <2> DEFINE Places == {i \in DOMAIN directories : directories[i] = d}
  <2>1. HistoryOf(d)
    BY <1>1 DEF StepInv, HistoryInv
  <2>2. InList(d) <=> d \in present
    BY <1>1, <2>1 DEF HistoryOf, Leads, Told
  <2>3. CASE InList(d)
    <3>1. PICK i \in DOMAIN directories : directories[i] = d
      BY <2>3 DEF InList
    <3>2. Places = {i}
      BY <2>1, <3>1 DEF HistoryOf, Once
    <3> QED BY <2>2, <2>3, <3>2, FS_Singleton DEF Times
  <2>4. CASE ~InList(d)
    <3>1. Places = {}
      BY <2>4 DEF InList
    <3> QED BY <2>2, <2>4, <3>1, FS_EmptySet DEF Times
  <2> QED BY <2>3, <2>4
<1>2. StepInv => InStep
  BY <1>1 DEF InStep
<1> QED BY <1>2, StepCorrect, PTL
=============================================================================
