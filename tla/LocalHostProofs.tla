---------------------------- MODULE LocalHostProofs ----------------------------
(***************************************************************************)
(* The statuses and results of the local host keep their types, whatever   *)
(* its goroutines do to them at the same time and however many they are:   *)
(* a status is that of a result, or the one it starts from.  What a status  *)
(* ends up as is proved of one recomputation at a time (RecomputedAlone).   *)
(***************************************************************************)
EXTENDS LocalHost, TLAPS

LEMMA RunType ==
    ASSUME NEW r \in Run, NEW s \in Level, NEW p \in Probe
    PROVE  /\ Result(r, s) \in Run /\ Result(r, s).status = s
           /\ [r EXCEPT !.left[p] = NoResult] \in Run
           /\ r.left[p] # NoResult => r.left[p] \in Level
<1>1. r.left \in [Probe -> Level \cup {NoResult}]
  BY DEF Run, Results
<1>2. [r.left EXCEPT ![p] = NoResult] \in Results
  BY <1>1 DEF Results
<1>3. [r EXCEPT !.left[p] = NoResult] = [r EXCEPT !.left = [r.left EXCEPT ![p] = NoResult]]
  BY DEF Run
<1>4. ASSUME NEW left \in Results PROVE [r EXCEPT !.left = left] \in Run
  BY DEF Run
<1>5. Result(r, s) \in Run /\ Result(r, s).status = s
  BY DEF Result, Run
<1> QED  BY <1>1, <1>2, <1>3, <1>4, <1>5

\* Who has a status to store or to show has one.
RunOK(r) == r \in Run /\ (r.pc \in {"Put", "Raise"} => r.status # NoResult)

RunsOK == run \in [Goroutine -> Run] /\ \A g \in Goroutine : RunOK(run[g])

\* A step of one goroutine.
LEMMA Moved ==
    ASSUME RunsOK, NEW g \in Goroutine, NEW r, RunOK(r), run' = [run EXCEPT ![g] = r]
    PROVE  RunsOK'
BY DEF RunsOK, RunOK

LEMMA IdleOK == RunOK(Idle)
BY DEF RunOK, Idle, Run, Results, NoResults

\* Going to a step that needs no status.
LEMMA Gone ==
    ASSUME RunsOK, NEW g \in Goroutine, NEW step, Goto(g, step),
           step \in {"Exec", "PushBack", "Delete", "Reset", "Iterate"}
    PROVE  RunsOK'
<1>1. run[g] \in Run /\ run \in [Goroutine -> Run]
  BY DEF RunsOK
<1>2. RunOK([run[g] EXCEPT !.pc = step])
  BY <1>1 DEF RunOK, Run
<1>3. run' = [run EXCEPT ![g] = [run[g] EXCEPT !.pc = step]]
  BY DEF Goto
<1> QED  BY <1>2, <1>3, Moved

LEMMA Returned ==
    ASSUME RunsOK, NEW g \in Goroutine, Return(g)
    PROVE  RunsOK'
BY Moved, IdleOK DEF Return

LEMMA ServeTypeOK ==
    ASSUME TypeOK, RunsOK, NEW g \in Goroutine, Serve(g)
    PROVE  /\ disabled' \in SUBSET Probe /\ lost' \in BOOLEAN /\ UNCHANGED <<files, known>>
           /\ results' \in Results
           /\ shown' \in [{"Status", "GlobalStatus"} -> Level \cup {0, 100}]
           /\ RunsOK'
<1> DEFINE Rest == /\ disabled' \in SUBSET Probe /\ lost' \in BOOLEAN
                   /\ UNCHANGED <<files, known>>
                   /\ results' \in Results
                   /\ shown' \in [{"Status", "GlobalStatus"} -> Level \cup {0, 100}]
<1> USE DEF TypeOK, list
<1>0. /\ run[g] \in Run /\ run \in [Goroutine -> Run]
      /\ Of[g] \in Probe
      /\ run[g].field \in {"Status", "GlobalStatus"}
      /\ run[g].pc \in {"Put", "Raise"} => run[g].status \in Level
  BY LocalHostAssumption DEF RunsOK, Run
<1>1. ASSUME NEW s \in Level, Answered(g, s) PROVE Rest /\ RunsOK'
  <2>1. Result(run[g], s) \in Run /\ Result(run[g], s).status = s
    BY <1>0, RunType
  <2>2. RunOK(Result(run[g], s))
    BY <2>1, LocalHostAssumption DEF RunOK
  <2> QED  BY <1>1, <2>2, Moved DEF Answered
<1>2. CASE Unanswered(g)
  BY <1>2, Returned DEF Unanswered
<1>3. CASE Disable(g)
  <2>1. CASE Goto(g, "Delete")
    BY <1>3, <2>1, Gone DEF Disable
  <2>2. CASE run' = [run EXCEPT ![g].pc = "PushBack", ![g].list = disabled,
                                 ![g].lost = lost]
    <3> DEFINE r == [run[g] EXCEPT !.pc = "PushBack", !.list = disabled, !.lost = lost]
    <3>1. RunOK(r)
      BY <1>0 DEF RunOK, Run
    <3>2. run' = [run EXCEPT ![g] = r]
      BY <1>0, <2>2
    <3> QED  BY <1>3, <3>1, <3>2, Moved DEF Disable
  <2> QED  BY <1>3, <2>1, <2>2 DEF Disable
<1>4. CASE PushBack(g)
  <2> DEFINE r == [run[g] EXCEPT !.pc = "Delete", !.list = {}, !.lost = FALSE]
  <2>1. RunOK(r)
    BY <1>0 DEF RunOK, Run
  <2>2. run' = [run EXCEPT ![g] = r]
    BY <1>0, <1>4 DEF PushBack
  <2>3. disabled' \in SUBSET Probe /\ lost' \in BOOLEAN
    BY <1>0, <1>4 DEF PushBack, Appended, Crossed
  <2> QED  BY <1>4, <2>1, <2>2, <2>3, Moved DEF PushBack
<1>5. CASE Delete(g)
  <2>1. results' \in Results
    BY <1>5 DEF Delete, Deleted, Results
  <2> QED  BY <1>5, <2>1, Returned DEF Delete
<1>6. CASE Put(g)
  <2>1. RunOK([run[g] EXCEPT !.pc = "Reset", !.status = NoResult])
    BY <1>0 DEF RunOK, Run
  <2>2. run' = [run EXCEPT ![g] = [run[g] EXCEPT !.pc = "Reset", !.status = NoResult]]
    BY <1>0, <1>6 DEF Put
  <2>3. results' \in Results
    BY <1>0, <1>6 DEF Put, At, Results
  <2> QED  BY <1>6, <2>1, <2>2, <2>3, Moved DEF Put
<1>7. CASE Reset(g)
  BY <1>7, <1>0, Gone DEF Reset, StartsFrom
<1>8. CASE Iterate(g)
  <2>1. RunOK([run[g] EXCEPT !.pc = "Compare", !.left = results])
    BY <1>0 DEF RunOK, Run
  <2>2. run' = [run EXCEPT ![g] = [run[g] EXCEPT !.pc = "Compare", !.left = results]]
    BY <1>0, <1>8 DEF Iterate
  <2> QED  BY <1>8, <2>1, <2>2, Moved DEF Iterate
<1>9. ASSUME NEW p \in Probe, Compare(g, p) PROVE Rest /\ RunsOK'
  <2> DEFINE s == run[g].left[p]
             visited == [run[g] EXCEPT !.left[p] = NoResult]
             higher == [run[g] EXCEPT !.pc = "Raise", !.status = s, !.left[p] = NoResult]
  <2>1. s \in Level /\ run[g].pc = "Compare"
    <3>1. run[g].left[p] \in Level \cup {NoResult}
      BY <1>0 DEF Run, Results
    <3> QED  BY <1>9, <3>1 DEF Compare, At
  <2>2. visited \in Run /\ visited.pc = "Compare"
    <3>1. visited.pc = run[g].pc
      BY <1>0 DEF Run
    <3>2. Level # {}
      BY <2>1
    <3> QED  BY <1>0, <2>1, <3>1, <3>2, RunType
  <2>3. higher = [visited EXCEPT !.pc = "Raise", !.status = s]
    BY <1>0 DEF Run
  <2>4. higher \in Run /\ higher.status = s
    <3> HIDE DEF visited, s, higher
    <3>1. [visited EXCEPT !.pc = "Raise", !.status = s] \in Run
      BY <2>1, <2>2 DEF Run
    <3>2. [visited EXCEPT !.pc = "Raise", !.status = s].status = s
      BY <2>2 DEF Run
    <3> QED  BY <2>3, <3>1, <3>2
  <2>5. RunOK(visited) /\ RunOK(higher)
    <3> HIDE DEF visited, s, higher
    <3> QED  BY <2>1, <2>2, <2>4, LocalHostAssumption DEF RunOK
  <2>6. \/ run' = [run EXCEPT ![g] = visited]
        \/ run' = [run EXCEPT ![g] = higher]
    BY <1>9 DEF Compare
  <2>7. RunsOK'
    <3> HIDE DEF visited, s, higher
    <3> QED  BY <2>5, <2>6, Moved
  <2> QED  BY <1>9, <2>7 DEF Compare
<1>10. CASE Raise(g)
  <2>1. RunOK([run[g] EXCEPT !.pc = "Compare", !.status = NoResult])
    BY <1>0 DEF RunOK, Run
  <2>2. run' = [run EXCEPT ![g] = [run[g] EXCEPT !.pc = "Compare", !.status = NoResult]]
    BY <1>0, <1>10 DEF Raise
  <2>3. shown' \in [{"Status", "GlobalStatus"} -> Level \cup {0, 100}]
    BY <1>0, <1>10 DEF Raise, At
  <2> QED  BY <1>10, <2>1, <2>2, <2>3, Moved DEF Raise
<1>11. CASE Recomputed(g)
  <2>1. RunOK([Idle EXCEPT !.pc = "Reset", !.field = "GlobalStatus"])
    BY IdleOK DEF RunOK, Idle, Run
  <2>2. RunsOK'
    BY <1>11, <2>1, Moved, Returned DEF Recomputed
  <2> QED  BY <1>11, <2>2 DEF Recomputed
<1> QED  BY <1>1, <1>2, <1>3, <1>4, <1>5, <1>6, <1>7, <1>8, <1>9, <1>10, <1>11 DEF Serve

LEMMA NextTypeOK == TypeOK /\ [Next]_vars => TypeOK'
<1> SUFFICES ASSUME TypeOK, [Next]_vars PROVE TypeOK'
  OBVIOUS
<1>1. RunsOK
  BY DEF TypeOK, RunsOK, RunOK
<1>2. ASSUME files' \in SUBSET Probe, known' \in SUBSET Probe,
             disabled' \in SUBSET Probe, lost' \in BOOLEAN, results' \in Results,
             shown' \in [{"Status", "GlobalStatus"} -> Level \cup {0, 100}], RunsOK'
      PROVE  TypeOK'
  BY <1>2 DEF TypeOK, RunsOK, RunOK
<1>3. ASSUME NEW p \in Probe, ChangeFile(p) \/ Forget(p) PROVE TypeOK'
  BY <1>3 DEF ChangeFile, Forget, Deleted, TypeOK, Results, list
<1>4. ASSUME NEW g \in Goroutine, Launch(g) PROVE TypeOK'
  <2>1. RunsOK'
    BY <1>1, <1>4, Gone DEF Launch
  <2>2. known' \in SUBSET Probe
    BY <1>4, LocalHostAssumption DEF Launch, TypeOK
  <2> QED  BY <1>2, <1>4, <2>1, <2>2 DEF Launch, TypeOK, list
<1>5. ASSUME NEW g \in Goroutine, Serve(g) PROVE TypeOK'
  BY <1>1, <1>2, <1>5, ServeTypeOK DEF TypeOK
<1>6. CASE RemoteUpdate
  <2> DEFINE r == [run[Updater] EXCEPT !.pc = "Reset", !.field = "GlobalStatus"]
  <2>1. Updater \in Goroutine /\ run[Updater] \in Run /\ run \in [Goroutine -> Run]
    BY LocalHostAssumption DEF TypeOK
  <2>2. RunOK(r)
    BY <2>1 DEF RunOK, Run
  <2>3. run' = [run EXCEPT ![Updater] = r]
    BY <1>6, <2>1 DEF RemoteUpdate
  <2>4. RunsOK'
    BY <1>1, <2>1, <2>2, <2>3, Moved
  <2> QED  BY <1>2, <1>6, <2>4 DEF RemoteUpdate, TypeOK, list
<1>7. CASE UNCHANGED vars
  BY <1>7 DEF vars, list, TypeOK
<1> QED  BY <1>3, <1>4, <1>5, <1>6, <1>7 DEF Next

\* The type invariant: the status of the host and of the wigo is at any moment
\* that of some level, or one they start from, and no goroutine of execProbe
\* stores or shows a status it does not have.
THEOREM LocalHostTypeCorrect == Spec => []TypeOK
<1>1. Init => TypeOK
  BY IdleOK DEF Init, TypeOK, RunOK, NoResults, Results, Idle
<1> QED  BY <1>1, NextTypeOK, PTL DEF Spec

-----------------------------------------------------------------------------
(* What is shown when nobody interferes.  With another goroutine between    *)
(* two of its steps a recomputation may show a status that no probe has;    *)
(* these are the ways to make it, and there is no other.                    *)

Recomputing(g) == run[g].pc \in {"Reset", "Iterate", "Compare", "Raise"}

\* The statuses of the host and of the wigo are recomputed by one at a time.
OneAtATime == \A g, h \in Goroutine : Recomputing(g) /\ Recomputing(h) => g = h

\* No result is stored or deleted meanwhile.
ResultsRest == (\E g \in Goroutine : Recomputing(g)) => UNCHANGED results

\* The status that a recomputation ends with is that of the worst result.
EndsWithHighest ==
    \A g \in Goroutine :
        Recomputed(g) => LET f == run[g].field
                         IN  Highest(f) /\ (IsResult(f) \/ results = NoResults)

\* The recomputation r, when the probes have the results res and it has brought
\* the status to show: what it has still to visit are results, and none of the
\* others is higher than what it shows or is about to show.
Visited(r, res, show) == \A p \in Probe :
    res[p] # NoResult => \/ r.left[p] = res[p] \/ res[p] <= show
                         \/ r.pc = "Raise" /\ res[p] <= r.status

VisitOK(r, res, show) ==
    /\ r.pc = "Iterate" => show = 0
    /\ r.pc \in {"Compare", "Raise"} =>
           /\ \A p \in Probe : r.left[p] \in {NoResult, res[p]}
           /\ Visited(r, res, show)
           /\ show = 0 \/ \E p \in Probe : res[p] = show
    /\ r.pc = "Raise" => show < r.status /\ \E p \in Probe : res[p] = r.status

VisitInv == \A g \in Goroutine : VisitOK(run[g], results, shown[run[g].field])

LEMMA TypesOfRun ==
    ASSUME TypeOK, NEW g \in Goroutine
    PROVE  /\ run \in [Goroutine -> Run] /\ run[g] \in Run
           /\ run[g].field \in {"Status", "GlobalStatus"}
           /\ shown[run[g].field] \in Nat
           /\ run[g].left \in [Probe -> Level \cup {NoResult}]
           /\ run[g].pc = "Raise" => run[g].status \in Nat
           /\ \A p \in Probe : results[p] # NoResult => results[p] \in Nat
<1>0. Level \cup {0, 100} \subseteq Nat
  BY LocalHostAssumption
<1>1. run \in [Goroutine -> Run] /\ run[g] \in Run
  BY DEF TypeOK
<1>2. run[g].field \in {"Status", "GlobalStatus"} /\ run[g].left \in Results
  BY <1>1 DEF Run
<1>3. shown[run[g].field] \in Nat
  <2>1. shown[run[g].field] \in Level \cup {0, 100}
    BY <1>2 DEF TypeOK
  <2> QED  BY <1>0, <2>1
<1>4. run[g].pc = "Raise" => run[g].status \in Nat
  <2>1. run[g].pc = "Raise" => run[g].status \in Level
    BY <1>1 DEF TypeOK, Run
  <2> QED  BY <1>0, <2>1
<1>5. \A p \in Probe : results[p] # NoResult => results[p] \in Nat
  BY LocalHostAssumption DEF TypeOK, Results
<1> QED  BY <1>1, <1>2, <1>3, <1>4, <1>5 DEF Results

\* The steps of a recomputation.
LEMMA ResetOK ==
    ASSUME TypeOK, NEW g \in Goroutine, Reset(g)
    PROVE  VisitOK(run'[g], results', shown'[run'[g].field])
<1>1. run'[g].pc = "Iterate" /\ run'[g].field = run[g].field
  BY TypesOfRun DEF Reset, Goto, Run
<1>2. shown'[run[g].field] = 0
  BY TypesOfRun DEF Reset, StartsFrom, TypeOK
<1> QED  BY <1>1, <1>2 DEF VisitOK

LEMMA IterateOK ==
    ASSUME TypeOK, VisitInv, NEW g \in Goroutine, Iterate(g)
    PROVE  VisitOK(run'[g], results', shown'[run'[g].field])
<1>1. /\ run'[g].pc = "Compare" /\ run'[g].field = run[g].field
      /\ run'[g].left = results
  BY TypesOfRun DEF Iterate, Run
<1>2. shown'[run[g].field] = 0 /\ results' = results
  BY DEF Iterate, At, VisitInv, VisitOK
<1> QED  BY <1>1, <1>2 DEF VisitOK, Visited

LEMMA CompareOK ==
    ASSUME TypeOK, VisitInv, NEW g \in Goroutine, NEW q \in Probe, Compare(g, q)
    PROVE  VisitOK(run'[g], results', shown'[run'[g].field])
<1> DEFINE r == run[g]
           s == r.left[q]
           show == shown[r.field]
<1>1. r.pc = "Compare" /\ s # NoResult /\ VisitOK(r, results, show)
  BY DEF Compare, At, VisitInv
<1>2. /\ s = results[q]
      /\ \A p \in Probe : r.left[p] \in {NoResult, results[p]}
      /\ Visited(r, results, show)
      /\ show = 0 \/ \E p \in Probe : results[p] = show
  BY <1>1 DEF VisitOK
<1>3. results' = results /\ shown' = shown
  BY DEF Compare
<1>4. CASE s > show
  <2>1. run'[g] = [r EXCEPT !.pc = "Raise", !.status = s, !.left[q] = NoResult]
    BY <1>4, TypesOfRun DEF Compare
  <2>2. /\ run'[g].pc = "Raise" /\ run'[g].status = s /\ run'[g].field = r.field
        /\ \A p \in Probe : run'[g].left[p] = IF p = q THEN NoResult ELSE r.left[p]
    BY <2>1, TypesOfRun DEF Run
  <2> QED  BY <1>1, <1>2, <1>3, <1>4, <2>2, TypesOfRun DEF VisitOK, Visited
<1>5. CASE ~(s > show)
  <2>1. run'[g] = [r EXCEPT !.left[q] = NoResult]
    BY <1>5, TypesOfRun DEF Compare
  <2>2. /\ run'[g].pc = "Compare" /\ run'[g].field = r.field
        /\ \A p \in Probe : run'[g].left[p] = IF p = q THEN NoResult ELSE r.left[p]
    BY <1>1, <2>1, TypesOfRun DEF Run
  <2> QED  BY <1>1, <1>2, <1>3, <1>5, <2>2, TypesOfRun DEF VisitOK, Visited
<1> QED  BY <1>4, <1>5

LEMMA RaiseOK ==
    ASSUME TypeOK, VisitInv, NEW g \in Goroutine, Raise(g)
    PROVE  VisitOK(run'[g], results', shown'[run'[g].field])
<1> DEFINE r == run[g]
           show == shown[r.field]
<1>1. r.pc = "Raise" /\ VisitOK(r, results, show)
  BY DEF Raise, At, VisitInv
<1>2. /\ \A p \in Probe : r.left[p] \in {NoResult, results[p]}
      /\ Visited(r, results, show)
      /\ show < r.status /\ \E p \in Probe : results[p] = r.status
  BY <1>1 DEF VisitOK
<1>3. /\ run'[g].pc = "Compare" /\ run'[g].left = r.left /\ run'[g].field = r.field
      /\ results' = results /\ shown'[r.field] = r.status
  BY TypesOfRun DEF Raise, Run, TypeOK
<1> QED  BY <1>1, <1>2, <1>3, TypesOfRun DEF VisitOK, Visited

\* Whoever is not recomputing has nothing to keep.
LEMMA NotRecomputing ==
    ASSUME NEW r, NEW res, NEW show, r.pc \notin {"Iterate", "Compare", "Raise"}
    PROVE  VisitOK(r, res, show)
BY DEF VisitOK

\* The others leave a recomputation alone.
LEMMA OthersOK ==
    ASSUME TypeOK, VisitInv, OneAtATime, ResultsRest, NEW g \in Goroutine,
           NEW h \in Goroutine, g # h, Serve(h)
    PROVE  VisitOK(run'[g], results', shown'[run'[g].field])
<1>1. run'[g] = run[g]
  BY TypesOfRun
  DEF Serve, Answered, Unanswered, Disable, PushBack, Delete, Put, Reset, Iterate, Compare,
      Raise, Recomputed, Goto, Return
<1>2. CASE ~Recomputing(g)
  BY <1>1, <1>2, NotRecomputing DEF Recomputing
<1>3. CASE Recomputing(g)
  <2>1. ~Recomputing(h) /\ results' = results
    BY <1>3 DEF OneAtATime, ResultsRest
  <2>2. shown' = shown
    BY <2>1
    DEF Serve, Answered, Unanswered, Disable, PushBack, Delete, Put, Reset, Iterate, Compare,
        Raise, Recomputed, Recomputing, At
  <2> QED  BY <1>1, <2>1, <2>2 DEF VisitInv
<1> QED  BY <1>2, <1>3

LEMMA NextVisitInv ==
    ASSUME TypeOK, VisitInv, OneAtATime, [Next]_vars, [ResultsRest]_vars
    PROVE  VisitInv'
<1> SUFFICES ASSUME NEW g \in Goroutine
             PROVE  VisitOK(run'[g], results', shown'[run'[g].field])
  BY DEF VisitInv
<1>1. CASE UNCHANGED <<results, shown, run>>
  BY <1>1 DEF VisitInv
<1>2. CASE ResultsRest /\ \E p \in Probe : Forget(p)
  <2>1. UNCHANGED <<shown, run>>
    BY <1>2 DEF Forget
  <2>2. CASE Recomputing(g)
    BY <1>1, <1>2, <2>1, <2>2 DEF ResultsRest
  <2>3. CASE ~Recomputing(g)
    BY <2>1, <2>3, NotRecomputing DEF Recomputing
  <2> QED  BY <2>2, <2>3
<1>3. ASSUME NEW h \in Goroutine, Launch(h) \/ (h = Updater /\ RemoteUpdate)
      PROVE  VisitOK(run'[g], results', shown'[run'[g].field])
  <2>1. UNCHANGED <<results, shown>>
    BY <1>3 DEF Launch, RemoteUpdate
  <2>2. run'[g] = run[g] \/ run'[g].pc \in {"Exec", "Reset"}
    BY <1>3, TypesOfRun DEF Launch, RemoteUpdate, Goto, Run
  <2> QED  BY <2>1, <2>2, NotRecomputing DEF VisitInv
<1>4. ASSUME ResultsRest, NEW h \in Goroutine, Serve(h)
      PROVE  VisitOK(run'[g], results', shown'[run'[g].field])
  <2>1. CASE g # h
    BY <1>4, <2>1, OthersOK
  <2>2. CASE g = h /\ (\/ Reset(h) \/ Iterate(h) \/ \E p \in Probe : Compare(h, p)
                       \/ Raise(h))
    BY <2>2, ResetOK, IterateOK, CompareOK, RaiseOK
  <2>3. CASE g = h /\ (\/ \E s \in Level : Answered(h, s)
                       \/ Unanswered(h) \/ Disable(h) \/ PushBack(h) \/ Delete(h)
                       \/ Put(h) \/ Recomputed(h))
    <3>1. run \in [Goroutine -> Run] /\ run[h] \in Run
      BY TypesOfRun
    <3>2. ASSUME NEW s \in Level, Answered(h, s) PROVE run'[h].pc = "Put"
      BY <3>1, <3>2 DEF Answered, Result, Run
    <3>3. Unanswered(h) \/ Delete(h) => run'[h].pc = "Idle"
      BY <3>1 DEF Unanswered, Delete, Return, Idle
    <3>4. Disable(h) => run'[h].pc \in {"Delete", "PushBack"}
      <4>1. Goto(h, "Delete") => run'[h].pc = "Delete"
        BY <3>1 DEF Goto, Run
      <4>2. run' = [run EXCEPT ![h].pc = "PushBack", ![h].list = disabled,
                               ![h].lost = lost]
                => run'[h].pc = "PushBack"
        BY <3>1 DEF Run
      <4> QED  BY <4>1, <4>2 DEF Disable
    <3>5. PushBack(h) => run'[h].pc = "Delete"
      BY <3>1 DEF PushBack, Run
    <3>6. Put(h) => run'[h].pc = "Reset"
      BY <3>1 DEF Put, Run
    <3>7. Recomputed(h) => run'[h].pc \in {"Reset", "Idle"}
      <4>1. Idle.pc = "Idle" /\ [Idle EXCEPT !.pc = "Reset", !.field = "GlobalStatus"].pc = "Reset"
        BY DEF Idle
      <4> QED  BY <3>1, <4>1 DEF Recomputed, Return
    <3>8. run'[g].pc \in {"Put", "Idle", "PushBack", "Delete", "Reset"}
      BY <2>3, <3>2, <3>3, <3>4, <3>5, <3>6, <3>7
    <3> QED  BY <3>8, NotRecomputing
  <2> QED  BY <1>4, <2>1, <2>2, <2>3 DEF Serve
<1>5. ASSUME NEW p \in Probe, ChangeFile(p)
      PROVE  VisitOK(run'[g], results', shown'[run'[g].field])
  BY <1>1, <1>5 DEF ChangeFile
<1>6. UNCHANGED vars => UNCHANGED <<results, shown, run>>
  BY DEF vars
<1>7. ~(UNCHANGED vars) => ResultsRest
  OBVIOUS
<1> QED
  BY <1>1, <1>2, <1>3, <1>4, <1>5, <1>6, <1>7, LocalHostAssumption DEF Next

\* When the visit ends, what has been shown is the highest.
LEMMA VisitEnds ==
    ASSUME TypeOK, VisitInv
    PROVE  EndsWithHighest
<1> SUFFICES ASSUME NEW g \in Goroutine, Recomputed(g)
             PROVE  /\ Highest(run[g].field)
                    /\ IsResult(run[g].field) \/ results = NoResults
  BY DEF EndsWithHighest
<1>1. run[g].pc = "Compare" /\ run[g].left = NoResults
  BY DEF Recomputed, At
<1>2. VisitOK(run[g], results, shown[run[g].field])
  BY DEF VisitInv
<1>3. /\ \A p \in Probe : results[p] # NoResult => results[p] <= shown[run[g].field]
      /\ shown[run[g].field] = 0 \/ \E p \in Probe : results[p] = shown[run[g].field]
  BY <1>1, <1>2, TypesOfRun DEF VisitOK, Visited, NoResults
<1>4. shown[run[g].field] = 0 => IsResult(run[g].field) \/ results = NoResults
  <2>1. ASSUME shown[run[g].field] = 0, NEW p \in Probe, results[p] # NoResult
        PROVE  results[p] = 0
    BY <1>3, <2>1, TypesOfRun
  <2> QED  BY <2>1 DEF IsResult, NoResults, TypeOK, Results
<1> QED  BY <1>3, <1>4 DEF Highest, IsResult

\* RecomputeStatus and RecomputeGlobalStatus end with the highest status of the
\* probes, for any probes, levels and order of the map, as long as one of them
\* runs at a time and no result is stored or deleted meanwhile: the lock they
\* lack is all they lack.
THEOREM RecomputedAlone ==
    Spec /\ []OneAtATime /\ [][ResultsRest]_vars => [][EndsWithHighest]_vars
<1>1. Init => VisitInv
  BY NotRecomputing DEF Init, VisitInv, Idle
<1>2. TypeOK /\ VisitInv /\ OneAtATime /\ [Next]_vars /\ [ResultsRest]_vars => VisitInv'
  BY NextVisitInv
<1>3. TypeOK /\ VisitInv => EndsWithHighest
  BY VisitEnds
<1> QED  BY <1>1, <1>2, <1>3, LocalHostTypeCorrect, PTL DEF Spec
=============================================================================
