--------------------------- MODULE WebInterfaceProofs ---------------------------
(***************************************************************************)
(* What a page of the web interface shows, for any number of hosts, groups, *)
(* probes and clients, of requests in flight and of clicks: the rows of     *)
(* what the page is about, and one timer that loads it again.               *)
(*                                                                         *)
(* A row comes from the answer to a request, so the rows on a page are what *)
(* the requests in flight were about when they were sent.  The argument     *)
(* therefore speaks of those: none of another page is left, and an answer   *)
(* about a group has that group's hosts.  The counts of a page follow its   *)
(* rows because a bag of rows counts what its parts count (TallySum).  That *)
(* no row is shown twice is proved of lists that are not loaded again while *)
(* answers are on their way (NoneTwiceWhenPatient): with the code's timer   *)
(* it is false.                                                             *)
(***************************************************************************)
EXTENDS WebInterface, FiniteSetTheorems, FunctionTheorems, TLAPS

-----------------------------------------------------------------------------
(* Bags: the requests in flight and the lists of clients.                  *)

LEMMA SetDomain ==
    ASSUME NEW S
    PROVE  DOMAIN SetToBag(S) = S
BY DEF SetToBag

LEMMA EmptyDomain == DOMAIN EmptyBag = {}
BY DEF EmptyBag, SetToBag

LEMMA OneNotEmpty ==
    ASSUME NEW e
    PROVE  SetToBag({e}) # EmptyBag
<1>1. DOMAIN SetToBag({e}) = {e}
  BY SetDomain
<1> QED  BY <1>1, EmptyDomain

\* What is in a sum or a difference.
LEMMA SumDomain ==
    ASSUME NEW A, NEW B
    PROVE  DOMAIN (A (+) B) = DOMAIN A \cup DOMAIN B
BY DEF (+)

LEMMA DifferenceDomain ==
    ASSUME NEW A, NEW B
    PROVE  DOMAIN (A (-) B) \subseteq DOMAIN A
BY DEF (-)

\* Bags again.
LEMMA BagOfSet ==
    ASSUME NEW S
    PROVE  IsABag(SetToBag(S)) /\ IsABag(EmptyBag)
BY DEF IsABag, SetToBag, EmptyBag

LEMMA BagSum ==
    ASSUME NEW A, NEW B, IsABag(A), IsABag(B)
    PROVE  IsABag(A (+) B)
<1> DEFINE D == DOMAIN A \cup DOMAIN B
<1>1. A \in [DOMAIN A -> {n \in Nat : n > 0}] /\ B \in [DOMAIN B -> {n \in Nat : n > 0}]
  BY DEF IsABag
<1>2. \A e \in D : (IF e \in DOMAIN A THEN A[e] ELSE 0)
                       + (IF e \in DOMAIN B THEN B[e] ELSE 0) \in {n \in Nat : n > 0}
  BY <1>1
<1>3. A (+) B = [e \in D |-> (IF e \in DOMAIN A THEN A[e] ELSE 0)
                               + (IF e \in DOMAIN B THEN B[e] ELSE 0)]
  BY DEF (+)
<1> QED  BY <1>2, <1>3 DEF IsABag

LEMMA BagDifference ==
    ASSUME NEW A, NEW B, IsABag(A), IsABag(B)
    PROVE  IsABag(A (-) B)
<1> DEFINE Rest(e) == A[e] - (IF e \in DOMAIN B THEN B[e] ELSE 0)
           D == {d \in DOMAIN A : Rest(d) > 0}
<1>1. A \in [DOMAIN A -> {n \in Nat : n > 0}] /\ B \in [DOMAIN B -> {n \in Nat : n > 0}]
  BY DEF IsABag
<1>2. \A e \in D : Rest(e) \in {n \in Nat : n > 0}
  BY <1>1
<1>3. A (-) B = [e \in D |-> Rest(e)]
  BY <1>1 DEF (-)
<1> QED  BY <1>2, <1>3 DEF IsABag

\* Requests that are sent, and one that is over.
LEMMA Added ==
    ASSUME NEW A, NEW S, IsABag(A)
    PROVE  IsABag(A (+) SetToBag(S)) /\ DOMAIN (A (+) SetToBag(S)) = DOMAIN A \cup S
<1>1. DOMAIN (A (+) SetToBag(S)) = DOMAIN A \cup DOMAIN SetToBag(S)
  BY SumDomain
<1> QED  BY <1>1, SetDomain, BagSum, BagOfSet

LEMMA Removed ==
    ASSUME NEW A, NEW e, IsABag(A)
    PROVE  /\ IsABag(A (-) SetToBag({e}))
           /\ DOMAIN (A (-) SetToBag({e})) \subseteq DOMAIN A
BY DifferenceDomain, BagDifference, BagOfSet

\* The bags of members of S.
BagsOver(S) == UNION {[C -> Nat \ {0}] : C \in SUBSET S}

LEMMA BagsAreOver ==
    ASSUME NEW S, NEW B
    PROVE  B \in BagsOver(S) <=> IsABag(B) /\ DOMAIN B \subseteq S
BY DEF BagsOver, IsABag

LEMMA OverEmpty ==
    ASSUME NEW S
    PROVE  EmptyBag \in BagsOver(S)
BY BagsAreOver, BagOfSet, EmptyDomain

LEMMA OverSum ==
    ASSUME NEW S, NEW B \in BagsOver(S), NEW C \in SUBSET S
    PROVE  /\ B (+) SetToBag(C) \in BagsOver(S)
           /\ SetToBag(C) \in BagsOver(S)
<1>1. IsABag(B) /\ DOMAIN B \subseteq S
  BY BagsAreOver
<1>2. IsABag(B (+) SetToBag(C)) /\ DOMAIN (B (+) SetToBag(C)) \subseteq S
  BY <1>1, Added
<1>3. IsABag(SetToBag(C)) /\ DOMAIN SetToBag(C) \subseteq S
  BY BagOfSet, SetDomain
<1> QED  BY <1>2, <1>3, BagsAreOver

LEMMA OverDifference ==
    ASSUME NEW S, NEW B \in BagsOver(S), NEW e
    PROVE  B (-) SetToBag({e}) \in BagsOver(S)
<1>1. IsABag(B) /\ DOMAIN B \subseteq S
  BY BagsAreOver
<1>2. IsABag(B (-) SetToBag({e})) /\ DOMAIN (B (-) SetToBag({e})) \subseteq S
  BY <1>1, Removed
<1> QED  BY <1>2, BagsAreOver

-----------------------------------------------------------------------------
(* What a bag of rows counts.                                              *)

LEMMA TallyMember ==
    ASSUME NEW page, NEW B, NEW l, NEW t
    PROVE  t \in Tally(page, B, l) <=>
               \E row \in DOMAIN B : \E k \in 1 .. B[row] : \E x \in Counted(page, row, l) :
                   t = <<row, <<k, x>>>>
BY DEF Tally, BagToSet

LEMMA CountedFinite ==
    ASSUME NEW page \in ListPages, NEW row, NEW l,
           page = "hosts" => IsFiniteSet(DOMAIN row.data)
    PROVE  IsFiniteSet(Counted(page, row, l))
<1>1. CASE page = "hosts"
  BY <1>1, FS_Subset DEF Counted
<1>2. CASE page = "group"
  BY <1>2, FS_Subset, WebAssumption DEF Counted
<1>3. CASE page = "host"
  <2>1. Counted(page, row, l) \in SUBSET {row.name}
    BY <1>3 DEF Counted
  <2> QED  BY <2>1, FS_Singleton, FS_Subset
<1> QED  BY <1>1, <1>2, <1>3 DEF ListPages

LEMMA TallyFinite ==
    ASSUME NEW page, NEW B, NEW l, IsABag(B), IsFiniteSet(DOMAIN B),
           \A row \in DOMAIN B : IsFiniteSet(Counted(page, row, l))
    PROVE  IsFiniteSet(Tally(page, B, l))
<1> DEFINE Part(row) == {row} \X ((1 .. B[row]) \X Counted(page, row, l))
           parts == {Part(row) : row \in DOMAIN B}
           part == [row \in DOMAIN B |-> Part(row)]
<1>1. \A row \in DOMAIN B : IsFiniteSet(Part(row))
  <2> SUFFICES ASSUME NEW row \in DOMAIN B PROVE IsFiniteSet(Part(row))
    OBVIOUS
  <2>1. B[row] \in Nat
    BY DEF IsABag
  <2>2. IsFiniteSet(1 .. B[row])
    BY <2>1, FS_Interval
  <2>3. IsFiniteSet((1 .. B[row]) \X Counted(page, row, l))
    BY <2>2, FS_Product
  <2> QED  BY <2>3, FS_Singleton, FS_Product
<1>2. part \in Surjection(DOMAIN B, parts)
  <2> HIDE DEF Part
  <2> QED  BY DEF Surjection
<1>3. IsFiniteSet(parts)
  BY <1>2, FS_Surjection
<1>4. IsFiniteSet(UNION parts)
  BY <1>1, <1>3, FS_UNION
<1> QED  BY <1>4 DEF Tally, BagToSet

\* Rows that are added count in full, whatever copies of them there are.
LEMMA TallySum ==
    ASSUME NEW page, NEW B, NEW R, NEW l,
           IsABag(B), IsFiniteSet(DOMAIN B), IsFiniteSet(R),
           \A row \in DOMAIN B \cup R : IsFiniteSet(Counted(page, row, l))
    PROVE  Cardinality(Tally(page, B (+) SetToBag(R), l)) =
               Cardinality(Tally(page, B, l)) + Cardinality(Tally(page, SetToBag(R), l))
<1> DEFINE Copies(row) == IF row \in DOMAIN B THEN B[row] ELSE 0
           A == SetToBag(R)
           Sum == B (+) A
           Old == Tally(page, B, l)
           New == Tally(page, A, l)
           All == Tally(page, Sum, l)
           Top == All \ Old
           f == [t \in New |-> <<t[1], <<Copies(t[1]) + 1, t[2][2]>>>>]
<1>1. /\ DOMAIN A = R /\ \A row \in R : A[row] = 1
      /\ IsABag(A)
  BY SetDomain, BagOfSet DEF SetToBag
<1>2. \A row : Copies(row) \in Nat
  BY DEF IsABag
<1>3. /\ DOMAIN Sum = DOMAIN B \cup R
      /\ \A row \in DOMAIN Sum :
             Sum[row] = Copies(row) + IF row \in R THEN 1 ELSE 0
  <2>1. Sum = [row \in DOMAIN B \cup DOMAIN A |->
                  Copies(row) + IF row \in DOMAIN A THEN A[row] ELSE 0]
    BY DEF (+)
  <2> HIDE DEF Copies, A, Sum
  <2> QED  BY <1>1, <2>1
<1>4. IsFiniteSet(Old) /\ IsFiniteSet(New)
  <2> HIDE DEF A
  <2> QED  BY <1>1, TallyFinite
<1> HIDE DEF A, Sum, Copies
<1>5. \A t : t \in New <=>
          \E row \in R : \E x \in Counted(page, row, l) : t = <<row, <<1, x>>>>
  <2>1. 1 .. 1 = {1}
    OBVIOUS
  <2> QED  BY <1>1, <2>1, TallyMember
<1>6. \A t : t \in Old <=>
          \E row \in DOMAIN B : \E k \in 1 .. Copies(row) : \E x \in Counted(page, row, l) :
              t = <<row, <<k, x>>>>
  BY TallyMember DEF Copies
<1>7. \A t : t \in All <=>
          \E row \in DOMAIN B \cup R : \E k \in 1 .. Sum[row] :
              \E x \in Counted(page, row, l) : t = <<row, <<k, x>>>>
  BY <1>3, TallyMember
<1> HIDE DEF Old, New, All
<1>8. Old \subseteq All
  <2> SUFFICES ASSUME NEW t \in Old PROVE t \in All
    OBVIOUS
  <2>1. PICK row \in DOMAIN B : \E k \in 1 .. Copies(row) :
            \E x \in Counted(page, row, l) : t = <<row, <<k, x>>>>
    BY <1>6
  <2>2. 1 .. Copies(row) \subseteq 1 .. Sum[row]
    BY <1>2, <1>3
  <2> QED  BY <1>7, <2>1, <2>2
<1>9. \A t : t \in Top <=>
          \E row \in R : \E x \in Counted(page, row, l) : t = <<row, <<Copies(row) + 1, x>>>>
  <2>1. ASSUME NEW t \in Top
        PROVE  \E row \in R : \E x \in Counted(page, row, l) :
                   t = <<row, <<Copies(row) + 1, x>>>>
    <3>1. PICK row \in DOMAIN B \cup R : \E k \in 1 .. Sum[row] :
              \E x \in Counted(page, row, l) : t = <<row, <<k, x>>>>
      BY <1>7, <2>1
    <3>2. PICK k \in 1 .. Sum[row] : \E x \in Counted(page, row, l) : t = <<row, <<k, x>>>>
      BY <3>1
    <3>3. PICK x \in Counted(page, row, l) : t = <<row, <<k, x>>>>
      BY <3>2
    <3>4. ~(row \in DOMAIN B /\ k \in 1 .. Copies(row))
      BY <1>6, <2>1, <3>3
    <3>5. row \notin DOMAIN B => Copies(row) = 0
      BY DEF Copies
    <3>6. row \in R /\ k = Copies(row) + 1
      BY <1>2, <1>3, <3>2, <3>4, <3>5
    <3> QED  BY <3>3, <3>6
  <2>2. ASSUME NEW row \in R, NEW x \in Counted(page, row, l)
        PROVE  <<row, <<Copies(row) + 1, x>>>> \in Top
    <3>1. Copies(row) + 1 \in 1 .. Sum[row]
      BY <1>2, <1>3
    <3>2. <<row, <<Copies(row) + 1, x>>>> \in All
      BY <1>7, <3>1
    <3>3. <<row, <<Copies(row) + 1, x>>>> \notin Old
      <4>1. Copies(row) + 1 \notin 1 .. Copies(row)
        BY <1>2
      <4> QED  BY <1>6, <4>1
    <3> QED  BY <3>2, <3>3
  <2> QED  BY <2>1, <2>2
<1> HIDE DEF Top
<1>10. f \in Bijection(New, Top)
  <2>1. \A row \in R : \A x \in Counted(page, row, l) :
            /\ <<row, <<1, x>>>> \in New
            /\ f[<<row, <<1, x>>>>] = <<row, <<Copies(row) + 1, x>>>>
    BY <1>5
  <2>2. ASSUME NEW t \in New
        PROVE  f[t] \in Top
    BY <1>5, <1>9, <2>1
  <2>3. ASSUME NEW s \in New, NEW t \in New, f[s] = f[t]
        PROVE  s = t
    <3>1. PICK a \in R : \E x \in Counted(page, a, l) : s = <<a, <<1, x>>>>
      BY <1>5
    <3>2. PICK x \in Counted(page, a, l) : s = <<a, <<1, x>>>>
      BY <3>1
    <3>3. PICK b \in R : \E y \in Counted(page, b, l) : t = <<b, <<1, y>>>>
      BY <1>5
    <3>4. PICK y \in Counted(page, b, l) : t = <<b, <<1, y>>>>
      BY <3>3
    <3>5. f[s] = <<a, <<Copies(a) + 1, x>>>> /\ f[t] = <<b, <<Copies(b) + 1, y>>>>
      BY <2>1, <3>2, <3>4
    <3> QED  BY <2>3, <3>2, <3>4, <3>5
  <2>4. ASSUME NEW u \in Top
        PROVE  \E t \in New : f[t] = u
    <3>1. PICK row \in R : \E x \in Counted(page, row, l) : u = <<row, <<Copies(row) + 1, x>>>>
      BY <1>9
    <3>2. PICK x \in Counted(page, row, l) : u = <<row, <<Copies(row) + 1, x>>>>
      BY <3>1
    <3>3. <<row, <<1, x>>>> \in New /\ f[<<row, <<1, x>>>>] = u
      BY <2>1, <3>2
    <3> HIDE DEF f
    <3> QED  BY <3>3
  <2>5. f \in [New -> Top]
    BY <2>2
  <2> HIDE DEF f
  <2> QED  BY <2>3, <2>4, <2>5, Fun_IsBij
<1>11. ExistsBijection(New, Top)
  BY <1>10 DEF ExistsBijection
<1>12. IsFiniteSet(Top) /\ Cardinality(Top) = Cardinality(New)
  BY <1>4, <1>11, FS_Bijection
<1>13. All = Old \cup Top /\ Old \cap Top = {}
  BY <1>8 DEF Top
<1>14. Cardinality(All) = Cardinality(Old) + Cardinality(Top) - Cardinality({})
  BY <1>4, <1>12, <1>13, FS_Union
<1>15. /\ Cardinality({}) = 0
       /\ Cardinality(Old) \in Nat /\ Cardinality(Top) \in Nat
  BY <1>4, <1>12, FS_EmptySet, FS_CardinalityType
<1>16. Cardinality(All) = Cardinality(Old) + Cardinality(New)
  BY <1>12, <1>14, <1>15
<1> QED  BY <1>16 DEF All, Old, New, Sum, A

-----------------------------------------------------------------------------
(* The invariant.                                                          *)

\* A request in flight: an answer about a group has hosts of that group, one
\* about a group or a host finitely many entries, the lists of the authority
\* have clients.
RequestOK(r) ==
    /\ r = [to |-> r.to, about |-> r.about, answer |-> r.answer]
    /\ r.to = "host" => r.about \in Host
    /\ r.to = "group" /\ r.answer # None =>
           \A h \in DOMAIN r.answer : GroupOf[h] = r.about
    /\ r.to \in {"group", "host"} /\ r.answer # None => IsFiniteSet(DOMAIN r.answer)
    /\ r.to = "authority" /\ r.answer # None =>
           r.answer.waiting \cup r.answer.allowed \subseteq Client

\* It was sent for what the page shows.
SentFor(r, v) == v.page \in {"group", "host"} => r.about = v.name

RequestsInv ==
    /\ IsABag(requests)
    /\ \A r \in DOMAIN requests : RequestOK(r) /\ SentFor(r, view)

\* The scope of each kind of page.  Belong is RowsBelong of one page.
Belong(v) ==
    /\ v.page = "hosts" =>
           \A row \in DOMAIN v.rows : \A h \in DOMAIN row.data : GroupOf[h] = row.name
    /\ v.page \in {"group", "host"} => \A row \in DOMAIN v.rows : row.of = v.name

\* Its rows are finitely many, and those of the list of hosts have finitely
\* many hosts.
RowsOK(v) ==
    /\ IsABag(v.rows) /\ IsFiniteSet(DOMAIN v.rows)
    /\ v.page = "hosts" => \A row \in DOMAIN v.rows : IsFiniteSet(DOMAIN row.data)

\* CountsMatchRows of one page.
CountsOK(v) ==
    /\ DOMAIN v.counts = Level
    /\ \A l \in Level : v.counts[l] = Cardinality(Tally(v.page, v.rows, l))

ListOK(v) ==
    /\ v.page \in ListPages
    /\ v = [page |-> v.page, name |-> v.name, rows |-> v.rows, counts |-> v.counts]
    /\ v.page = "host" => v.name \in Host \cup {None}
    /\ Belong(v) /\ RowsOK(v) /\ CountsOK(v)

LogsOK(v) ==
    /\ v.page = "logs"
    /\ v = [page |-> v.page, menu |-> v.menu, offset |-> v.offset, logs |-> v.logs]
    /\ v.offset \in 0 .. MaxOffset

AuthorityOK(v) ==
    /\ v.page = "authority"
    /\ v = [page |-> v.page, waiting |-> v.waiting, allowed |-> v.allowed]
    /\ {v.waiting, v.allowed} \subseteq BagsOver(Client)

ViewOK(v) == ListOK(v) \/ LogsOK(v) \/ AuthorityOK(v)

\* A click that is not over has requests under way.
Decisions ==
    [what : {"allow", "revoke"}, left : BagsOver(Client) \ {EmptyBag}, loads : BOOLEAN]

ServerOK ==
    /\ hosts \in [Host -> [Probe -> Status] \cup {None}]
    /\ clients \in [Client -> {"unknown", "waiting", "allowed"}]

TimersOK == timers \in Nat /\ {auto, quiet} \subseteq BOOLEAN /\ OneTimer

PageInv ==
    /\ ServerOK
    /\ ViewOK(view)
    /\ RequestsInv
    /\ clicks \in Seq(Decisions)
    /\ TimersOK

-----------------------------------------------------------------------------
(* What the page's operations keep of it.                                  *)

\* A page with no rows counts nothing.
LEMMA EmptyOK ==
    ASSUME NEW v, v.rows = EmptyBag, v.counts = Zero
    PROVE  Belong(v) /\ RowsOK(v) /\ CountsOK(v)
<1>1. IsABag(EmptyBag) /\ DOMAIN EmptyBag = {}
  BY BagOfSet, EmptyDomain
<1>2. Belong(v) /\ RowsOK(v)
  BY <1>1, FS_EmptySet DEF Belong, RowsOK
<1>3. \A l \in Level : Tally(v.page, EmptyBag, l) = {}
  BY <1>1 DEF Tally, BagToSet
<1>4. CountsOK(v)
  BY <1>3, FS_EmptySet DEF CountsOK, Zero
<1> QED  BY <1>2, <1>4

LEMMA OpeningsOK ==
    ASSUME NEW v \in Openings
    PROVE  ViewOK(v)
<1> USE DEF ViewOK
<1>1. ASSUME NEW page \in ListPages, NEW name, v = ListPage(page, name),
             page = "host" => name \in Host \cup {None}
      PROVE  ListOK(v)
  BY <1>1, EmptyOK DEF ListOK, ListPage
<1>2. ASSUME NEW menu, v = LogsPage(menu)  PROVE LogsOK(v)
  BY <1>2, WebAssumption DEF LogsOK, LogsPage
<1>3. ASSUME v = AuthorityPage  PROVE AuthorityOK(v)
  BY <1>3, OverEmpty DEF AuthorityOK, AuthorityPage
<1>4. {"hosts", "group", "host"} = ListPages
  BY DEF ListPages
<1> QED  BY <1>1, <1>2, <1>3, <1>4 DEF Openings

LEMMA ClearedOK ==
    ASSUME NEW v, ViewOK(v)
    PROVE  /\ ViewOK(Cleared(v))
           /\ Cleared(v).page = v.page
           /\ v.page \in ListPages => Cleared(v).name = v.name
<1>1. CASE ListOK(v)
  <2>1. v.page \in ListPages /\ DOMAIN v = {"page", "name", "rows", "counts"}
    BY <1>1 DEF ListOK
  <2>2. Cleared(v) = [page |-> v.page, name |-> v.name, rows |-> EmptyBag, counts |-> Zero]
    <3>1. Cleared(v) = [v EXCEPT !.rows = EmptyBag, !.counts = Zero]
      BY <2>1 DEF Cleared, ListPages
    <3>2. v = [page |-> v.page, name |-> v.name, rows |-> v.rows, counts |-> v.counts]
      BY <1>1 DEF ListOK
    <3> QED  BY <3>1, <3>2
  <2> DEFINE w == Cleared(v)
  <2>3. /\ w = [page |-> w.page, name |-> w.name, rows |-> w.rows, counts |-> w.counts]
        /\ w.page = v.page /\ w.name = v.name /\ w.rows = EmptyBag /\ w.counts = Zero
    BY <2>2
  <2> HIDE DEF w
  <2>4. ListOK(w)
    BY <1>1, <2>1, <2>3, EmptyOK DEF ListOK
  <2> QED  BY <2>3, <2>4 DEF ViewOK, w
<1>2. CASE LogsOK(v)
  <2>1. v.page = "logs" /\ v.page \notin ListPages
    BY <1>2 DEF LogsOK, ListPages
  <2>2. Cleared(v) = v
    BY <2>1 DEF Cleared
  <2> QED  BY <1>2, <2>1, <2>2 DEF ViewOK
<1>3. CASE AuthorityOK(v)
  <2>1. v.page = "authority" /\ v.page \notin ListPages
    BY <1>3 DEF AuthorityOK, ListPages
  <2>2. v = [page |-> v.page, waiting |-> v.waiting, allowed |-> v.allowed]
    BY <1>3 DEF AuthorityOK
  <2>3. Cleared(v) = [v EXCEPT !.waiting = EmptyBag, !.allowed = EmptyBag]
    BY <2>1 DEF Cleared
  <2>4. Cleared(v) = [page |-> v.page, waiting |-> EmptyBag, allowed |-> EmptyBag]
    BY <2>2, <2>3
  <2>5. EmptyBag \in BagsOver(Client)
    BY OverEmpty
  <2> QED  BY <2>1, <2>4, <2>5 DEF ViewOK, AuthorityOK
<1> QED  BY <1>1, <1>2, <1>3 DEF ViewOK

\* Every page asks for what it shows.
LEMMA AsksOK ==
    ASSUME NEW v, NEW r \in Asks(v), ViewOK(v)
    PROVE  RequestOK(r) /\ SentFor(r, v)
<1>1. v.page \in {"hosts", "group", "host", "logs", "authority"}
  BY DEF ViewOK, ListOK, LogsOK, AuthorityOK, ListPages
<1>2. PICK to, about :
          /\ r = Get(to, about)
          /\ v.page \in {"group", "host"} => about = v.name
          /\ to = "host" => v.page = "host" /\ v.name # None
  BY <1>1 DEF Asks
<1>3. v.page = "host" => v.name \in Host \cup {None}
  BY DEF ViewOK, ListOK, LogsOK, AuthorityOK
<1> QED  BY <1>2, <1>3 DEF RequestOK, SentFor, Get

\* load() adds requests for what the page shows.
LEMMA LoadOK ==
    ASSUME NEW v, ViewOK(v), Load(v), IsABag(requests),
           \A r \in DOMAIN requests : RequestOK(r) /\ SentFor(r, v)
    PROVE  ViewOK(view') /\ RequestsInv'
<1>1. view' = Cleared(v) /\ requests' = requests (+) SetToBag(Asks(v))
  BY DEF Load
<1>2. \A r : SentFor(r, v) => SentFor(r, view')
  BY <1>1, ClearedOK DEF SentFor, ListPages
<1>3. IsABag(requests') /\ DOMAIN requests' = DOMAIN requests \cup Asks(v)
  BY <1>1, Added
<1>5. \A r \in DOMAIN requests' : RequestOK(r) /\ SentFor(r, v)
  BY <1>3, AsksOK
<1> QED  BY <1>1, <1>2, <1>3, <1>5, ClearedOK DEF RequestsInv

LEMMA LeftOK ==
    ASSUME clicks \in Seq(Decisions)
    PROVE  Left(clicks) \in Seq(Decisions)
<1>1. \A i \in 1 .. Len(clicks) : [clicks[i] EXCEPT !.loads = FALSE] \in Decisions
  <2>1. \A i \in 1 .. Len(clicks) : clicks[i] \in Decisions
    OBVIOUS
  <2> QED  BY <2>1 DEF Decisions
<1>2. Left(clicks) = [i \in 1 .. Len(clicks) |-> [clicks[i] EXCEPT !.loads = FALSE]]
  BY DEF Left
<1> QED  BY <1>1, <1>2

LEMMA SetIntervalOK ==
    ASSUME TimersOK, NEW on \in BOOLEAN, SetInterval(on), UNCHANGED quiet
    PROVE  TimersOK'
BY DEF TimersOK, OneTimer, SetInterval, Cancelled

\* A new page has none of the old one's requests.
LEMMA NewPageOK ==
    ASSUME NEW v \in Openings, view' = v,
           requests' = InFlight(requests) (+) SetToBag(Asks(v))
    PROVE  ViewOK(view') /\ RequestsInv'
<1>1. ViewOK(v)
  BY OpeningsOK
<1>2. IsABag(requests') /\ DOMAIN requests' = DOMAIN EmptyBag \cup Asks(v)
  BY BagOfSet, Added DEF InFlight
<1> QED  BY <1>1, <1>2, EmptyDomain, AsksOK DEF RequestsInv

-----------------------------------------------------------------------------
LEMMA InitOK == Init => PageInv
<1> SUFFICES ASSUME Init PROVE PageInv
  OBVIOUS
<1>1. ServerOK
  BY DEF Init, ServerOK
<1>2. ViewOK(view)
  BY OpeningsOK DEF Init
<1>3. RequestsInv
  BY <1>2, BagOfSet, SetDomain, AsksOK DEF Init, RequestsInv
<1>4. clicks \in Seq(Decisions)
  BY DEF Init
<1>5. TimersOK
  BY DEF Init, TimersOK, OneTimer
<1> QED  BY <1>1, <1>2, <1>3, <1>4, <1>5 DEF PageInv

\* The user's steps.
LEMMA UserOK ==
    ASSUME PageInv, User, UNCHANGED quiet
    PROVE  PageInv'
<1> USE DEF PageInv
<1>r. ASSUME NEW v, view.page = "logs", LogsOK(v), Load(v)
      PROVE  ViewOK(view') /\ RequestsInv'
  BY <1>r, LoadOK DEF ViewOK, LogsOK, SentFor, RequestsInv
<1>l. view.page = "logs" => LogsOK(view)
  BY DEF ViewOK, ListOK, AuthorityOK, ListPages
<1>a. view.page = "authority" => AuthorityOK(view)
  BY DEF ViewOK, ListOK, LogsOK, ListPages
<1>1. CASE Navigate
  <2> PICK v \in Openings : Open(v)
    BY <1>1 DEF Navigate
  <2>1. ServerOK'
    BY DEF Open, ServerOK
  <2>2. ViewOK(view') /\ RequestsInv'
    BY NewPageOK DEF Open
  <2>3. clicks' \in Seq(Decisions)
    BY LeftOK DEF Open
  <2>4. TimersOK'
    BY SetIntervalOK DEF Open
  <2> QED  BY <2>1, <2>2, <2>3, <2>4
<1>2. CASE ChooseInterval
  BY <1>2, SetIntervalOK DEF ChooseInterval, ServerOK, RequestsInv
<1>3. CASE ChangeFilter
  <2> PICK menu : Load([view EXCEPT !.menu = menu])
    BY <1>3 DEF ChangeFilter
  <2>1. LogsOK([view EXCEPT !.menu = menu])
    BY <1>3, <1>l DEF ChangeFilter, LogsOK
  <2> QED  BY <1>3, <2>1, <1>r DEF ChangeFilter, ServerOK, TimersOK, OneTimer
<1>4. CASE Turn
  <2>1. LogsOK(view)
    BY <1>4, <1>l DEF Turn
  <2>2. PICK new \in 0 .. MaxOffset : Load([view EXCEPT !.offset = new])
    <3>1. view.offset \in 0 .. MaxOffset /\ MaxOffset \in Nat
      BY <2>1, WebAssumption DEF LogsOK
    <3>2. CASE MayTurnBack /\ Load([view EXCEPT !.offset = @ - 1])
      <4>1. view.offset - 1 \in 0 .. MaxOffset
        BY <3>1, <3>2 DEF MayTurnBack
      <4> QED  BY <3>2, <4>1
    <3>3. CASE view.offset < MaxOffset /\ Load([view EXCEPT !.offset = @ + 1])
      <4>1. view.offset + 1 \in 0 .. MaxOffset
        BY <3>1, <3>3
      <4> QED  BY <3>3, <4>1
    <3> QED  BY <1>4, <3>2, <3>3 DEF Turn
  <2>3. LogsOK([view EXCEPT !.offset = new])
    BY <2>1 DEF LogsOK
  <2> QED  BY <1>4, <2>2, <2>3, <1>r DEF Turn, ServerOK, TimersOK, OneTimer
<1>5. CASE Decide
  <2>1. AuthorityOK(view)
    BY <1>5, <1>a DEF Decide
  <2>2. ASSUME NEW what \in {"allow", "revoke"}, NEW B \in BagsOver(Client), B # EmptyBag,
               Click(what, B)
        PROVE  clicks' \in Seq(Decisions)
    BY <2>2 DEF Click, Decisions
  <2>3. \A c \in DOMAIN view.waiting :
            SetToBag({c}) \in BagsOver(Client) /\ SetToBag({c}) # EmptyBag
    <3>1. \A c \in DOMAIN view.waiting : {c} \in SUBSET Client
      BY <2>1, BagsAreOver DEF AuthorityOK
    <3> QED  BY <3>1, OverEmpty, OverSum, OneNotEmpty
  <2>4. \/ clicks' \in Seq(Decisions) /\ UNCHANGED <<view, requests>>
        \/ Load(view) /\ UNCHANGED clicks
    <3>1. CASE \E c \in BagToSet(view.waiting), what \in {"allow", "revoke"} :
                   Click(what, SetToBag({c})) /\ UNCHANGED <<view, requests>>
      BY <3>1, <2>2, <2>3 DEF BagToSet
    <3>2. CASE /\ view.waiting # EmptyBag
               /\ Click("allow", view.waiting) /\ UNCHANGED <<view, requests>>
      BY <3>2, <2>1, <2>2 DEF AuthorityOK
    <3>3. CASE /\ view.allowed # EmptyBag
               /\ Click("revoke", view.allowed) /\ UNCHANGED <<view, requests>>
      BY <3>3, <2>1, <2>2 DEF AuthorityOK
    <3> QED  BY <1>5, <3>1, <3>2, <3>3 DEF Decide
  <2>5. ViewOK(view') /\ RequestsInv'
    BY <2>4, LoadOK DEF RequestsInv
  <2> QED  BY <1>5, <2>4, <2>5 DEF Decide, ServerOK, TimersOK, OneTimer
<1>6. CASE RevokeAllowed
  <2>1. AuthorityOK(view)
    BY <1>6, <1>a DEF RevokeAllowed
  <2>2. PICK c \in DOMAIN view.allowed, h \in Host :
           /\ view' = ListPage("host", h)
           /\ requests' = InFlight(requests) (+) SetToBag(Asks(view'))
           /\ clicks' = Append(Left(clicks), [what |-> "revoke", left |-> SetToBag({c}),
                                              loads |-> FALSE])
    BY <1>6 DEF RevokeAllowed, BagToSet
  <2>3. ViewOK(view') /\ RequestsInv'
    BY <2>2, NewPageOK DEF Openings
  <2>4. SetToBag({c}) \in BagsOver(Client) /\ SetToBag({c}) # EmptyBag
    <3>1. {c} \in SUBSET Client
      BY <2>1, BagsAreOver DEF AuthorityOK
    <3> QED  BY <3>1, OverEmpty, OverSum, OneNotEmpty
  <2>5. [what |-> "revoke", left |-> SetToBag({c}), loads |-> FALSE] \in Decisions
    BY <2>4 DEF Decisions
  <2>6. clicks' \in Seq(Decisions)
    BY <2>2, <2>5, LeftOK
  <2> QED  BY <1>6, <2>3, <2>6, SetIntervalOK DEF RevokeAllowed, ServerOK
<1> QED  BY <1>1, <1>2, <1>3, <1>4, <1>5, <1>6 DEF User

\* One request of a click is over: the click too, or it still has others.
LEMMA OverOK ==
    ASSUME PageInv, NEW i \in DOMAIN clicks, NEW c \in DOMAIN clicks[i].left,
           NEW failed \in BOOLEAN, Over(i, c, failed)
    PROVE  ViewOK(view') /\ RequestsInv' /\ clicks' \in Seq(Decisions)
<1> DEFINE rest == clicks[i].left (-) SetToBag({c})
           click == [clicks[i] EXCEPT !.left = @ (-) SetToBag({c}), !.loads = @ /\ ~failed]
<1>1. clicks \in Seq(Decisions) /\ clicks[i] \in Decisions /\ i \in 1 .. Len(clicks)
  BY DEF PageInv
<1>2. clicks[i].left \in BagsOver(Client)
  BY <1>1 DEF Decisions
<1>3. rest \in BagsOver(Client)
  BY <1>2, OverDifference
<1>4. click.left = rest
  BY <1>1 DEF Decisions
<1>5. click.left # EmptyBag => click \in Decisions
  <2> HIDE DEF rest
  <2>1. click = [clicks[i] EXCEPT !.left = rest, !.loads = @ /\ ~failed]
    BY DEF rest
  <2> QED  BY <1>1, <1>3, <1>4, <2>1 DEF Decisions
<1>6. RemoveAt(clicks, i) \in Seq(Decisions)
  BY <1>1 DEF RemoveAt
<1>7. clicks' \in Seq(Decisions)
  <2>1. clicks' = IF click.left = EmptyBag THEN RemoveAt(clicks, i)
                                           ELSE [clicks EXCEPT ![i] = click]
    BY DEF Over
  <2> HIDE DEF click
  <2> QED  BY <1>1, <1>5, <1>6, <2>1
<1>8. Load(view) \/ UNCHANGED <<view, requests>>
  BY DEF Over
<1> QED  BY <1>7, <1>8, LoadOK DEF PageInv, RequestsInv

\* The server's steps, and what happens around it.
LEMMA ServerStepOK ==
    ASSUME PageInv,
           Answer \/ Refuse \/ Lose \/ Handle \/ LoseClick \/ HostChanges \/ ClientChanges,
           UNCHANGED quiet
    PROVE  PageInv'
<1> USE DEF PageInv
<1>1. CASE Answer
  <2>1. PICK r \in Pending : \E a \in Answers(r) :
            requests' = requests (-) SetToBag({r}) (+) SetToBag({[r EXCEPT !.answer = a]})
    BY <1>1 DEF Answer
  <2>2. PICK a \in Answers(r) :
            requests' = requests (-) SetToBag({r}) (+) SetToBag({[r EXCEPT !.answer = a]})
    BY <2>1
  <2>3. r \in DOMAIN requests /\ RequestOK(r) /\ SentFor(r, view)
    BY DEF Pending, BagToSet, RequestsInv
  <2> DEFINE s == [r EXCEPT !.answer = a]
  <2>4. s = [to |-> r.to, about |-> r.about, answer |-> a]
    BY <2>3 DEF RequestOK
  <2>5. r.to = "group" => \A h \in DOMAIN a : GroupOf[h] = r.about
    BY DEF Answers, InGroup
  <2>6. r.to = "authority" => a.waiting \cup a.allowed \subseteq Client
    BY DEF Answers, In
  <2>7. r.to \in {"group", "host"} => IsFiniteSet(DOMAIN a)
    <3>1. CASE r.to = "group"
      <4>1. DOMAIN a \in SUBSET Host
        BY <3>1 DEF Answers, InGroup, Present
      <4> QED  BY <4>1, FS_Subset, WebAssumption
    <3>2. CASE r.to = "host"
      <4>1. a = hosts[r.about] /\ a # None
        BY <3>2 DEF Answers
      <4>2. r.about \in Host
        BY <2>3, <3>2 DEF RequestOK
      <4>3. DOMAIN a = Probe
        BY <4>1, <4>2 DEF ServerOK
      <4> QED  BY <4>3, WebAssumption
    <3> QED  BY <3>1, <3>2
  <2>8. RequestOK(s) /\ SentFor(s, view)
    <3> HIDE DEF s
    <3> QED  BY <2>3, <2>4, <2>5, <2>6, <2>7 DEF RequestOK, SentFor
  <2>9. requests' = (requests (-) SetToBag({r})) (+) SetToBag({s})
    BY <2>2
  <2>10. IsABag(requests') /\ DOMAIN requests' \subseteq DOMAIN requests \cup {s}
    <3> HIDE DEF s
    <3>1. /\ IsABag(requests (-) SetToBag({r}))
          /\ DOMAIN (requests (-) SetToBag({r})) \subseteq DOMAIN requests
      BY Removed DEF RequestsInv
    <3> QED  BY <2>9, <3>1, Added
  <2>11. UNCHANGED <<hosts, clients, view, clicks, timers, auto>>
    BY <1>1 DEF Answer
  <2> HIDE DEF s
  <2> QED  BY <2>8, <2>10, <2>11 DEF RequestsInv, ServerOK, TimersOK, OneTimer
<1>2. CASE Refuse \/ Lose
  <2>1. PICK r : requests' = requests (-) SetToBag({r})
    BY <1>2 DEF Refuse, Lose
  <2>2. IsABag(requests') /\ DOMAIN requests' \subseteq DOMAIN requests
    BY <2>1, Removed DEF RequestsInv
  <2>3. UNCHANGED <<hosts, clients, view, clicks, timers, auto>>
    BY <1>2 DEF Refuse, Lose
  <2> QED  BY <2>2, <2>3 DEF RequestsInv, ServerOK, TimersOK, OneTimer
<1>3. CASE Handle
  <2>0. PICK i \in DOMAIN clicks : \E c \in BagToSet(clicks[i].left) :
            /\ clients' = [clients EXCEPT ![c] = Decided(clicks[i].what, c)]
            /\ Over(i, c, Fails(clicks[i].what, c))
    BY <1>3 DEF Handle
  <2>1. PICK c \in DOMAIN clicks[i].left :
            /\ clients' = [clients EXCEPT ![c] = Decided(clicks[i].what, c)]
            /\ Over(i, c, Fails(clicks[i].what, c))
    BY <2>0 DEF BagToSet
  <2>2. Fails(clicks[i].what, c) \in BOOLEAN
    BY DEF Fails
  <2>3. ViewOK(view') /\ RequestsInv' /\ clicks' \in Seq(Decisions)
    BY <2>1, <2>2, OverOK
  <2>4. ServerOK'
    BY <1>3, <2>1 DEF Handle, ServerOK, Decided
  <2> QED  BY <1>3, <2>3, <2>4 DEF Handle, TimersOK, OneTimer
<1>4. CASE LoseClick
  <2>0. PICK i \in DOMAIN clicks : \E c \in BagToSet(clicks[i].left) : Over(i, c, TRUE)
    BY <1>4 DEF LoseClick
  <2>1. PICK c \in DOMAIN clicks[i].left : Over(i, c, TRUE)
    BY <2>0 DEF BagToSet
  <2>2. ViewOK(view') /\ RequestsInv' /\ clicks' \in Seq(Decisions)
    BY <2>1, OverOK
  <2> QED  BY <1>4, <2>2 DEF LoseClick, ServerOK, TimersOK, OneTimer
<1>5. CASE HostChanges
  BY <1>5 DEF HostChanges, ServerOK, RequestsInv, TimersOK, OneTimer
<1>6. CASE ClientChanges
  BY <1>6 DEF ClientChanges, ServerOK, RequestsInv, TimersOK, OneTimer
<1> QED  BY <1>1, <1>2, <1>3, <1>4, <1>5, <1>6

\* An answer arrives at the page whose request it answers.
LEMMA RowsArriveOK ==
    ASSUME PageInv, NEW r \in Arrived, RowsArrive(r)
    PROVE  ViewOK(view') /\ RequestsInv'
<1>1. RequestOK(r) /\ SentFor(r, view) /\ r.answer # None /\ r \in DOMAIN requests
  BY DEF PageInv, RequestsInv, Arrived, BagToSet
<1>2. /\ view.page \in ListPages
      /\ view.page = "hosts" => r.to = "group"
  BY DEF RowsArrive, ListPages
<1>3. ListOK(view)
  BY <1>2 DEF PageInv, ViewOK, LogsOK, AuthorityOK, ListPages
<1> DEFINE new == SetToBag(Rows(r))
           more == [l \in Level |->
                       view.counts[l] + Cardinality(Tally(view.page, new, l))]
<1>4. view' = [view EXCEPT !.rows = @ (+) new, !.counts = more]
  BY DEF RowsArrive
<1> HIDE DEF new, more
<1>5. /\ view'.page = view.page /\ view'.name = view.name
      /\ view'.rows = view.rows (+) SetToBag(Rows(r)) /\ view'.counts = more
      /\ view' = [page |-> view'.page, name |-> view'.name, rows |-> view'.rows,
                  counts |-> view'.counts]
  BY <1>3, <1>4 DEF ListOK, new
<1>6. DOMAIN view'.rows = DOMAIN view.rows \cup Rows(r)
  <2>1. DOMAIN view'.rows = DOMAIN view.rows \cup DOMAIN SetToBag(Rows(r))
    BY <1>5, SumDomain
  <2> QED  BY <2>1, SetDomain
<1>7. /\ view.page = "hosts" =>
             \A row \in Rows(r) : \A h \in DOMAIN row.data : GroupOf[h] = row.name
      /\ view.page \in {"group", "host"} => \A row \in Rows(r) : row.of = view.name
  BY <1>1, <1>2 DEF Rows, RequestOK, SentFor
<1>8. Belong(view')
  BY <1>3, <1>5, <1>6, <1>7 DEF Belong, ListOK
<1>9. IsFiniteSet(DOMAIN r.answer)
  BY <1>1 DEF RowsArrive, RequestOK
<1>10. IsFiniteSet(Rows(r))
  <2>1. CASE view.page = "hosts"
    BY <2>1, FS_Singleton DEF Rows
  <2>2. CASE view.page # "hosts"
    <3> DEFINE row == [n \in DOMAIN r.answer |->
                          [of |-> r.about, name |-> n, data |-> r.answer[n]]]
    <3>1. Rows(r) = {[of |-> r.about, name |-> n, data |-> r.answer[n]] : n \in DOMAIN r.answer}
      BY <2>2 DEF Rows
    <3>2. row \in Surjection(DOMAIN r.answer, Rows(r))
      BY <3>1 DEF Surjection
    <3> QED  BY <1>9, <3>2, FS_Surjection
  <2> QED  BY <2>1, <2>2
<1>11. view.page = "hosts" => \A row \in Rows(r) : IsFiniteSet(DOMAIN row.data)
  BY <1>9 DEF Rows
<1>12. RowsOK(view')
  <2>1. IsABag(view'.rows)
    BY <1>3, <1>5, Added DEF ListOK, RowsOK
  <2>2. IsFiniteSet(DOMAIN view'.rows)
    BY <1>3, <1>6, <1>10, FS_Union DEF ListOK, RowsOK
  <2> QED  BY <1>3, <1>5, <1>6, <1>11, <2>1, <2>2 DEF ListOK, RowsOK
<1>13. CountsOK(view')
  <2> SUFFICES ASSUME NEW l \in Level
               PROVE  more[l] = Cardinality(Tally(view.page, view'.rows, l))
    BY <1>5 DEF CountsOK, more
  <2>1. \A row \in DOMAIN view.rows \cup Rows(r) : IsFiniteSet(Counted(view.page, row, l))
    BY <1>2, <1>3, <1>11, CountedFinite DEF ListOK, RowsOK
  <2>2. Cardinality(Tally(view.page, view'.rows, l)) =
            Cardinality(Tally(view.page, view.rows, l)) + Cardinality(Tally(view.page, new, l))
    BY <1>3, <1>5, <1>10, <2>1, TallySum DEF ListOK, RowsOK, new
  <2> QED  BY <1>3, <2>2 DEF ListOK, CountsOK, more
<1>14. ViewOK(view')
  BY <1>2, <1>3, <1>5, <1>8, <1>12, <1>13 DEF ViewOK, ListOK
<1>15. requests' = requests (-) SetToBag({r})
  BY DEF RowsArrive
<1>16. IsABag(requests') /\ DOMAIN requests' \subseteq DOMAIN requests
  BY <1>15, Removed DEF PageInv, RequestsInv
<1> QED  BY <1>5, <1>14, <1>16 DEF PageInv, RequestsInv, SentFor

LEMMA ArriveOK ==
    ASSUME PageInv, Arrive, UNCHANGED quiet
    PROVE  PageInv'
<1>1. PICK r \in Arrived :
          GroupsArrive(r) \/ RowsArrive(r) \/ LogsArrive(r) \/ ClientsArrive(r)
  BY DEF Arrive
<1>2. RequestOK(r) /\ r.answer # None /\ r \in DOMAIN requests
  BY DEF PageInv, RequestsInv, Arrived, BagToSet
<1>3. /\ IsABag(requests (-) SetToBag({r}))
      /\ DOMAIN (requests (-) SetToBag({r})) \subseteq DOMAIN requests
  BY Removed DEF PageInv, RequestsInv
<1>4. ViewOK(view') /\ RequestsInv'
  <2>1. CASE GroupsArrive(r)
    <3> DEFINE more == {Get("group", g) : g \in r.answer}
    <3>1. view.page = "hosts" /\ view' = view
      BY <2>1 DEF GroupsArrive
    <3>2. requests' = requests (-) SetToBag({r}) (+) SetToBag(more)
      BY <2>1 DEF GroupsArrive
    <3>3. \A s \in more : RequestOK(s)
      BY DEF RequestOK, Get
    <3> HIDE DEF more
    <3>4. IsABag(requests') /\ DOMAIN requests' \subseteq DOMAIN requests \cup more
      BY <1>3, <3>2, Added
    <3> QED  BY <3>1, <3>3, <3>4 DEF PageInv, RequestsInv, SentFor
  <2>2. CASE RowsArrive(r)
    BY <2>2, RowsArriveOK
  <2>3. CASE LogsArrive(r)
    <3>1. LogsOK(view)
      BY <2>3 DEF LogsArrive, PageInv, ViewOK, ListOK, AuthorityOK, ListPages
    <3>2. LogsOK(view')
      BY <2>3, <3>1 DEF LogsArrive, LogsOK
    <3> QED  BY <2>3, <1>3, <3>2 DEF LogsArrive, PageInv, RequestsInv, ViewOK, LogsOK,
                                           SentFor
  <2>4. CASE ClientsArrive(r)
    <3> DEFINE waiting == view.waiting (+) SetToBag(r.answer.waiting)
               allowed == view.allowed (+) SetToBag(r.answer.allowed)
    <3>1. AuthorityOK(view)
      BY <2>4 DEF ClientsArrive, PageInv, ViewOK, ListOK, LogsOK, ListPages
    <3>2. r.answer.waiting \subseteq Client /\ r.answer.allowed \subseteq Client
      BY <1>2, <2>4 DEF RequestOK, ClientsArrive
    <3>3. waiting \in BagsOver(Client) /\ allowed \in BagsOver(Client)
      BY <3>1, <3>2, OverSum DEF AuthorityOK
    <3>4. view' = [view EXCEPT !.waiting = waiting, !.allowed = allowed]
      BY <2>4, <3>1 DEF ClientsArrive, AuthorityOK
    <3> HIDE DEF waiting, allowed
    <3>5. AuthorityOK(view')
      BY <3>1, <3>3, <3>4 DEF AuthorityOK
    <3> QED  BY <2>4, <1>3, <3>5 DEF ClientsArrive, PageInv, RequestsInv, ViewOK,
                                     AuthorityOK, SentFor
  <2> QED  BY <1>1, <2>1, <2>2, <2>3, <2>4
<1> QED  BY <1>4 DEF Arrive, PageInv, ServerOK, TimersOK, OneTimer

LEMMA NextOK == PageInv /\ [Next]_vars => PageInv'
<1> SUFFICES ASSUME PageInv, [Next]_vars PROVE PageInv'
  OBVIOUS
<1>1. CASE User /\ UNCHANGED quiet
  BY <1>1, UserOK
<1>2. CASE Refresh /\ UNCHANGED quiet
  <2>1. ViewOK(view') /\ RequestsInv'
    BY <1>2, LoadOK DEF Refresh, PageInv, RequestsInv
  <2> QED  BY <1>2, <2>1 DEF Refresh, PageInv, ServerOK, TimersOK, OneTimer
<1>3. CASE /\ \/ Answer \/ Refuse \/ Lose \/ Handle \/ LoseClick
              \/ HostChanges \/ ClientChanges
           /\ UNCHANGED quiet
  BY <1>3, ServerStepOK
<1>4. CASE Arrive /\ UNCHANGED quiet
  BY <1>4, ArriveOK
<1>5. CASE (quiet' \in {TRUE, quiet}) /\ UNCHANGED <<hosts, clients, tab>>
  BY <1>5 DEF PageInv, ServerOK, RequestsInv, TimersOK, OneTimer, tab
<1> QED  BY <1>1, <1>2, <1>3, <1>4, <1>5 DEF Next, Disturbance, Work, vars

\* The invariant holds throughout.
THEOREM PagesSound == Spec => []PageInv
BY InitOK, NextOK, PTL DEF Spec

-----------------------------------------------------------------------------
\* The type invariant.
THEOREM WebTypeCorrect == Spec => []TypeOK
<1>1. PageInv => TypeOK
  <2> SUFFICES ASSUME PageInv PROVE TypeOK
    OBVIOUS
  <2>1. /\ view.page \in ListPages \cup {"logs", "authority"}
        /\ view.page = "logs" => view.offset \in 0 .. MaxOffset
    BY DEF PageInv, ViewOK, ListOK, LogsOK, AuthorityOK, ListPages
  <2>2. \A i \in DOMAIN clicks : clicks[i].left # EmptyBag
    <3>1. \A i \in DOMAIN clicks : clicks[i] \in Decisions
      BY DEF PageInv
    <3> QED  BY <3>1 DEF Decisions
  <2> QED  BY <2>1, <2>2 DEF TypeOK, PageInv, ServerOK, RequestsInv, TimersOK
<1> QED  BY <1>1, PagesSound, PTL

\* Whatever the user goes to while answers are on their way, the rows of a
\* page are of its group or host, and in the list of hosts every host stands
\* under its own group: load() and the route change of app.js keep the
\* requests of one page apart from those of the next.
THEOREM RowsStayTheirOwn == Spec => []RowsBelong
<1>1. PageInv => RowsBelong
  BY DEF PageInv, ViewOK, ListOK, LogsOK, AuthorityOK, Belong, RowsBelong, ListPages,
         BagToSet
<1> QED  BY <1>1, PagesSound, PTL

\* However many loads overlap and whatever the hosts do in between, the numbers
\* at the top of a page are those of the rows it shows, for any number of hosts,
\* probes and copies of a row: the handlers of app.js count what they add, and
\* load() empties both.
THEOREM CountsStayTrue == Spec => []CountsMatchRows
<1>1. PageInv => CountsMatchRows
  BY DEF PageInv, ViewOK, ListOK, LogsOK, AuthorityOK, CountsOK, CountsMatchRows, ListPages
<1> QED  BY <1>1, PagesSound, PTL

\* $refresh keeps one pending timeout while an interval is chosen and none
\* otherwise, however often pages are changed and intervals chosen.
THEOREM RefreshIsSingle == Spec => []OneTimer
<1>1. PageInv => OneTimer
  BY DEF PageInv, TimersOK
<1> QED  BY <1>1, PagesSound, PTL

-----------------------------------------------------------------------------
(* Rows twice.  A page may show a row twice: a load that overlaps another   *)
(* is the way to make it, and there is no other.                            *)

\* The timer of a list fires when the answers of its last load have come.
Patient == view.page \in ListPages /\ Refresh => requests = EmptyBag

Single(rows) ==
    \A row \in DOMAIN rows :
        rows[row] = 1 /\ \A other \in DOMAIN rows : other.name = row.name => other = row

\* No group, host or probe is shown twice, nor with two answers.
NoneTwice == view.page \in ListPages => Single(view.rows)

\* What is asked for is asked for once, and is not shown yet: each group on the
\* list of hosts, and the one answer of the other pages and for the groups.
AskedOnce(v, sent) ==
    /\ \A r \in DOMAIN sent : sent[r] = 1
    /\ \A r \in DOMAIN sent :
          r.to = "groups" \/ v.page # "hosts" => DOMAIN sent = {r} /\ v.rows = EmptyBag
    /\ \A r \in DOMAIN sent : \A s \in DOMAIN sent : s.about = r.about => s = r
    /\ \A r \in DOMAIN sent :
          r.to = "group" => \A row \in DOMAIN v.rows : row.name # r.about

Once(v, sent) == Single(v.rows) /\ AskedOnce(v, sent)

\* Only the page of the authority is loaded by its clicks.
NoClickLoads(decisions) == \A i \in DOMAIN decisions : decisions[i].loads = FALSE

OnceInv ==
    /\ view.page \in ListPages => Once(view, requests)
    /\ view.page # "authority" => NoClickLoads(clicks)

\* A request that is over, and requests that are sent, when none is in flight
\* twice.
LEMMA RemovedOnce ==
    ASSUME NEW A, IsABag(A), NEW e \in DOMAIN A, A[e] = 1
    PROVE  /\ DOMAIN (A (-) SetToBag({e})) = DOMAIN A \ {e}
           /\ \A d \in DOMAIN A \ {e} : (A (-) SetToBag({e}))[d] = A[d]
<1> DEFINE B == SetToBag({e})
           Rest(d) == A[d] - (IF d \in DOMAIN B THEN B[d] ELSE 0)
           D == {d \in DOMAIN A : Rest(d) > 0}
<1>1. A \in [DOMAIN A -> {n \in Nat : n > 0}] /\ B = [d \in {e} |-> 1]
  BY DEF IsABag, SetToBag
<1>2. A (-) B = [d \in D |-> Rest(d)]
  BY <1>1 DEF (-)
<1>3. Rest(e) = 0 /\ \A d \in DOMAIN A \ {e} : Rest(d) = A[d] /\ Rest(d) > 0
  BY <1>1
<1>4. D = DOMAIN A \ {e}
  BY <1>3
<1> QED  BY <1>2, <1>3, <1>4

LEMMA AddedOnce ==
    ASSUME NEW A, NEW S, IsABag(A)
    PROVE  \A d \in DOMAIN (A (+) SetToBag(S)) :
               (A (+) SetToBag(S))[d] =
                   (IF d \in DOMAIN A THEN A[d] ELSE 0) + (IF d \in S THEN 1 ELSE 0)
<1> DEFINE B == SetToBag(S)
<1>1. DOMAIN B = S /\ \A d \in S : B[d] = 1
  BY DEF SetToBag
<1>2. A (+) B = [d \in DOMAIN A \cup DOMAIN B |->
                    (IF d \in DOMAIN A THEN A[d] ELSE 0) + (IF d \in DOMAIN B THEN B[d] ELSE 0)]
  BY DEF (+)
<1> HIDE DEF B
<1>3. \A d \in DOMAIN (A (+) B) :
          (A (+) B)[d] = (IF d \in DOMAIN A THEN A[d] ELSE 0) + (IF d \in S THEN 1 ELSE 0)
  BY <1>1, <1>2
<1> QED  BY <1>3 DEF B

\* Neither makes two of anything.
LEMMA StillOnce ==
    ASSUME NEW A, NEW S, IsABag(A), \A d \in DOMAIN A : A[d] = 1, DOMAIN A \cap S = {}
    PROVE  /\ DOMAIN (A (+) SetToBag(S)) = DOMAIN A \cup S
           /\ \A d \in DOMAIN (A (+) SetToBag(S)) : (A (+) SetToBag(S))[d] = 1
<1> DEFINE sum == A (+) SetToBag(S)
<1>1. DOMAIN sum = DOMAIN A \cup S
  BY Added
<1>2. \A d \in DOMAIN sum :
          sum[d] = (IF d \in DOMAIN A THEN A[d] ELSE 0) + (IF d \in S THEN 1 ELSE 0)
  BY AddedOnce
<1> HIDE DEF sum
<1>3. \A d \in DOMAIN sum : sum[d] = 1
  <2> SUFFICES ASSUME NEW d \in DOMAIN sum PROVE sum[d] = 1
    OBVIOUS
  <2>1. CASE d \in DOMAIN A
    BY <1>2, <2>1
  <2>2. CASE d \notin DOMAIN A
    BY <1>1, <1>2, <2>2
  <2> QED  BY <2>1, <2>2
<1> QED  BY <1>1, <1>3 DEF sum

LEMMA RestOnce ==
    ASSUME NEW A, IsABag(A), \A d \in DOMAIN A : A[d] = 1, NEW e \in DOMAIN A
    PROVE  /\ IsABag(A (-) SetToBag({e}))
           /\ DOMAIN (A (-) SetToBag({e})) = DOMAIN A \ {e}
           /\ \A d \in DOMAIN (A (-) SetToBag({e})) : (A (-) SetToBag({e}))[d] = 1
<1> DEFINE rest == A (-) SetToBag({e})
<1>1. DOMAIN rest = DOMAIN A \ {e} /\ \A d \in DOMAIN A \ {e} : rest[d] = A[d]
  BY RemovedOnce
<1>2. IsABag(rest)
  BY Removed
<1> HIDE DEF rest
<1> QED  BY <1>1, <1>2 DEF rest

\* A list that is loaded with nothing in flight.
LEMMA LoadedOnce ==
    ASSUME NEW v, v.page \in ListPages, NEW w, w.rows = EmptyBag, w.page = v.page
    PROVE  Once(w, EmptyBag (+) SetToBag(Asks(v)))
<1> DEFINE sent == EmptyBag (+) SetToBag(Asks(v))
<1>1. DOMAIN sent = Asks(v) /\ \A r \in DOMAIN sent : sent[r] = 1
  <2> DEFINE S == Asks(v)
  <2> HIDE DEF S
  <2>1. IsABag(EmptyBag) /\ DOMAIN EmptyBag = {}
    BY BagOfSet, EmptyDomain
  <2>2. ASSUME NEW none, IsABag(none), DOMAIN none = {}
        PROVE  /\ DOMAIN (none (+) SetToBag(S)) = S
               /\ \A r \in DOMAIN (none (+) SetToBag(S)) : (none (+) SetToBag(S))[r] = 1
    <3>1. (\A d \in DOMAIN none : none[d] = 1) /\ DOMAIN none \cap S = {}
      BY <2>2
    <3> QED  BY <2>2, <3>1, StillOnce
  <2> QED  BY <2>1, <2>2 DEF S
<1>2. \A r \in Asks(v) : Asks(v) = {r} /\ r.to \in {"groups", "group", "host"}
  BY DEF Asks, ListPages, Get
<1> HIDE DEF sent
<1>3. Single(w.rows) /\ DOMAIN w.rows = {}
  BY EmptyDomain DEF Single
<1>4. AskedOnce(w, sent)
  BY <1>1, <1>2, <1>3 DEF AskedOnce
<1> QED  BY <1>3, <1>4 DEF Once, sent

LEMMA OpenedOnce ==
    ASSUME NEW v \in Openings, view' = v,
           requests' = InFlight(requests) (+) SetToBag(Asks(v))
    PROVE  view'.page \in ListPages => Once(view', requests')
<1>1. v.page \in ListPages => v.rows = EmptyBag
  BY DEF Openings, ListPage, LogsPage, AuthorityPage, ListPages
<1> QED  BY <1>1, LoadedOnce DEF InFlight

LEMMA LeftLoadsNothing ==
    ASSUME clicks \in Seq(Decisions)
    PROVE  NoClickLoads(Left(clicks))
<1>1. \A i \in DOMAIN clicks : clicks[i] \in Decisions
  OBVIOUS
<1>2. \A i \in DOMAIN clicks : [clicks[i] EXCEPT !.loads = FALSE].loads = FALSE
  BY <1>1 DEF Decisions
<1> QED  BY <1>2 DEF NoClickLoads, Left

\* A click that loads nothing goes on to load nothing.
LEMMA OverLoadsNothing ==
    ASSUME PageInv, NoClickLoads(clicks), NEW i \in DOMAIN clicks, NEW c,
           NEW failed \in BOOLEAN, Over(i, c, failed)
    PROVE  NoClickLoads(clicks') /\ UNCHANGED <<view, requests>>
<1> DEFINE rest == clicks[i].left (-) SetToBag({c})
           click == [clicks[i] EXCEPT !.left = @ (-) SetToBag({c}), !.loads = @ /\ ~failed]
<1>1. clicks \in Seq(Decisions) /\ clicks[i] \in Decisions /\ i \in 1 .. Len(clicks)
  BY DEF PageInv
<1>2. click.loads = FALSE
  <2>1. clicks[i].loads = FALSE
    BY DEF NoClickLoads
  <2> HIDE DEF rest
  <2>2. click = [clicks[i] EXCEPT !.left = rest, !.loads = FALSE]
    BY <2>1 DEF rest
  <2> QED  BY <1>1, <2>2 DEF Decisions
<1>3. /\ clicks' = IF click.left = EmptyBag THEN RemoveAt(clicks, i)
                                            ELSE [clicks EXCEPT ![i] = click]
      /\ IF click.left = EmptyBag /\ click.loads
         THEN Load(view)
         ELSE UNCHANGED <<view, requests>>
  BY DEF Over
<1> HIDE DEF click
<1>4. UNCHANGED <<view, requests>>
  BY <1>2, <1>3
<1>5. NoClickLoads([clicks EXCEPT ![i] = click])
  BY <1>1, <1>2 DEF NoClickLoads
<1>6. NoClickLoads(RemoveAt(clicks, i))
  BY <1>1 DEF NoClickLoads, RemoveAt
<1> QED  BY <1>3, <1>4, <1>5, <1>6

\* An answer or the loss of a request.
LEMMA AnsweredOnce ==
    ASSUME NEW v, NEW sent, IsABag(sent), Once(v, sent), NEW r \in DOMAIN sent
    PROVE  /\ Once(v, sent (-) SetToBag({r}))
           /\ \A s : s.to = r.to /\ s.about = r.about =>
                  Once(v, (sent (-) SetToBag({r})) (+) SetToBag({s}))
<1> DEFINE rest == sent (-) SetToBag({r})
<1>1. /\ DOMAIN rest = DOMAIN sent \ {r} /\ \A d \in DOMAIN sent \ {r} : rest[d] = sent[d]
      /\ IsABag(rest)
  BY RemovedOnce, Removed DEF Once, AskedOnce
<1> HIDE DEF rest
<1>2. Once(v, rest)
  BY <1>1 DEF Once, AskedOnce
<1>3. ASSUME NEW s, s.to = r.to, s.about = r.about
      PROVE  Once(v, rest (+) SetToBag({s}))
  <2> DEFINE more == rest (+) SetToBag({s})
  <2>1. DOMAIN more = (DOMAIN sent \ {r}) \cup {s}
    BY <1>1, Added
  <2>2. s \notin DOMAIN sent \ {r}
    BY <1>3 DEF Once, AskedOnce
  <2>3. \A d \in DOMAIN more : more[d] =
            (IF d \in DOMAIN rest THEN rest[d] ELSE 0) + (IF d \in {s} THEN 1 ELSE 0)
    BY <1>1, AddedOnce
  <2> HIDE DEF more
  <2>4. \A d \in DOMAIN more : more[d] = 1
    BY <1>1, <2>1, <2>2, <2>3 DEF Once, AskedOnce
  <2>5. AskedOnce(v, more)
    BY <1>3, <2>1, <2>4 DEF Once, AskedOnce
  <2> QED  BY <2>5 DEF Once, more
<1> QED  BY <1>2, <1>3 DEF rest

\* An answer arrives.
LEMMA GroupsArriveOnce ==
    ASSUME PageInv, Once(view, requests), NEW r \in Arrived, GroupsArrive(r)
    PROVE  Once(view', requests')
<1> DEFINE more == {Get("group", g) : g \in r.answer}
           rest == requests (-) SetToBag({r})
<1>1. r \in DOMAIN requests /\ r.to = "groups" /\ view.page = "hosts" /\ IsABag(requests)
  BY DEF Arrived, BagToSet, GroupsArrive, PageInv, RequestsInv
<1>2. DOMAIN requests = {r} /\ view.rows = EmptyBag
  BY <1>1 DEF Once, AskedOnce
<1>3. DOMAIN rest = {} /\ IsABag(rest)
  <2>1. \A d \in DOMAIN requests : requests[d] = 1
    BY DEF Once, AskedOnce
  <2>2. DOMAIN rest = DOMAIN requests \ {r} /\ IsABag(rest)
    BY <1>1, <2>1, RestOnce
  <2> HIDE DEF rest
  <2> QED  BY <1>2, <2>2
<1>4. requests' = rest (+) SetToBag(more) /\ view' = view
  BY DEF GroupsArrive
<1>5. \A s \in more : s.to = "group" /\ \A t \in more : t.about = s.about => t = s
  BY DEF Get
<1> HIDE DEF rest, more
<1>6. DOMAIN requests' = more /\ \A d \in more : requests'[d] = 1
  BY <1>3, <1>4, StillOnce
<1>7. DOMAIN view.rows = {}
  BY <1>2, EmptyDomain
<1>8. AskedOnce(view, requests')
  BY <1>1, <1>5, <1>6, <1>7 DEF AskedOnce
<1> QED  BY <1>4, <1>8 DEF Once

LEMMA RowsArriveOnce ==
    ASSUME PageInv, Once(view, requests), NEW r \in Arrived, RowsArrive(r)
    PROVE  Once(view', requests')
<1> DEFINE rest == requests (-) SetToBag({r})
           new == SetToBag(Rows(r))
<1>1. /\ r \in DOMAIN requests /\ IsABag(requests)
      /\ view.page \in ListPages
      /\ view.page = "hosts" => r.to = "group"
  BY DEF Arrived, BagToSet, RowsArrive, PageInv, RequestsInv, ListPages
<1>2. ListOK(view)
  BY <1>1 DEF PageInv, ViewOK, LogsOK, AuthorityOK, ListPages
<1>3. /\ view'.page = view.page /\ view'.rows = view.rows (+) new
      /\ requests' = rest
  <2>1. PICK more : view' = [view EXCEPT !.rows = @ (+) new, !.counts = more]
    BY DEF RowsArrive
  <2> HIDE DEF new
  <2>2. view'.page = view.page /\ view'.rows = view.rows (+) new
    BY <1>2, <2>1 DEF ListOK
  <2> QED  BY <2>2 DEF RowsArrive
<1>4. IsABag(view.rows)
  BY <1>2 DEF ListOK, RowsOK
<1>5. DOMAIN rest = DOMAIN requests \ {r} /\ \A d \in DOMAIN rest : rest[d] = 1
  BY <1>1, RestOnce DEF Once, AskedOnce
<1>6. \A row \in Rows(r) : \A other \in Rows(r) : other.name = row.name => other = row
  BY DEF Rows
<1>7. \A row \in Rows(r) : \A other \in DOMAIN view.rows : other.name # row.name
  <2>1. CASE view.page = "hosts"
    <3>1. \A row \in Rows(r) : row.name = r.about
      BY <2>1 DEF Rows
    <3> QED  BY <1>1, <2>1, <3>1 DEF Once, AskedOnce
  <2>2. CASE view.page # "hosts"
    <3>1. DOMAIN view.rows = {}
      BY <1>1, <2>2, EmptyDomain DEF Once, AskedOnce
    <3> QED  BY <3>1
  <2> QED  BY <2>1, <2>2
<1>8. Single(view'.rows)
  <2>1. /\ DOMAIN view'.rows = DOMAIN view.rows \cup Rows(r)
        /\ \A row \in DOMAIN view'.rows : view'.rows[row] = 1
    <3>1. DOMAIN view.rows \cap Rows(r) = {}
      BY <1>7
    <3>2. \A row \in DOMAIN view.rows : view.rows[row] = 1
      BY DEF Once, Single
    <3> DEFINE S == Rows(r)
               old == view.rows
    <3> HIDE DEF S, old
    <3>3. /\ DOMAIN (old (+) SetToBag(S)) = DOMAIN old \cup S
          /\ \A d \in DOMAIN (old (+) SetToBag(S)) : (old (+) SetToBag(S))[d] = 1
      BY <1>4, <3>1, <3>2, StillOnce DEF S, old
    <3> QED  BY <1>3, <3>3 DEF S, old
  <2> QED  BY <1>6, <1>7, <2>1 DEF Once, Single
<1>9. AskedOnce(view', requests')
  <2>1. CASE view.page = "hosts"
    <3>1. \A s \in DOMAIN rest : s.about # r.about /\ s.to # "groups"
      BY <1>1, <1>5, <2>1 DEF Once, AskedOnce
    <3>2. DOMAIN view'.rows = DOMAIN view.rows \cup Rows(r)
      BY <1>3, <1>4, Added
    <3>3. \A row \in Rows(r) : row.name = r.about
      BY <2>1 DEF Rows
    <3> HIDE DEF rest
    <3> QED  BY <1>3, <1>5, <2>1, <3>1, <3>2, <3>3 DEF Once, AskedOnce
  <2>2. CASE view.page # "hosts"
    <3>1. DOMAIN rest = {}
      BY <1>1, <1>5, <2>2 DEF Once, AskedOnce
    <3> QED  BY <1>3, <3>1 DEF AskedOnce
  <2> QED  BY <2>1, <2>2
<1> QED  BY <1>8, <1>9 DEF Once

LEMMA NextOnceInv ==
    ASSUME PageInv, OnceInv, [Next]_vars, [Patient]_vars
    PROVE  OnceInv'
<1>0. IsABag(requests) /\ clicks \in Seq(Decisions)
  BY DEF PageInv, RequestsInv
<1>p. ASSUME NEW v, ViewOK(v), Load(v) PROVE view'.page = v.page
  BY <1>p, ClearedOK DEF Load
<1>v. ViewOK(view) /\ {"logs", "authority"} \cap ListPages = {}
  BY DEF PageInv, ListPages
<1>1. CASE Navigate
  <2>1. PICK v \in Openings : Open(v)
    BY <1>1 DEF Navigate
  <2> QED  BY <1>0, <2>1, OpenedOnce, LeftLoadsNothing DEF Open, OnceInv
<1>2. CASE RevokeAllowed
  <2>1. PICK c \in BagToSet(view.allowed), h \in Host :
           /\ view' = ListPage("host", h)
           /\ requests' = InFlight(requests) (+) SetToBag(Asks(view'))
           /\ clicks' = Append(Left(clicks), [what |-> "revoke", left |-> SetToBag({c}),
                                              loads |-> FALSE])
    BY <1>2 DEF RevokeAllowed
  <2>2. ListPage("host", h) \in Openings
    BY DEF Openings
  <2>3. NoClickLoads(clicks')
    <3> DEFINE more == [what |-> "revoke", left |-> SetToBag({c}), loads |-> FALSE]
    <3>1. more.loads = FALSE /\ clicks' = Append(Left(clicks), more)
      BY <2>1
    <3> HIDE DEF more
    <3>2. Left(clicks) \in Seq(Decisions) /\ NoClickLoads(Left(clicks))
      BY <1>0, LeftOK, LeftLoadsNothing
    <3> QED  BY <3>1, <3>2 DEF NoClickLoads
  <2> QED  BY <2>1, <2>2, <2>3, OpenedOnce DEF OnceInv
<1>3. CASE UNCHANGED <<view, requests, clicks>>
  BY <1>3 DEF OnceInv
<1>4. CASE ChangeFilter \/ Turn
  <2>1. view.page = "logs" /\ UNCHANGED clicks
    BY <1>4 DEF ChangeFilter, Turn
  <2>2. LogsOK(view)
    BY <1>v, <2>1 DEF ViewOK, ListOK, AuthorityOK
  <2>3. view'.page = "logs"
    <3>1. PICK v : v.page = "logs" /\ Load(v)
      BY <1>4, <2>1, <2>2 DEF ChangeFilter, Turn, LogsOK
    <3>2. Cleared(v) = v
      BY <3>1 DEF Cleared, ListPages
    <3> QED  BY <3>1, <3>2 DEF Load
  <2> QED  BY <1>v, <2>1, <2>3 DEF OnceInv
<1>5. CASE Decide
  <2>1. view.page = "authority"
    BY <1>5 DEF Decide
  <2>2. view'.page = "authority"
    BY <1>5, <1>p, <1>v, <2>1 DEF Decide
  <2> QED  BY <1>v, <2>2 DEF OnceInv
<1>6. CASE Refresh /\ Patient
  <2>1. Load(view) /\ UNCHANGED clicks /\ view'.page = view.page
    BY <1>6, <1>p, <1>v DEF Refresh
  <2>2. view.page \in ListPages => Once(view', requests')
    <3> SUFFICES ASSUME view.page \in ListPages PROVE Once(view', requests')
      OBVIOUS
    <3>1. ListOK(view)
      BY <1>v DEF ViewOK, LogsOK, AuthorityOK
    <3>2. view' = [view EXCEPT !.rows = EmptyBag, !.counts = Zero]
      BY <2>1 DEF Load, Cleared, ListPages
    <3>3. view'.rows = EmptyBag
      BY <3>1, <3>2 DEF ListOK
    <3>4. requests' = EmptyBag (+) SetToBag(Asks(view))
      BY <1>6, <2>1 DEF Load, Patient
    <3> QED  BY <2>1, <3>3, <3>4, LoadedOnce
  <2> QED  BY <2>1, <2>2 DEF OnceInv
<1>7. CASE Answer
  <2>0. PICK r \in Pending : \E a \in Answers(r) :
            requests' = requests (-) SetToBag({r}) (+) SetToBag({[r EXCEPT !.answer = a]})
    BY <1>7 DEF Answer
  <2>1. PICK a \in Answers(r) :
            requests' = requests (-) SetToBag({r}) (+) SetToBag({[r EXCEPT !.answer = a]})
    BY <2>0
  <2>2. r \in DOMAIN requests /\ r = [to |-> r.to, about |-> r.about, answer |-> r.answer]
    BY DEF Pending, BagToSet, PageInv, RequestsInv, RequestOK
  <2> DEFINE s == [r EXCEPT !.answer = a]
  <2>3. s.to = r.to /\ s.about = r.about
    BY <2>2
  <2>4. requests' = (requests (-) SetToBag({r})) (+) SetToBag({s})
    BY <2>1
  <2> HIDE DEF s
  <2>5. view.page \in ListPages => Once(view, requests')
    BY <1>0, <2>2, <2>3, <2>4, AnsweredOnce DEF OnceInv
  <2> QED  BY <1>7, <2>5 DEF Answer, OnceInv
<1>8. CASE Refuse \/ Lose
  <2>1. PICK r \in Pending : requests' = requests (-) SetToBag({r})
    BY <1>8 DEF Refuse, Lose
  <2>2. view.page \in ListPages => Once(view, requests')
    BY <1>0, <2>1, AnsweredOnce DEF Pending, BagToSet, OnceInv
  <2> QED  BY <1>8, <2>2 DEF Refuse, Lose, OnceInv
<1>9. CASE Handle \/ LoseClick
  <2>1. PICK i \in DOMAIN clicks, failed \in BOOLEAN : \E c : Over(i, c, failed)
    BY <1>9 DEF Handle, LoseClick, Fails
  <2>2. PICK c : Over(i, c, failed)
    BY <2>1
  <2>3. CASE view.page = "authority"
    <3>1. Load(view) \/ UNCHANGED <<view, requests>>
      BY <2>2 DEF Over
    <3>2. view'.page = "authority"
      BY <1>p, <1>v, <2>3, <3>1
    <3> QED  BY <1>v, <3>2 DEF OnceInv
  <2>4. CASE view.page # "authority"
    BY <2>2, <2>4, OverLoadsNothing DEF OnceInv
  <2> QED  BY <2>3, <2>4
<1>10. CASE Arrive
  <2>1. PICK r \in Arrived :
            GroupsArrive(r) \/ RowsArrive(r) \/ LogsArrive(r) \/ ClientsArrive(r)
    BY <1>10 DEF Arrive
  <2>2. UNCHANGED clicks
    BY <1>10 DEF Arrive
  <2>3. CASE GroupsArrive(r)
    <3>1. view' = view /\ view.page \in ListPages
      BY <2>3 DEF GroupsArrive, ListPages
    <3> QED  BY <2>2, <2>3, <3>1, GroupsArriveOnce DEF OnceInv
  <2>4. CASE RowsArrive(r)
    <3>1. view.page \in ListPages
      BY <2>4 DEF RowsArrive, ListPages
    <3> QED  BY <1>v, <2>2, <2>4, <3>1, RowsArriveOnce DEF OnceInv
  <2>5. CASE LogsArrive(r)
    <3>1. view.page = "logs" /\ LogsOK(view)
      BY <1>v, <2>5 DEF LogsArrive, ViewOK, ListOK, AuthorityOK
    <3>2. view'.page = "logs"
      BY <2>5, <3>1 DEF LogsArrive, LogsOK
    <3> QED  BY <1>v, <2>2, <3>1, <3>2 DEF OnceInv
  <2>6. CASE ClientsArrive(r)
    <3>1. AuthorityOK(view)
      BY <1>v, <2>6 DEF ClientsArrive, ViewOK, ListOK, LogsOK
    <3>2. view'.page = "authority"
      BY <2>6, <3>1 DEF ClientsArrive, AuthorityOK
    <3> QED  BY <1>v, <3>2 DEF OnceInv
  <2> QED  BY <2>1, <2>3, <2>4, <2>5, <2>6
<1>11. ChooseInterval \/ HostChanges \/ ClientChanges => UNCHANGED <<view, requests, clicks>>
  BY DEF ChooseInterval, HostChanges, ClientChanges
<1>12. UNCHANGED tab => UNCHANGED <<view, requests, clicks>>
  BY DEF tab
<1>13. ~(UNCHANGED vars) => Patient
  OBVIOUS
<1>14. UNCHANGED vars => UNCHANGED <<view, requests, clicks>>
  BY DEF vars, tab
<1>15. Next => \/ User \/ HostChanges \/ ClientChanges \/ Lose \/ LoseClick \/ Refresh
               \/ Answer \/ Refuse \/ Arrive \/ Handle \/ UNCHANGED tab
  BY DEF Next, Disturbance, Work
<1> QED
  BY <1>1, <1>2, <1>3, <1>4, <1>5, <1>6, <1>7, <1>8, <1>9, <1>10, <1>11, <1>12, <1>13, <1>14,
     <1>15
  DEF User

\* As long as the timer of a list fires when the answers of the last load have
\* come or are lost, none of its groups, hosts or probes is shown twice, though
\* the user comes and goes and hosts change between the answers: the load that
\* overlaps another is all that the pages of app.js lack.
THEOREM NoneTwiceWhenPatient == Spec /\ [][Patient]_vars => []NoneTwice
<1>1. Init => OnceInv
  <2> SUFFICES ASSUME Init PROVE OnceInv
    OBVIOUS
  <2>1. view.page \in ListPages => view.rows = EmptyBag
    BY DEF Init, Openings, ListPage, LogsPage, AuthorityPage, ListPages
  <2>2. requests = SetToBag(Asks(view)) /\ clicks = <<>>
    BY DEF Init
  <2>3. view.page \in ListPages => Once(view, EmptyBag (+) SetToBag(Asks(view)))
    BY <2>1, LoadedOnce
  <2>4. SetToBag(Asks(view)) = EmptyBag (+) SetToBag(Asks(view))
    <3> DEFINE S == Asks(view)
    <3> HIDE DEF S
    <3>1. SetToBag(S) = [d \in S |-> 1]
      BY DEF SetToBag
    <3>2. EmptyBag (+) SetToBag(S) = [d \in S |-> 1]
      BY <3>1, EmptyDomain DEF (+)
    <3> QED  BY <3>1, <3>2 DEF S
  <2> QED  BY <2>2, <2>3, <2>4 DEF OnceInv, NoClickLoads
<1>2. PageInv /\ OnceInv /\ [Next]_vars /\ [Patient]_vars => OnceInv'
  BY NextOnceInv
<1>3. OnceInv => NoneTwice
  BY DEF OnceInv, Once, NoneTwice
<1> QED  BY <1>1, <1>2, <1>3, PagesSound, PTL DEF Spec
=============================================================================
