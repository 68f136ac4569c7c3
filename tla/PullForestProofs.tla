--------------------------- MODULE PullForestProofs ---------------------------
(***************************************************************************)
(* The trees of wigos that poll each other stay free of loops, for any     *)
(* number of nodes and any configuration of who polls whom.                *)
(***************************************************************************)
EXTENDS PullForest, TLAPS

\* A path from n that comes back neither to n nor to any node on it.
Simple(n, p) == Distinct(p) /\ \A i \in DOMAIN p : p[i] # n

\* What is on its way from m is as free of loops as what m holds.
ReplyNoLoop ==
    \A n, m \in Node : reply[n][m] # NoReply => \A p \in reply[n][m] : Simple(m, p)

Inv == TypeOK /\ NoLoop /\ ReplyNoLoop

-----------------------------------------------------------------------------
\* A path put under one more node.
LEMMA ConsPath ==
    ASSUME NEW m \in Node, NEW p \in Seq(Node)
    PROVE  /\ <<m>> \o p \in Seq(Node) \ {<<>>}
           /\ Len(<<m>> \o p) = Len(p) + 1
           /\ (<<m>> \o p)[1] = m
           /\ \A i \in 1 .. Len(p) : (<<m>> \o p)[i + 1] = p[i]
OBVIOUS

\* It stays simple when the node put on top is not n and n is not on the path.
LEMMA ConsSimple ==
    ASSUME NEW n \in Node, NEW m \in Node, NEW p \in Seq(Node), m # n,
           Simple(m, p), \A i \in DOMAIN p : p[i] # n
    PROVE  Simple(n, <<m>> \o p)
<1> DEFINE q == <<m>> \o p
<1>1. /\ q \in Seq(Node) /\ Len(q) = Len(p) + 1 /\ q[1] = m
      /\ \A i \in 1 .. Len(p) : q[i + 1] = p[i]
  BY ConsPath
<1>2. DOMAIN p = 1 .. Len(p) /\ DOMAIN q = 1 .. Len(p) + 1 /\ Len(p) \in Nat
  BY <1>1
<1> HIDE DEF q
<1>3. \A i \in DOMAIN q : i = 1 \/ (i - 1 \in DOMAIN p /\ q[i] = p[i - 1])
  <2> SUFFICES ASSUME NEW i \in DOMAIN q, i # 1
               PROVE  i - 1 \in DOMAIN p /\ q[i] = p[i - 1]
    OBVIOUS
  <2>1. i - 1 \in 1 .. Len(p) /\ (i - 1) + 1 = i
    BY <1>2
  <2> QED BY <1>1, <1>2, <2>1
<1>4. Distinct(q)
  <2> SUFFICES ASSUME NEW i \in DOMAIN q, NEW j \in DOMAIN q, q[i] = q[j]
               PROVE  i = j
    BY DEF Distinct
  <2>1. CASE i = 1 /\ j # 1
    BY <1>1, <1>3, <2>1 DEF Simple
  <2>2. CASE i # 1 /\ j = 1
    BY <1>1, <1>3, <2>2 DEF Simple
  <2>3. CASE i # 1 /\ j # 1
    <3>1. i - 1 = j - 1
      BY <1>3, <2>3 DEF Simple, Distinct
    <3> QED BY <1>2, <3>1
  <2> QED BY <2>1, <2>2, <2>3
<1>5. \A i \in DOMAIN q : q[i] # n
  BY <1>1, <1>3
<1> QED BY <1>4, <1>5 DEF q, Simple

LEMMA SingleSimple ==
    ASSUME NEW n \in Node, NEW m \in Node, m # n
    PROVE  <<m>> \in Seq(Node) \ {<<>>} /\ Simple(n, <<m>>)
<1>1. <<m>> \in Seq(Node) /\ Len(<<m>>) = 1 /\ DOMAIN <<m>> = 1 .. 1 /\ <<m>>[1] = m
  OBVIOUS
<1> QED BY <1>1 DEF Simple, Distinct

\* What n stores of m's answer.
LEMMA EntrySimple ==
    ASSUME NEW n \in Node, NEW m \in Node, NEW tree \in Trees, NEW depth, m # n,
           \A p \in tree : Simple(m, p)
    PROVE  \A q \in Entry(m, Deduplicate(n, Erase(tree, depth))) :
               q \in Seq(Node) \ {<<>>} /\ Simple(n, q)
<1> SUFFICES ASSUME NEW q \in Entry(m, Deduplicate(n, Erase(tree, depth))), q # <<m>>
             PROVE  q \in Seq(Node) \ {<<>>} /\ Simple(n, q)
  BY SingleSimple
<1>1. PICK p \in Deduplicate(n, Erase(tree, depth)) : q = <<m>> \o p
  BY DEF Entry
<1>2. p \in tree /\ \A i \in DOMAIN p : p[i] # n
  BY DEF Deduplicate, Erase, Drops
<1>3. p \in Seq(Node)
  BY <1>2 DEF Trees
<1> QED BY <1>1, <1>2, <1>3, ConsPath, ConsSimple

-----------------------------------------------------------------------------
LEMMA InitInv == Init => Inv
<1> SUFFICES ASSUME Init PROVE Inv
  OBVIOUS
<1>1. edge \in [Node -> Remotes]
  BY ForestAssumption DEF Init
<1>2. TypeOK
  BY <1>1, ForestAssumption DEF Init, TypeOK, Trees
<1>3. NoLoop /\ ReplyNoLoop
  BY DEF Init, NoLoop, ReplyNoLoop
<1> QED BY <1>2, <1>3 DEF Inv

LEMMA NextInv == Inv /\ [Next]_vars => Inv'
<1> SUFFICES ASSUME Inv, [Next]_vars PROVE Inv'
  OBVIOUS
<1> USE DEF Inv, TypeOK
<1>1. ASSUME NEW n \in Node, NEW m \in Node, Answer(n, m) PROVE Inv'
  <2>1. TypeOK'
    BY <1>1 DEF Answer
  <2>2. NoLoop'
    BY <1>1 DEF Answer, NoLoop
  <2>3. ReplyNoLoop'
    BY <1>1 DEF Answer, ReplyNoLoop, NoLoop, Simple
  <2> QED BY <2>1, <2>2, <2>3
<1>2. ASSUME NEW n \in Node, NEW m \in Node, Store(n, m) PROVE Inv'
  <2> DEFINE new == Entry(m, Deduplicate(n, Erase(reply[n][m], edge[n][m])))
  <2>1. CASE Stores(n, m)
    <3>1. m # n /\ reply[n][m] \in Trees /\ \A p \in reply[n][m] : Simple(m, p)
      BY <1>2, <2>1 DEF Store, Stores, ReplyNoLoop
    <3>2. \A q \in new : q \in Seq(Node) \ {<<>>} /\ Simple(n, q)
      BY <3>1, EntrySimple
    <3>3. forest' = [forest EXCEPT ![n] = Without(n, m) \cup new]
      BY <1>2, <2>1 DEF Store
    <3> HIDE DEF new
    <3>4. Without(n, m) \subseteq forest[n]
      BY DEF Without
    <3>5. forest' \in [Node -> Trees]
      BY <3>2, <3>3, <3>4 DEF Trees
    <3>6. NoLoop'
      BY <3>2, <3>3, <3>4 DEF NoLoop, Simple
    <3> QED BY <1>2, <3>5, <3>6 DEF Store, ReplyNoLoop
  <2>2. CASE ~Stores(n, m)
    BY <1>2, <2>2 DEF Store, NoLoop, ReplyNoLoop
  <2> QED BY <2>1, <2>2
<1>3. ASSUME NEW n \in Node, Restart(n) PROVE Inv'
  <2>1. TypeOK'
    <3>1. edge' \in [Node -> Remotes]
      BY <1>3, ForestAssumption DEF Restart
    <3>2. restarts' \in 0 .. MaxRestarts
      BY <1>3, ForestAssumption DEF Restart
    <3>3. reply' \in [Node -> [Node -> Trees \cup {NoReply}]]
      BY <1>3 DEF Restart
    <3> QED BY <1>3, <3>1, <3>2, <3>3 DEF Restart, Trees
  <2>2. NoLoop'
    BY <1>3 DEF Restart, NoLoop
  <2>3. ReplyNoLoop'
    BY <1>3 DEF Restart, ReplyNoLoop
  <2> QED BY <2>1, <2>2, <2>3
<1>4. CASE UNCHANGED vars
  BY <1>4 DEF vars, NoLoop, ReplyNoLoop
<1> QED BY <1>1, <1>2, <1>3, <1>4 DEF Next

\* The trees and the answers keep their types: paths of nodes, never empty.
THEOREM TypeCorrect == Spec => []TypeOK
<1>1. Inv => TypeOK
  BY DEF Inv
<1> QED BY <1>1, InitInv, NextInv, PTL DEF Spec

\* Whoever polls whom, with whatever depths and restarts, no path of a tree
\* comes back to the tree's owner or to a node on it.
THEOREM LoopFree == Spec => []NoLoop
<1>1. Inv => NoLoop
  BY DEF Inv
<1> QED BY <1>1, InitInv, NextInv, PTL DEF Spec

-----------------------------------------------------------------------------
\* Only answers to configured remotes are on their way.
ReplyConfigured ==
    \A n, m \in Node : reply[n][m] # NoReply => edge[n][m] # NoEdge

DepthInv == TypeOK /\ ReplyConfigured /\ DepthKept

\* What n stores of m's answer goes no deeper than it is configured to.
LEMMA EntryDepth ==
    ASSUME NEW n \in Node, NEW m \in Node, NEW tree \in Trees, NEW depth \in Nat
    PROVE  \A q \in Entry(m, Deduplicate(n, Erase(tree, depth))) :
               Head(q) = m /\ (depth > 0 => Len(q) <= depth)
<1> SUFFICES ASSUME NEW q \in Entry(m, Deduplicate(n, Erase(tree, depth)))
             PROVE  Head(q) = m /\ (depth > 0 => Len(q) <= depth)
  OBVIOUS
<1>1. CASE q = <<m>>
  BY <1>1
<1>2. CASE q # <<m>>
  <2>1. PICK p \in Deduplicate(n, Erase(tree, depth)) : q = <<m>> \o p
    BY <1>2 DEF Entry
  <2>2. p \in tree /\ (depth > 0 => Len(p) < depth)
    BY DEF Deduplicate, Erase
  <2>3. p \in Seq(Node)
    BY <2>2 DEF Trees
  <2>4. Len(q) = Len(p) + 1 /\ q[1] = m /\ q \in Seq(Node) \ {<<>>} /\ Len(p) \in Nat
    BY <2>1, <2>3, ConsPath
  <2> QED BY <2>2, <2>4
<1> QED BY <1>1, <1>2

LEMMA DepthInit == Init => DepthInv
<1> SUFFICES ASSUME Init PROVE DepthInv
  OBVIOUS
<1>1. TypeOK
  BY InitInv DEF Inv
<1>2. ReplyConfigured /\ DepthKept
  BY DEF Init, ReplyConfigured, DepthKept
<1> QED BY <1>1, <1>2 DEF DepthInv

LEMMA DepthNext == DepthInv /\ TypeOK' /\ [Next]_vars => DepthInv'
<1> SUFFICES ASSUME DepthInv, TypeOK', [Next]_vars PROVE DepthInv'
  OBVIOUS
<1> USE DEF DepthInv, TypeOK
<1>1. ASSUME NEW n \in Node, NEW m \in Node, Answer(n, m) PROVE DepthInv'
  BY <1>1 DEF Answer, ReplyConfigured, DepthKept
<1>2. ASSUME NEW n \in Node, NEW m \in Node, Store(n, m) PROVE DepthInv'
  <2>1. ReplyConfigured'
    BY <1>2 DEF Store, ReplyConfigured
  <2>2. DepthKept'
    <3> DEFINE stored == Entry(m, Deduplicate(n, Erase(reply[n][m], edge[n][m])))
    <3>1. CASE Stores(n, m)
      <4>1. edge[n][m] # NoEdge /\ reply[n][m] \in Trees
        BY <1>2 DEF Store, ReplyConfigured
      <4>2. edge[n][m] \in Nat
        <5>1. edge[n][m] \in Depths \cup {NoEdge}
          BY DEF Remotes
        <5> QED BY <4>1, <5>1, ForestAssumption
      <4>3. \A q \in stored : Head(q) = m /\ (edge[n][m] > 0 => Len(q) <= edge[n][m])
        BY <4>1, <4>2, EntryDepth
      <4>4. forest' = [forest EXCEPT ![n] = Without(n, m) \cup stored] /\ edge' = edge
        BY <1>2, <3>1 DEF Store
      <4> HIDE DEF stored
      <4>5. Without(n, m) \subseteq forest[n]
        BY DEF Without
      <4> SUFFICES ASSUME NEW k \in Node, NEW p \in forest'[k]
                   PROVE  /\ edge[k][Head(p)] # NoEdge
                          /\ edge[k][Head(p)] > 0 => Len(p) <= edge[k][Head(p)]
        BY <4>4 DEF DepthKept
      <4>6. CASE p \in forest[k]
        BY <4>6 DEF DepthKept
      <4>7. CASE p \notin forest[k]
        <5>1. k = n /\ p \in stored
          BY <4>4, <4>5, <4>7
        <5> QED BY <4>1, <4>3, <5>1
      <4> QED BY <4>6, <4>7
    <3>2. CASE ~Stores(n, m)
      BY <1>2, <3>2 DEF Store, DepthKept
    <3> QED BY <3>1, <3>2
  <2> QED BY <2>1, <2>2
<1>3. ASSUME NEW n \in Node, Restart(n) PROVE DepthInv'
  BY <1>3 DEF Restart, ReplyConfigured, DepthKept
<1>4. CASE UNCHANGED vars
  BY <1>4 DEF vars, ReplyConfigured, DepthKept
<1> QED BY <1>1, <1>2, <1>3, <1>4 DEF Next

\* A wigo never shows more levels of a remote than CheckRemotesDepth allows,
\* nor anything of a wigo it is not configured to poll.
THEOREM DepthLimited == Spec => []DepthKept
<1>1. DepthInv => DepthKept
  BY DEF DepthInv
<1> QED BY <1>1, DepthInit, DepthNext, TypeCorrect, PTL DEF Spec
=============================================================================
