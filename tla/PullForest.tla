------------------------------ MODULE PullForest ------------------------------
(***************************************************************************)
(* Wigos that pull each other.  Each polls its configured remotes for      *)
(* their whole tree (GET /api), cuts it at CheckRemotesDepth, removes what *)
(* it already is or has (Deduplicate) and stores the rest as one entry of  *)
(* its own tree, which its own pollers fetch in turn.  Nothing forbids     *)
(* cycles in the configuration.                                            *)
(*                                                                         *)
(* A tree is the set of its paths: <<a, b>> in forest[n] is the wigo b     *)
(* nested in the entry a of n.                                             *)
(***************************************************************************)
EXTENDS Integers, Sequences, FiniteSets

CONSTANTS
    Node,         \* uuids of the wigos
    Depths,       \* CheckRemotesDepth settings that occur; 0 is no limit
    Config,       \* the remotes, with their depths, each node may be configured with
    MaxRestarts,  \* bound on the restarts, with the same or another configuration
    NoEdge

\* The remotes of a node.
Remotes == [Node -> Depths \cup {NoEdge}]

ASSUME ForestAssumption ==
    /\ IsFiniteSet(Node)
    /\ Depths \subseteq Nat
    /\ MaxRestarts \in Nat
    /\ NoEdge \notin Depths
    /\ Config \in [Node -> SUBSET Remotes]

VARIABLES
    edge,      \* the configuration: the depth with which a node polls another
    forest,    \* the tree of remote wigos of each node
    reply,     \* the answer on its way from a node to one of its pollers
    restarts   \* restarts so far

vars == <<edge, forest, reply, restarts>>

Trees == SUBSET (Seq(Node) \ {<<>>})

\* No tree: it has the empty path.
NoReply == {<<>>}

TypeOK ==
    /\ edge \in [Node -> Remotes]
    /\ forest \in [Node -> Trees]
    /\ reply \in [Node -> [Node -> Trees \cup {NoReply}]]
    /\ restarts \in 0 .. MaxRestarts

-----------------------------------------------------------------------------
Direct(n) == {p[1] : p \in {q \in forest[n] : Len(q) = 1}}

\* EraseRemoteWigos: with depth 1 the fetched wigo keeps no remote, with depth
\* d its tree keeps d - 1 levels.
EraseLate(tree, depth) == IF depth = 0 THEN tree ELSE {p \in tree : Len(p) <= depth}
Erase(tree, depth) == IF depth = 0 THEN tree ELSE {p \in tree : Len(p) < depth}

\* Deduplicate: below the fetched wigo goes every node that is n itself or a
\* remote n has at its top level, with all that is nested in it.
DropsRemotesOnly(n, m) == m \in Direct(n)
DropsMeOnly(n, m) == m = n
Drops(n, m) == m = n \/ m \in Direct(n)

Deduplicate(n, tree) == {p \in tree : \A i \in DOMAIN p : ~Drops(n, p[i])}

EntryMerged(m, tree) == {<<>>} \cup tree
Entry(m, tree) == {<<m>>} \cup {<<m>> \o p : p \in tree}

\* The entry of m is replaced as a whole.
WithoutNothing(n, m) == forest[n]
Without(n, m) == {p \in forest[n] : Head(p) # m}

Init ==
    /\ edge \in [Node -> UNION {Config[n] : n \in Node}]
    /\ \A n \in Node : edge[n] \in Config[n]
    /\ forest = [n \in Node |-> {}]
    /\ reply = [n \in Node |-> [m \in Node |-> NoReply]]
    /\ restarts = 0

\* m answers n's poll.  A poll that fails is one that does not happen.
Answer(n, m) ==
    /\ edge[n][m] # NoEdge
    /\ reply[n][m] = NoReply
    /\ reply' = [reply EXCEPT ![n][m] = forest[m]]
    /\ UNCHANGED <<edge, forest, restarts>>

\* n may be configured to poll itself, under another name.
Stores(n, m) == m # n

\* NewWigoFromJson and AddOrUpdateRemoteWigo.
Store(n, m) ==
    /\ reply[n][m] # NoReply
    /\ forest' = IF Stores(n, m)
                 THEN [forest EXCEPT ![n] =
                          Without(n, m)
                              \cup Entry(m, Deduplicate(n, Erase(reply[n][m], edge[n][m])))]
                 ELSE forest
    /\ reply' = [reply EXCEPT ![n][m] = NoReply]
    /\ UNCHANGED <<edge, restarts>>

\* n stops, with the answers it waits for, and starts with other remotes.
Restart(n) ==
    /\ restarts < MaxRestarts
    /\ restarts' = restarts + 1
    /\ forest' = [forest EXCEPT ![n] = {}]
    /\ reply' = [reply EXCEPT ![n] = [m \in Node |-> NoReply]]
    /\ \E config \in Config[n] : edge' = [edge EXCEPT ![n] = config]

Next ==
    \/ \E n, m \in Node : Answer(n, m) \/ Store(n, m)
    \/ \E n \in Node : Restart(n)

Spec == Init /\ [][Next]_vars

\* Every configured remote is polled again and again, and answers.
FairSpec ==
    Spec /\ \A n, m \in Node : WF_vars(Answer(n, m)) /\ WF_vars(Store(n, m))

-----------------------------------------------------------------------------
Distinct(p) == \A i, j \in DOMAIN p : p[i] = p[j] => i = j

\* No wigo appears twice on a path of a tree, nor does the tree's owner: the
\* trees stay finite however the polls go round in circles, and a walk down
\* them (Deduplicate, CompareTwoWigos..., the json encoder) ends.
NoLoop ==
    \A n \in Node : \A p \in forest[n] :
        Distinct(p) /\ \A i \in DOMAIN p : p[i] # n

\* What n shows of a remote goes no deeper than it is configured to.
DepthKept ==
    \A n \in Node : \A p \in forest[n] :
        /\ edge[n][Head(p)] # NoEdge
        /\ edge[n][Head(p)] > 0 => Len(p) <= edge[n][Head(p)]

-----------------------------------------------------------------------------
Polls(n) == {m \in Node : edge[n][m] # NoEdge}

\* The nodes n can reach in at most k polls.
Within[n \in Node, k \in Nat] ==
    IF k = 0 THEN {n} ELSE {n} \cup UNION {Within[m, k - 1] : m \in Polls(n)}

Unlimited == \A n, m \in Node : edge[n][m] \in {0, NoEdge}

Known(n) == {p[Len(p)] : p \in forest[n]}

\* Without depth limits every node ends up with exactly the nodes it reaches
\* through any number of others: nothing is lost by the removals of
\* Deduplicate, and what is no longer polled by anybody does not live on in
\* the answers the others exchange.
KnowsReachable ==
    <>[](Unlimited => \A n \in Node : Known(n) = Within[n, Cardinality(Node)] \ {n})

\* A remote that a node polls itself ends up nowhere else in its tree.
NoDirectTwice ==
    <>[](\A n \in Node : \A p \in forest[n] : \A i \in 2 .. Len(p) : p[i] \notin Polls(n))
=============================================================================
