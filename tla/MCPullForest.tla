----------------------------- MODULE MCPullForest -----------------------------
(* Instances of PullForest for TLC.                                        *)
EXTENDS PullForest, TLC

CONSTANTS n1, n2, n3, n4

\* Polling the nodes of a set, to some depth.
Poll(set, depth) == [m \in Node |-> IF m \in set THEN depth ELSE NoEdge]

\* A ring of three, with n4 behind n3 until n3 restarts without it.  n1 also polls
\* n3, which it then has from n2 as well, or limits what it shows of n2 to two
\* levels, n3's n4 being the third; n4 polls itself, under another name.
RingConfig ==
    n1 :> {Poll({n2, n3}, 0), Poll({n2}, 2)} @@
    n2 :> {Poll({n3}, 0)} @@
    n3 :> {Poll({n1, n4}, 0), Poll({n1}, 0)} @@
    n4 :> {Poll({n4}, 0)}
=============================================================================
