----------------------------- MODULE MCLocalHost -----------------------------
(* Instances of LocalHost for TLC.                                         *)
EXTENDS LocalHost, TLC
CONSTANTS g1, g2, p1, p2
TwoProbes == (g1 :> p1) @@ (g2 :> p2)
=============================================================================
