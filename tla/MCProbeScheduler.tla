--------------------------- MODULE MCProbeScheduler ---------------------------
(* An instance of ProbeScheduler for TLC.                                  *)
EXTENDS ProbeScheduler, TLC

CONSTANTS d1, d2, p1, p2

\* What threadWatch makes of either is the same.
DeletedOrRenamed == (d1 :> {"rename"}) @@ (d2 :> {"delete"})

\* One probe and more changes, or two probes and fewer.
OneProbe == (d1 :> {p1}) @@ (d2 :> {})
TwoProbes == (d1 :> {p1, p2}) @@ (d2 :> {})
OneOrTwo == {OneProbe, TwoProbes}
FewerForTwo == (OneProbe :> 4) @@ (TwoProbes :> 2)
=============================================================================
