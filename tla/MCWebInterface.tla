---------------------------- MODULE MCWebInterface ----------------------------
(* An instance of WebInterface for TLC.                                    *)
EXTENDS WebInterface

CONSTANTS h1, h2, g1, g2

\* A group for each host.
OneEach == h1 :> g1 @@ h2 :> g2
=============================================================================
