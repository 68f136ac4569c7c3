--------------------------- MODULE MCRemoteRegistry ---------------------------
(* Instances of RemoteRegistry for TLC.                                    *)
EXTENDS RemoteRegistry, TLC

\* The remotes are interchangeable when all of them are Pushers.
RemoteSymmetry == Permutations(Remote)
=============================================================================
