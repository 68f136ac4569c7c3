----------------------------- MODULE MCPushSystem -----------------------------
(* Instances of PushSystem for TLC.                                        *)
EXTENDS PushSystem, TLC
=============================================================================
