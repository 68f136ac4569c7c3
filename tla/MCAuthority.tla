------------------------------ MODULE MCAuthority ------------------------------
(* Instances of Authority for TLC.                                         *)
EXTENDS Authority, TLC

AuthoritySymmetry ==
    Permutations(Client) \cup Permutations(Token) \cup Permutations(Handler)

\* What the clients push: any wigo, or their own.
AnyUuid == [c \in Client |-> Client]
OwnUuid == [c \in Client |-> {c}]
=============================================================================
