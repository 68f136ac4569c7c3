------------------------------- MODULE Admission -------------------------------
(***************************************************************************)
(* What the push server promises: who waits, who is allowed, who has a     *)
(* session, whose wigo is known, and what a restart brings back.  A        *)
(* request is one step, but for the save of the allowed list, which others *)
(* may change meanwhile and a stop may cut short.                          *)
(***************************************************************************)
EXTENDS Integers, FiniteSets

CONSTANTS
    Client,
    Places   \* of the waiting list

VARIABLES
    phase,    \* "stopped", "saving" the allowed list, or "ready": all is saved
    waiting,  \* clients an administrator has yet to decide on
    allowed,  \* clients that may push
    disk,     \* what a restart will find
    inside,   \* clients with a session
    known     \* clients whose wigo is shown

vars == <<phase, waiting, allowed, disk, inside, known>>

TypeOK ==
    /\ phase \in {"stopped", "ready", "saving"}
    /\ waiting \subseteq Client
    /\ allowed \subseteq Client
    /\ disk \subseteq Client
    /\ inside \subseteq Client
    /\ known \subseteq Client

Init ==
    /\ phase = "ready"
    /\ waiting = {} /\ allowed = {} /\ disk = {} /\ inside = {} /\ known = {}

-----------------------------------------------------------------------------
Running == phase # "stopped"

\* Only a client that is on neither list is added, while there is room.
Register(c) ==
    /\ Running
    /\ c \notin waiting \cup allowed
    /\ Cardinality(waiting) < Places
    /\ waiting' = waiting \cup {c}
    /\ UNCHANGED <<phase, allowed, disk, inside, known>>

\* A client moves from one list to the other and has no session yet.
Allow(c) ==
    /\ Running
    /\ c \in waiting
    /\ waiting' = waiting \ {c}
    /\ allowed' = allowed \cup {c}
    /\ phase' = "saving"
    /\ UNCHANGED <<disk, inside, known>>

Dismiss(c) ==
    /\ Running
    /\ c \in waiting
    /\ waiting' = waiting \ {c}
    /\ UNCHANGED <<phase, allowed, disk, inside, known>>

\* The list, the session and the data of the client go together.
Revoke(c) ==
    /\ Running
    /\ c \in allowed
    /\ allowed' = allowed \ {c}
    /\ inside' = inside \ {c}
    /\ known' = known \ {c}
    /\ phase' = "saving"
    /\ UNCHANGED <<waiting, disk>>

Enter(c) ==
    /\ Running
    /\ c \in allowed
    /\ inside' = inside \cup {c}
    /\ UNCHANGED <<phase, waiting, allowed, disk, known>>

\* The session may end with the update it was asked for.
Update(c) ==
    /\ Running
    /\ c \in inside
    /\ known' = known \cup {c}
    /\ inside' \in {inside, inside \ {c}}
    /\ UNCHANGED <<phase, waiting, allowed, disk>>

Leave(c) ==
    /\ Running
    /\ c \in inside
    /\ inside' = inside \ {c}
    /\ UNCHANGED <<phase, waiting, allowed, disk, known>>

-----------------------------------------------------------------------------
\* While it is written the disk holds no more than it did and what is allowed.
Write ==
    /\ phase = "saving"
    /\ disk' \in SUBSET (disk \cup allowed)
    /\ UNCHANGED <<phase, waiting, allowed, inside, known>>

\* The save is over when the disk holds all of it.
Finish ==
    /\ phase = "saving"
    /\ disk = allowed
    /\ phase' = "ready"
    /\ UNCHANGED <<waiting, allowed, disk, inside, known>>

Stop ==
    /\ phase # "stopped"
    /\ phase' = "stopped"
    /\ waiting' = {} /\ allowed' = {} /\ inside' = {} /\ known' = {}
    /\ UNCHANGED disk

Start ==
    /\ phase = "stopped"
    /\ phase' = "ready"
    /\ allowed' = disk
    /\ UNCHANGED <<waiting, disk, inside, known>>

Next ==
    \/ \E c \in Client :
          \/ Register(c) \/ Allow(c) \/ Dismiss(c) \/ Revoke(c)
          \/ Enter(c) \/ Update(c) \/ Leave(c)
    \/ Write \/ Finish \/ Stop \/ Start

Spec == Init /\ [][Next]_vars

-----------------------------------------------------------------------------
\* What follows from the steps: nobody is on both lists, a session and data are
\* those of an allowed client, and the disk holds the allowed list but for the
\* save under way.
Sound ==
    /\ TypeOK
    /\ waiting \cap allowed = {}
    /\ inside \cup known \subseteq allowed
    /\ phase = "ready" => disk = allowed
    /\ phase = "stopped" => waiting \cup allowed = {}
=============================================================================
