--------------------------- MODULE MCNotifications ----------------------------
(* An instance of Notifications for TLC.                                   *)
EXTENDS Notifications

\* States that differ in told and appeared alone are not told apart: no guard
\* and no property of the run reads these two history variables.
WithoutHistory ==
    <<entry, update, scanning, held, scanned, hostTold, loop, sending, callbacks, delivered>>
=============================================================================
