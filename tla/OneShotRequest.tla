--------------------------- MODULE OneShotRequest ---------------------------
(***************************************************************************)
(* What a request that rides a watchdog scratch register promises          *)
(* (core/video_request.h, core/oc_request.h): the running firmware asks    *)
(* and restarts, a later boot finds at most what was asked last, what one  *)
(* boot has taken no other boot gets, and nothing outlives the power.      *)
(***************************************************************************)
CONSTANTS
  Requests,
  Nothing,    \* no request
  MayWait     \* may a boot leave the request where it is?

VARIABLES
  box,    \* the request that waits
  taken,  \* the request this boot has taken
  up      \* has this boot looked?

Init == box = Nothing /\ taken = Nothing /\ up = FALSE

(* A restart, with a new request or with none.                             *)
Restart ==
  /\ up
  /\ box' \in Requests \cup {Nothing, box}
  /\ taken' = Nothing
  /\ up' = FALSE

(* A boot looks: it takes what waits, or drops it.                         *)
Look ==
  /\ ~up
  /\ taken' \in {box, Nothing}
  /\ box' = Nothing
  /\ up' = TRUE

Leave ==
  /\ MayWait /\ ~up
  /\ up' = TRUE
  /\ UNCHANGED <<box, taken>>

PowerLoss == box' = Nothing /\ taken' = Nothing /\ up' = FALSE

Next == Restart \/ Look \/ Leave \/ PowerLoss

Spec == Init /\ [][Next]_<<box, taken, up>>
=============================================================================
