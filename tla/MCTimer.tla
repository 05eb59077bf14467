------------------------------ MODULE MCTimer ------------------------------
(* Three objects contend for the timer: its owner, one that waits to take  *)
(* it over, and one that is turned away.                                   *)
EXTENDS NsxTimer

MCConfig == {"owner", "next", "other"}
=============================================================================
