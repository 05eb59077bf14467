----------------------------- MODULE MCBleNotify -----------------------------
(* Two periodic characteristics and an asynchronous one: one too many for *)
(* a bonded peer that restores all three and its opening.                *)
EXTENDS NsxBleNotify
=============================================================================
