---------------------------- MODULE MCPromotion ----------------------------
(* Two versions; a run may fail, and fail again while it handles that.     *)
EXTENDS SdkPromotion
=============================================================================
