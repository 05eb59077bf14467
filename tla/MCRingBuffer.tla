---------------------------- MODULE MCRingBuffer ----------------------------
(* A three-byte ring buffer, pushes of up to five bytes (so that one call  *)
(* can wrap the storage twice), pops and frames of one to four bytes, or   *)
(* of none to two.                                                         *)
EXTENDS NsxRingBuffer

MCPopSizes == 1..4
MCZeroSizes == 0..2
=============================================================================
