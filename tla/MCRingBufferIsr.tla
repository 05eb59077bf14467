-------------------------- MODULE MCRingBufferIsr --------------------------
(* A buffer of two or three bytes, bursts of up to one more, frames of one *)
(* or two.                                                                 *)
EXTENDS NsxRingBufferIsr

MCByte == 0..MaxBytes
MCPopSizes == 1..2
=============================================================================
