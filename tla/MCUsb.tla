-------------------------------- MODULE MCUsb --------------------------------
(* A CDC FIFO of two bytes: one may be left behind when one is read.       *)
EXTENDS NsxUsb

MCRoom == [cdc |-> 2, vendor |-> 1]
=============================================================================
