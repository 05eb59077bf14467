-------------------------------- MODULE MCPdm --------------------------------
(* Two configurations that name one microphone. *)
EXTENDS NsxPdm

MCCfg == {"first", "second"}
=============================================================================
