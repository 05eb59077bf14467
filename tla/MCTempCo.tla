------------------------------ MODULE MCTempCo ------------------------------
(* TempCo and one other user of timer 4.                                   *)
EXTENDS NsxTempCo

MCConfig == {"tempco", "other"}
MCTempCoCfg == "tempco"
=============================================================================
