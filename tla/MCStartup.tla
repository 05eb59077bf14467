----------------------------- MODULE MCStartup -----------------------------
(* The foreground and one more caller; both transports.                    *)
EXTENDS NsxStartup

MCCaller == {"main", "task"}
MCTransport == {"ITM", "UART"}
=============================================================================
