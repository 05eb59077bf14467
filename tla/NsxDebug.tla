------------------------------ MODULE NsxDebug ------------------------------
(***************************************************************************)
(* The debug transport of nsx-core, nsx_debug.c, and the wrappers of       *)
(* nsx_core_portable.c around it.                                          *)
(*                                                                         *)
(* Calls are serialized by the application (nsx_debug.c:6), but a call is  *)
(* not one step: an interrupt that prints through nsx_low_power_printf may *)
(* be taken before and after each platform call it makes.                  *)
(***************************************************************************)
CONSTANTS
  Transport,   \* NSX_DEBUG_ITM, NSX_DEBUG_UART
  None,        \* NSX_DEBUG_NONE
  Itm          \* NSX_DEBUG_ITM

ASSUME TransportAssumption == None \notin Transport /\ Itm \in Transport

VARIABLES
  sActive,     \* s_active
  sSelected,   \* s_selected
  sError,      \* s_error # 0
  link,        \* the hardware of each transport
  dpc,         \* where the debug call stands
  leaving,     \* the transport a call is disabling
  wanted       \* the transport a call is to enable, or None

debugVars == <<sActive, sSelected, sError, link, dpc, leaving, wanted>>

DebugIdle == dpc = "idle"

(* nsx_low_power_printf emits (nsx_debug_output_enabled).                  *)
OutputEnabled == sActive # None /\ ~sError

(* The call returns without a platform call.                               *)
Nothing == UNCHANGED debugVars

(* nsx_platform_debug_init is called; its setup may stop half way.         *)
Enabling(t) ==
  /\ dpc' = "enabling" /\ wanted' = t
  /\ link' = [link EXCEPT ![t] = "partial"]

(* s_active is dropped before the transport it names.                      *)
Leave(t, then) ==
  /\ sActive' = None
  /\ dpc' = "disabling" /\ leaving' = t /\ wanted' = then
  /\ UNCHANGED <<sSelected, sError, link>>

(* nsx_debug_disable.                                                      *)
DebugDisable(t) ==
  IF t # sActive \/ sActive = None \/ sError THEN Nothing ELSE Leave(t, None)

DebugSuspend == DebugDisable(sActive)

(* Mutant: the transport is published before it is set up.                 *)
DebugInitPublishesEarly(t) ==
  IF t = None \/ sError \/ t = sActive THEN Nothing
  ELSE IF sActive # None THEN Leave(sActive, t)
  ELSE Enabling(t) /\ sActive' = t /\ UNCHANGED <<sSelected, sError, leaving>>

(* Mutant: an earlier error does not stop the setup.                       *)
DebugInitUnchecked(t) ==
  IF t = None \/ t = sActive THEN Nothing
  ELSE IF sActive # None THEN Leave(sActive, t)
  ELSE Enabling(t) /\ UNCHANGED <<sActive, sSelected, sError, leaving>>

(* nsx_debug_init, of a valid transport.                                   *)
DebugInit(t) ==
  IF t = None \/ sError \/ t = sActive THEN Nothing
  ELSE IF sActive # None THEN Leave(sActive, t)
  ELSE Enabling(t) /\ UNCHANGED <<sActive, sSelected, sError, leaving>>

DebugResume == DebugInit(sSelected)

(* nsx_platform_debug_disable returns; a switch goes on with the wanted    *)
(* transport if it did its work.                                           *)
PlatformDisable ==
  /\ dpc = "disabling"
  /\ \/ /\ link' = [t \in Transport |-> IF t = leaving THEN "off"
                                      ELSE IF t = wanted THEN "partial" ELSE link[t]]
        /\ dpc' = IF wanted = None THEN "idle" ELSE "enabling"
        /\ UNCHANGED sError
     \/ /\ link' = [link EXCEPT ![leaving] = "partial"]
        /\ dpc' = "idle"
        /\ sError' = TRUE
  /\ UNCHANGED <<sActive, sSelected, leaving, wanted>>

(* nsx_platform_debug_init returns.                                        *)
PlatformInit ==
  /\ dpc = "enabling"
  /\ dpc' = "idle"
  /\ \/ /\ link' = [link EXCEPT ![wanted] = "up"]
        /\ sActive' = wanted /\ sSelected' = wanted
        /\ UNCHANGED sError
     \/ /\ sError' = TRUE
        /\ UNCHANGED <<link, sActive, sSelected>>
  /\ UNCHANGED <<leaving, wanted>>

DebugStep == PlatformDisable \/ PlatformInit

(* A call of the public API.                                               *)
DebugCall ==
  /\ DebugIdle
  /\ \/ \E t \in Transport : DebugInit(t) \/ DebugDisable(t)
     \/ DebugResume
     \/ DebugSuspend

DebugStart ==
  /\ sActive = None /\ sSelected = Itm /\ sError = FALSE
  /\ link = [t \in Transport |-> "off"]
  /\ dpc = "idle" /\ leaving = None /\ wanted = None

-----------------------------------------------------------------------------
DebugTypeOK ==
  /\ sActive \in Transport \cup {None} /\ sSelected \in Transport
  /\ sError \in BOOLEAN
  /\ link \in [Transport -> {"off", "partial", "up"}]
  /\ dpc \in {"idle", "disabling", "enabling"}
  /\ leaving \in Transport \cup {None} /\ wanted \in Transport \cup {None}

(* Whenever an interrupt may print, its output goes to a transport that is *)
(* fully set up and is the only one, in the middle of a switch included    *)
(* ("Only successful setup permits nsx_low_power_printf output. [...] On a *)
(* reported setup/disable error, output is suppressed", nsx_system.h:308). *)
OutputReachesItsTransport ==
  OutputEnabled =>
    /\ link[sActive] = "up"
    /\ \A t \in Transport \ {sActive} : link[t] = "off"
=============================================================================
