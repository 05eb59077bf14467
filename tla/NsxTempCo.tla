------------------------------ MODULE NsxTempCo ------------------------------
(***************************************************************************)
(* The TempCo helper of nsx-power, apollo4/nsx_power_tempco.c, on top of   *)
(* the timer it shares with the rest of the program.                       *)
(*                                                                         *)
(* enable and disable are staged: every HAL call is a step that may fail,  *)
(* and the timer's interrupt may be taken between two of them.  The timer  *)
(* calls they make are those of NsxTimer, step by step; other objects may  *)
(* hold or claim the same timer between calls.  A callback runs to its end *)
(* before the foreground continues, so it is one step.  The ADC is the     *)
(* HAL's, as the calls in this file use it.                                *)
(***************************************************************************)
EXTENDS NsxTimer

CONSTANT TempCoCfg   \* s_nsx_power_tempco_timer

ASSUME TempCoAssumption == TempCoCfg \in Config

VARIABLES
  st,      \* s_nsx_power_tempco; cleanupOk and handlerOk say that
           \* cleanup_status and last_handler_status are SUCCESS
  adc,     \* the ADC: handed out, powered, registers saved, enabled
  tpc,     \* where the foreground's TempCo call stands
  within,  \* on whose behalf disable runs
  tret     \* what the last TempCo call returned

tempcoVars == <<st, adc, tpc, within, tret>>
allVars == <<timerVars, tempcoVars>>

(* The foreground is at `place' of a TempCo call and no timer call is      *)
(* under way inside it.                                                    *)
TAt(place) == tpc = place /\ At("idle")
TGoto(place) == tpc' = place /\ UNCHANGED <<within, tret>>
TReturn(status) == tpc' = "idle" /\ tret' = status /\ UNCHANGED within

-----------------------------------------------------------------------------
(* nsx_power_tempco_disable, called by the application, by enable before   *)
(* it allocates, or by enable after one of its steps has failed; in the    *)
(* last case enable returns its own error whatever disable returns.        *)

StartDisable(caller, s) ==
  /\ st' = [s EXCEPT !.initialized = FALSE, !.wanted = FALSE]
  /\ within' = caller
  /\ tpc' = IF st.resetRequired THEN "disableFailed" ELSE "timerDeinit"
  /\ UNCHANGED <<adc, tret>>

CallDisable == TAt("idle") /\ StartDisable("app", st)

DisableFailed ==
  /\ TAt("disableFailed")
  /\ TReturn("ERROR")
  /\ UNCHANGED <<st, adc>>

(* CLEANUP(operation) where `needed'; a failure is recorded and disable    *)
(* returns.                                                                *)
Cleanup(place, needed, stAfter, adcAfter, next) ==
  /\ TAt(place)
  /\ \/ needed /\ st' = stAfter /\ adc' = adcAfter /\ TGoto(next)
     \/ needed /\ st' = [st EXCEPT !.cleanupOk = FALSE] /\ UNCHANGED adc
               /\ TGoto("disableFailed")
     \/ ~needed /\ UNCHANGED <<st, adc>> /\ TGoto(next)

TimerReleased ==
  /\ TAt("timerReleased")
  /\ IF ret = "SUCCESS"
     THEN st' = [st EXCEPT !.timerAttempted = FALSE] /\ TGoto("wakePower")
     ELSE st' = [st EXCEPT !.cleanupOk = FALSE] /\ TGoto("disableFailed")
  /\ UNCHANGED adc

(* Mutant: the ADC of a suspended helper is not woken.                     *)
WakePowerSkipped ==
  Cleanup("wakePower", FALSE, st, adc, "adcDisable")

WakePower ==
  Cleanup("wakePower", st.adcHandle /\ st.suspended,
          st, [adc EXCEPT !.powered = TRUE], "wake")

Wake ==
  Cleanup("wake", st.adcHandle /\ st.suspended,
          [st EXCEPT !.suspended = FALSE],
          [adc EXCEPT !.powered = TRUE, !.retained = FALSE], "adcDisable")

AdcDisable ==
  Cleanup("adcDisable", st.adcHandle /\ st.enableAttempted,
          [st EXCEPT !.enableAttempted = FALSE],
          [adc EXCEPT !.enabled = FALSE], "powerOff")

PowerOff ==
  Cleanup("powerOff", st.adcHandle /\ st.powerAttempted,
          [st EXCEPT !.powerAttempted = FALSE],
          [adc EXCEPT !.powered = FALSE], "adcDeinit")

(* A disable that succeeds goes back to its caller.                        *)
Disabled ==
  IF within = "enable" THEN TGoto("support")
  ELSE TReturn(IF within = "app" THEN "SUCCESS" ELSE "ERROR")

(* The HAL can invalidate the handle even when deinitialize fails.         *)
AdcDeinit ==
  /\ TAt("adcDeinit")
  /\ \/ /\ adc' = [adc EXCEPT !.open = @ /\ ~st.adcHandle]
        /\ st' = [st EXCEPT !.adcHandle = FALSE, !.cleanupOk = TRUE]
        /\ Disabled
     \/ /\ st.adcHandle
        /\ adc' \in {adc, [adc EXCEPT !.open = FALSE]}
        /\ st' = [st EXCEPT !.cleanupOk = FALSE, !.resetRequired = TRUE]
        /\ TGoto("disableFailed")

-----------------------------------------------------------------------------
(* nsx_power_tempco_enable.                                                *)

CallEnable ==
  /\ TAt("idle")
  /\ IF st.initialized
     THEN /\ st' = [st EXCEPT !.wanted = TRUE]
          /\ TReturn("SUCCESS")
          /\ UNCHANGED adc
     ELSE StartDisable("enable", st)

CheckSupport ==
  /\ TAt("support")
  /\ TGoto("adcInit") \/ TReturn("ERROR")
  /\ UNCHANGED <<st, adc>>

AdcInitialize ==
  /\ TAt("adcInit")
  /\ \/ /\ st' = [st EXCEPT !.adcHandle = TRUE, !.powerAttempted = TRUE]
        /\ adc' = [adc EXCEPT !.open = TRUE]
        /\ TGoto("power")
     \/ TReturn("ERROR") /\ UNCHANGED <<st, adc>>

(* SETUP(operation); a failure releases what has been attempted so far.    *)
Setup(place, stAfter, adcAfter, next) ==
  /\ TAt(place)
  /\ \/ st' = stAfter /\ adc' = adcAfter /\ TGoto(next)
     \/ StartDisable("failed", st)

Power == Setup("power", st, [adc EXCEPT !.powered = TRUE], "setupWake")
SetupWake == Setup("setupWake", st, [adc EXCEPT !.powered = TRUE], "configure")

(* adc_configure, then tempco_init.                                        *)
ConfigureAdc == Setup("configure", st, adc, "tempcoInit")

(* Mutant: enable_attempted is set when adc_enable has succeeded and the   *)
(* timer has been started, not before the call.                            *)
TempCoInitUnmarked == Setup("tempcoInit", st, adc, "adcEnable")

TempCoInit == Setup("tempcoInit", [st EXCEPT !.enableAttempted = TRUE], adc, "adcEnable")

AdcEnable == Setup("adcEnable", st, [adc EXCEPT !.enabled = TRUE], "timerInit")

(* Mutant: any failure of the timer's init is taken for IN_USE.            *)
TimerDoneForgets ==
  /\ TAt("timerDone")
  /\ IF ret = "SUCCESS"
     THEN st' = [st EXCEPT !.handlerOk = TRUE] /\ TGoto("publish") /\ UNCHANGED adc
     ELSE StartDisable("failed", [st EXCEPT !.timerAttempted = FALSE])

TimerDone ==
  /\ TAt("timerDone")
  /\ IF ret = "SUCCESS"
     THEN st' = [st EXCEPT !.handlerOk = TRUE] /\ TGoto("publish") /\ UNCHANGED adc
     ELSE StartDisable("failed", [st EXCEPT !.timerAttempted = ret # "IN_USE"])

(* With interrupts masked.                                                 *)
Publish ==
  /\ TAt("publish")
  /\ st' = [st EXCEPT !.wanted = TRUE, !.initialized = TRUE]
  /\ TReturn("SUCCESS")
  /\ UNCHANGED adc

-----------------------------------------------------------------------------
(* nsx_power_tempco_prepare_for_sleep, masked: its effect on the helper    *)
(* whose record is `s', with the ADC `a'.                                  *)
Sleeps(s, a) ==
  IF ~s.wanted \/ ~s.initialized \/ ~s.adcHandle \/ s.suspended
  THEN st' = s /\ adc' = a
  ELSE \/ /\ st' = [s EXCEPT !.suspended = TRUE]
          /\ adc' = [a EXCEPT !.powered = FALSE, !.retained = TRUE]
       \/ /\ st' = [s EXCEPT !.handlerOk = FALSE]
          /\ adc' = a

(* Before the processor sleeps.                                            *)
PrepareForSleep ==
  /\ TAt("idle")
  /\ Sleeps(st, adc)
  /\ UNCHANGED <<tpc, within, tret>>

(* wake, enable, capture and apply, sleep again; any of it may fail.       *)
Sample ==
  \/ /\ st' = [st EXCEPT !.handlerOk = FALSE]   \* the wake fails
     /\ UNCHANGED adc
  \/ \E ok, enables \in BOOLEAN :
       /\ ok => enables
       /\ Sleeps([st EXCEPT !.suspended = FALSE, !.handlerOk = ok],
                 [adc EXCEPT !.powered = TRUE, !.retained = FALSE,
                             !.enabled = @ \/ enables])

(* Mutant: the callback looks at the handle only.                          *)
CallbackUnguarded == IF st.adcHandle THEN Sample ELSE UNCHANGED <<st, adc>>

Callback ==
  IF st.initialized /\ st.adcHandle THEN Sample ELSE UNCHANGED <<st, adc>>

-----------------------------------------------------------------------------
(* The timer calls of the two, and the rest of the program.                *)

(* st.timerAttempted decides; the call may return at once.                 *)
TimerDeinit ==
  /\ TAt("timerDeinit")
  /\ \/ st.timerAttempted /\ CallDeinit(TempCoCfg) /\ TGoto("timerReleased")
     \/ ~st.timerAttempted /\ UNCHANGED <<driver, line, timer, call, usable>>
                           /\ TGoto("wakePower")
  /\ UNCHANGED <<st, adc, enableInterrupt, active>>

TimerInitCall ==
  /\ TAt("timerInit")
  /\ CallInit(TempCoCfg)
  /\ st' = [st EXCEPT !.timerAttempted = TRUE]
  /\ TGoto("timerDone")
  /\ UNCHANGED <<adc, enableInterrupt, active>>

(* A TempCo step that is no timer call.                                    *)
TempCoStep ==
  /\ \/ CallDisable \/ DisableFailed \/ TimerReleased
     \/ WakePower \/ Wake \/ AdcDisable \/ PowerOff \/ AdcDeinit
     \/ CallEnable \/ CheckSupport \/ AdcInitialize
     \/ Power \/ SetupWake \/ ConfigureAdc \/ TempCoInit \/ AdcEnable
     \/ TimerDone \/ Publish
     \/ PrepareForSleep
  /\ UNCHANGED timerVars

(* Other objects use the timer while no TempCo call is under way.          *)
Others ==
  /\ tpc = "idle"
  /\ \E c \in Config \ {TempCoCfg} : Calls(c) \/ Reconfigure(c)
  /\ UNCHANGED tempcoVars

(* The handler; its callback is ours if the object is.                     *)
Interrupt ==
  /\ Handler
  /\ IF active = TempCoCfg THEN Callback ELSE UNCHANGED <<st, adc>>
  /\ UNCHANGED <<tpc, within, tret>>

TempCoInitState ==
  /\ TimerInit
  /\ enableInterrupt[TempCoCfg]
  /\ st = [initialized |-> FALSE, wanted |-> FALSE, suspended |-> FALSE,
           adcHandle |-> FALSE, timerAttempted |-> FALSE, powerAttempted |-> FALSE,
           enableAttempted |-> FALSE, cleanupOk |-> TRUE, resetRequired |-> FALSE,
           handlerOk |-> TRUE]
  /\ adc = [open |-> FALSE, powered |-> FALSE, retained |-> FALSE, enabled |-> FALSE]
  /\ tpc = "idle" /\ within = "app" /\ tret = "SUCCESS"

TempCoNext ==
  \/ TempCoStep \/ TimerDeinit \/ TimerInitCall
  \/ (Lifecycle \/ Hardware) /\ UNCHANGED tempcoVars
  \/ Interrupt
  \/ Others

TempCoSpec == TempCoInitState /\ [][TempCoNext]_allVars

-----------------------------------------------------------------------------
TempCoPlaces ==
  {"idle", "timerDeinit", "timerReleased", "wakePower", "wake", "adcDisable",
   "powerOff", "adcDeinit", "disableFailed", "support", "adcInit", "power",
   "setupWake", "configure", "tempcoInit", "adcEnable", "timerInit",
   "timerDone", "publish"}

(* The types, and no TempCo call is under way while another object's is.   *)
TempCoTypeOK ==
  /\ TypeOK
  /\ st \in [initialized : BOOLEAN, wanted : BOOLEAN, suspended : BOOLEAN,
             adcHandle : BOOLEAN, timerAttempted : BOOLEAN, powerAttempted : BOOLEAN,
             enableAttempted : BOOLEAN, cleanupOk : BOOLEAN, resetRequired : BOOLEAN,
             handlerOk : BOOLEAN]
  /\ adc \in [open : BOOLEAN, powered : BOOLEAN, retained : BOOLEAN, enabled : BOOLEAN]
  /\ tpc \in TempCoPlaces /\ within \in {"app", "enable", "failed"}
  /\ tret \in {"SUCCESS", "ERROR"}
  /\ pc # "idle" /\ cfg = TempCoCfg => tpc \in {"timerReleased", "timerDone"}

(* Every HAL call on the ADC finds it as the HAL requires, in the          *)
(* foreground's steps and in a callback that interrupts any of them, after *)
(* any sequence of failures.  The requirements are the assertions of the   *)
(* HAL in tests/fixtures/tempco/main.c:90-131.                             *)
AdcCallsLegal ==
  /\ tpc \in {"setupWake", "configure", "tempcoInit", "adcEnable"} => adc.open /\ adc.powered
  /\ tpc = "power" => adc.open
  /\ tpc = "wake" /\ st.adcHandle /\ st.suspended =>
       adc.open /\ adc.powered /\ adc.retained
  /\ tpc = "adcDisable" /\ st.adcHandle /\ st.enableAttempted => adc.open /\ adc.powered
  /\ tpc = "powerOff" /\ st.adcHandle /\ st.powerAttempted => adc.open /\ ~adc.enabled
  /\ tpc = "adcDeinit" /\ st.adcHandle => adc.open /\ ~adc.powered /\ ~adc.enabled
  /\ st.initialized =>
       /\ adc.open
       /\ IF st.suspended THEN adc.retained ELSE adc.powered

(* "Callback access is suppressed during setup/cleanup": while a callback  *)
(* is served, the ADC only changes if no enable or disable is under way.   *)
SuppressedDuringCalls ==
  [][active = TempCoCfg /\ tpc # "idle" => UNCHANGED <<st, adc>>]_allVars

(* "If cleanup fails, resources remain reserved until cleanup succeeds":   *)
(* whatever is held, a flag remembers it for the next disable.             *)
NothingForgotten ==
  /\ adc.open => st.adcHandle
  /\ adc.powered \/ adc.retained => st.adcHandle /\ st.powerAttempted
  /\ adc.enabled => st.adcHandle /\ st.enableAttempted
  /\ owner = TempCoCfg => st.timerAttempted
  /\ ~st.adcHandle => ~st.suspended

(* "A later enable finishes pending cleanup before allocating again", and  *)
(* a call that leaves nothing to clean up leaves nothing behind.           *)
ReleasedBeforeReuse ==
  tpc \in {"support", "adcInit"} \/ (tpc = "idle" /\ ~st.initialized /\ st.cleanupOk) =>
    /\ ~adc.open /\ ~adc.powered /\ ~adc.retained /\ ~adc.enabled
    /\ owner # TempCoCfg
=============================================================================
