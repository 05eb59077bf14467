------------------------------ MODULE NsxTimer ------------------------------
(***************************************************************************)
(* One Apollo4 hardware timer: nsx_timer.c, apollo4/nsx_timer_ap4.c and    *)
(* the entry of nsx_interrupt.c for the timer's interrupt line.            *)
(*                                                                         *)
(* Several configuration objects name the timer.  Foreground code makes    *)
(* one lifecycle call at a time; the interrupt can be taken between any    *)
(* two of its HAL calls unless interrupts are masked, and runs to its end. *)
(* A HAL call either does its work or fails and does nothing.  The status  *)
(* of the last call that returned is in ret.                               *)
(***************************************************************************)
CONSTANTS
  Config,     \* the nsx_timer_config_t objects that name this timer
  NoConfig    \* NULL

ASSUME ConfigAssumption == NoConfig \notin Config

VARIABLES
  \* the driver
  owner,            \* nsx_timer_config[timer]
  ready,            \* s_timer_state[timer].ready
  interrupt,        \* s_timer_state[timer].interrupt
  callback,         \* the object whose callback is saved, or NoConfig
  irqCtx,           \* g_nsx_irq_table[irqn]: ctx, NoConfig if no handler
  enableInterrupt,  \* cfg->enableInterrupt, set by the caller
  \* the hardware
  counting,         \* the counter runs
  compareEnabled,   \* its compare interrupt is enabled
  compareFlag,      \* its compare interrupt status
  nvicEnabled,
  nvicPending,
  masked,           \* PRIMASK
  \* the two contexts
  pc,               \* where the foreground's lifecycle call stands
  cfg,              \* its argument
  reinit,           \* platform_deinit was called by init_locked
  ret,              \* status of the last lifecycle call
  active,           \* the object whose callback is running, or NoConfig
  usable            \* objects whose init succeeded and that nothing released

driver == <<owner, ready, interrupt, callback>>
line == <<irqCtx, nvicEnabled, nvicPending>>
timer == <<counting, compareEnabled, compareFlag>>
call == <<pc, cfg, reinit, ret, masked>>
timerVars == <<driver, line, timer, call, enableInterrupt, active, usable>>

Objects == Config \cup {NoConfig}

-----------------------------------------------------------------------------
(* The foreground runs only when no handler does.                          *)
At(place) == pc = place /\ active = NoConfig

Goto(place) == pc' = place /\ UNCHANGED <<cfg, reinit, ret, masked>>

(* Return to the caller; nsx_timer_platform_init restores its mask.        *)
Return(status) ==
  /\ pc' = "idle" /\ ret' = status /\ masked' = FALSE
  /\ UNCHANGED <<cfg, reinit>>

(* TIMER_TRY: the HAL call fails.                                          *)
Fails == Return("HAL_ERROR") /\ UNCHANGED <<driver, line, timer, usable>>

(* The line follows the timer: it pends again while the source is active.  *)
Repend(flag) == nvicPending' = (flag /\ compareEnabled)

-----------------------------------------------------------------------------
(* nsx_timer_init.                                                         *)

(* The validation in nsx_timer_init rejects the object.                    *)
RejectInit(c) ==
  /\ At("idle")
  /\ ret' = "INVALID_CONFIG"
  /\ cfg' = c
  /\ UNCHANGED <<driver, line, timer, usable, pc, reinit, masked>>

CallInit(c) ==
  /\ At("idle")
  /\ pc' = "claim" /\ cfg' = c /\ masked' = TRUE /\ reinit' = FALSE
  /\ usable' = usable \ {c}
  /\ UNCHANGED <<driver, line, timer, ret>>

(* Mutant: the early return does not restore the interrupt mask.           *)
InUseStaysMasked ==
  /\ At("claim") /\ owner \notin {NoConfig, cfg}
  /\ pc' = "idle" /\ ret' = "IN_USE"
  /\ UNCHANGED <<driver, line, timer, usable, cfg, reinit, masked>>

InUse ==
  /\ At("claim") /\ owner \notin {NoConfig, cfg}
  /\ Return("IN_USE")
  /\ UNCHANGED <<driver, line, timer, usable>>

Reserve ==
  /\ owner' = cfg
  /\ ready' = FALSE
  /\ interrupt' = enableInterrupt[cfg]
  /\ callback' = IF enableInterrupt[cfg] THEN cfg ELSE NoConfig
  /\ Goto("configure")
  /\ UNCHANGED <<line, timer, usable>>

(* Mutant: a reserved timer is taken over.                                 *)
ClaimAnyway == At("claim") /\ owner # cfg /\ Reserve

Claim == At("claim") /\ owner = NoConfig /\ Reserve

(* The release that precedes a second init of the same object.             *)
ReleaseFirst ==
  /\ At("claim") /\ owner = cfg
  /\ ready' = FALSE
  /\ pc' = IF interrupt THEN "unregister" ELSE "stop"
  /\ reinit' = TRUE
  /\ UNCHANGED <<owner, interrupt, callback, line, timer, usable, cfg, ret, masked>>

(* default_config_set, config and clear: none touches what is modelled.    *)
Configure ==
  /\ At("configure")
  /\ \/ /\ Goto(IF enableInterrupt[cfg] THEN "intClear" ELSE "start")
        /\ UNCHANGED <<driver, line, timer, usable>>
     \/ Fails

IntClear ==
  /\ At("intClear")
  /\ \/ /\ compareFlag' = FALSE
        /\ Goto("intEnable")
        /\ UNCHANGED <<driver, line, counting, compareEnabled, usable>>
     \/ Fails

IntEnable ==
  /\ At("intEnable")
  /\ \/ /\ compareEnabled' = TRUE
        /\ nvicPending' = (nvicPending \/ compareFlag)
        /\ Goto("register")
        /\ UNCHANGED <<driver, irqCtx, nvicEnabled, counting, compareFlag, usable>>
     \/ Fails

(* nsx_irq_register; it cannot fail with the arguments it is given here.   *)
Register ==
  /\ At("register")
  /\ irqCtx' = cfg
  /\ nvicEnabled' = TRUE
  /\ Repend(compareFlag)
  /\ Goto("start")
  /\ UNCHANGED <<driver, timer, usable>>

(* Mutant: success is returned before ready is published.                  *)
StartNotReady ==
  /\ At("start")
  /\ \/ /\ counting' = TRUE
        /\ usable' = usable \cup {cfg}
        /\ Return("SUCCESS")
        /\ UNCHANGED <<driver, line, compareEnabled, compareFlag>>
     \/ Fails

Start ==
  /\ At("start")
  /\ \/ /\ counting' = TRUE
        /\ ready' = TRUE
        /\ usable' = usable \cup {cfg}
        /\ Return("SUCCESS")
        /\ UNCHANGED <<owner, interrupt, callback, line, compareEnabled, compareFlag>>
     \/ Fails

-----------------------------------------------------------------------------
(* nsx_timer_deinit.                                                       *)

CallDeinit(c) ==
  /\ At("idle")
  /\ cfg' = c /\ reinit' = FALSE
  /\ IF owner = c
     THEN /\ ready' = FALSE
          /\ pc' = IF interrupt THEN "unregister" ELSE "stop"
          /\ usable' = usable \ {c}
          /\ UNCHANGED <<ret, owner, interrupt, callback>>
     ELSE /\ ret' = IF owner = NoConfig THEN "SUCCESS" ELSE "INVALID_CONFIG"
          /\ UNCHANGED <<pc, driver, usable>>
  /\ UNCHANGED <<line, timer, masked>>

(* nsx_irq_unregister: the line is off before the entry is cleared.        *)
Unregister ==
  /\ At("unregister")
  /\ nvicEnabled' = FALSE
  /\ irqCtx' = NoConfig
  /\ Goto("intDisable")
  /\ UNCHANGED <<driver, nvicPending, timer, usable>>

IntDisable ==
  /\ At("intDisable")
  /\ \/ /\ compareEnabled' = FALSE
        /\ Goto("stop")
        /\ UNCHANGED <<driver, line, counting, compareFlag, usable>>
     \/ Fails

Stop ==
  /\ At("stop")
  /\ \/ /\ counting' = FALSE
        /\ Goto("ack")
        /\ UNCHANGED <<driver, line, compareEnabled, compareFlag, usable>>
     \/ Fails

(* Mutant: the status is not cleared after the counter has stopped.        *)
AckSkipped ==
  /\ At("ack")
  /\ Goto(IF interrupt THEN "clearPending" ELSE "release")
  /\ UNCHANGED <<driver, line, timer, usable>>

Ack ==
  /\ At("ack")
  /\ \/ /\ compareFlag' = FALSE
        /\ Goto(IF interrupt THEN "clearPending" ELSE "release")
        /\ UNCHANGED <<driver, line, compareEnabled, counting, usable>>
     \/ Fails

ClearPending ==
  /\ At("clearPending")
  /\ Repend(compareFlag)
  /\ Goto("release")
  /\ UNCHANGED <<driver, irqCtx, nvicEnabled, timer, usable>>

(* The owner is dropped last; a second init goes on with the new claim.    *)
Release ==
  /\ At("release")
  /\ \/ /\ ~reinit
        /\ owner' = NoConfig
        /\ Return("SUCCESS")
        /\ UNCHANGED <<ready, interrupt, callback, line, timer, usable>>
     \/ reinit /\ Reserve

-----------------------------------------------------------------------------
(* The interrupt, and the hardware.                                        *)

(* An interrupt that the processor would take.                             *)
Waiting == ~masked /\ nvicEnabled /\ nvicPending

(* The entry of the vector table names an object that owns the timer.      *)
Mine == irqCtx # NoConfig /\ owner = irqCtx

(* Mutant: the handler does not look at ready.                             *)
IsrEnterUnready ==
  /\ Waiting /\ active = NoConfig
  /\ compareFlag' = (compareFlag /\ ~Mine)
  /\ active' = IF Mine /\ callback # NoConfig THEN irqCtx ELSE NoConfig
  /\ Repend(compareFlag')
  /\ UNCHANGED <<irqCtx, nvicEnabled, counting, compareEnabled>>

(* Mutant: a suppressed interrupt is not acknowledged.                     *)
IsrEnterUnacknowledged ==
  /\ Waiting /\ active = NoConfig
  /\ compareFlag' = (compareFlag /\ ~(Mine /\ ready))
  /\ active' = IF Mine /\ ready /\ callback # NoConfig THEN irqCtx ELSE NoConfig
  /\ Repend(compareFlag')
  /\ UNCHANGED <<irqCtx, nvicEnabled, counting, compareEnabled>>

(* nsx_irq_dispatch and nsx_timer_irq_handler, up to the callback.         *)
IsrEnter ==
  /\ Waiting /\ active = NoConfig
  /\ compareFlag' = (compareFlag /\ ~Mine)
  /\ active' = IF Mine /\ ready /\ callback # NoConfig THEN irqCtx ELSE NoConfig
  /\ Repend(compareFlag')
  /\ UNCHANGED <<irqCtx, nvicEnabled, counting, compareEnabled>>

IsrReturn ==
  /\ active # NoConfig
  /\ active' = NoConfig
  /\ UNCHANGED <<line, timer>>

(* The counter reaches compare 1.                                          *)
Tick ==
  /\ counting /\ ~compareFlag
  /\ compareFlag' = TRUE
  /\ nvicPending' = (nvicPending \/ compareEnabled)
  /\ UNCHANGED <<counting, compareEnabled, irqCtx, nvicEnabled, active>>

-----------------------------------------------------------------------------
TimerInit ==
  /\ owner = NoConfig /\ ready = FALSE /\ interrupt = FALSE /\ callback = NoConfig
  /\ irqCtx = NoConfig /\ nvicEnabled = FALSE /\ nvicPending = FALSE
  /\ counting = FALSE /\ compareEnabled = FALSE /\ compareFlag = FALSE
  /\ pc = "idle" /\ cfg = NoConfig /\ reinit = FALSE /\ ret = "SUCCESS"
  /\ masked = FALSE
  /\ enableInterrupt \in [Config -> BOOLEAN]
  /\ active = NoConfig
  /\ usable = {}

(* What the call that is under way does next.                              *)
Lifecycle ==
  /\ \/ InUse \/ Claim \/ ReleaseFirst
     \/ Configure \/ IntClear \/ IntEnable \/ Register \/ Start
     \/ Unregister \/ IntDisable \/ Stop \/ Ack \/ ClearPending \/ Release
  /\ UNCHANGED <<enableInterrupt, active>>

Calls(c) ==
  /\ CallInit(c) \/ RejectInit(c) \/ CallDeinit(c)
  /\ UNCHANGED <<enableInterrupt, active>>

Handler == (IsrEnter \/ IsrReturn) /\ UNCHANGED <<driver, call, enableInterrupt, usable>>
Hardware == Tick /\ UNCHANGED <<driver, call, enableInterrupt, usable>>

(* Between calls a caller may switch its object's interrupt on or off.     *)
Reconfigure(c) ==
  /\ At("idle")
  /\ enableInterrupt' = [enableInterrupt EXCEPT ![c] = ~@]
  /\ UNCHANGED <<driver, line, timer, call, active, usable>>

Next ==
  \/ \E c \in Config : Calls(c) \/ Reconfigure(c)
  \/ Lifecycle \/ Handler \/ Hardware

(* The handler goes first: a pending interrupt that is repeatedly unmasked *)
(* is taken, and the handler returns.  A lifecycle call proceeds if time   *)
(* and again no interrupt is waiting.                                      *)
Fairness == SF_timerVars(Handler) /\ SF_timerVars(Lifecycle /\ ~Waiting)

Spec == TimerInit /\ [][Next]_timerVars /\ Fairness

-----------------------------------------------------------------------------
Places ==
  {"idle", "claim", "configure", "intClear", "intEnable", "register", "start",
   "unregister", "intDisable", "stop", "ack", "clearPending", "release"}
Statuses == {"SUCCESS", "IN_USE", "INVALID_CONFIG", "HAL_ERROR"}

(* The types of the driver's state, of the hardware's and of the calls;    *)
(* interrupts are masked in an init only.                                  *)
TypeOK ==
  /\ owner \in Objects /\ ready \in BOOLEAN /\ interrupt \in BOOLEAN
  /\ callback \in Objects /\ irqCtx \in Objects
  /\ enableInterrupt \in [Config -> BOOLEAN]
  /\ nvicEnabled \in BOOLEAN /\ nvicPending \in BOOLEAN /\ masked \in BOOLEAN
  /\ counting \in BOOLEAN /\ compareEnabled \in BOOLEAN /\ compareFlag \in BOOLEAN
  /\ pc \in Places /\ cfg \in Objects /\ reinit \in BOOLEAN /\ ret \in Statuses
  /\ active \in Objects /\ usable \subseteq Config
  /\ masked => pc # "idle"

(* An object whose init returned success keeps a working timer until it is *)
(* passed to another lifecycle call, whatever other objects ask for and    *)
(* whichever of their calls fail (README "Apollo4 lifecycle").  So at most *)
(* one object has the timer.                                               *)
UsableIsServed ==
  \A c \in usable :
    /\ owner = c /\ ready /\ counting
    /\ interrupt => callback = c /\ compareEnabled /\ nvicEnabled /\ irqCtx = c

(* Nothing of a released timer is left behind: not in the hardware, and no *)
(* pointer to the released object in the vector table, although every HAL  *)
(* call of a release, or of the init before it, may have failed and been   *)
(* retried (nsx_timer.h:85 "retry deinit before reusing the timer").       *)
QuietWhenFree ==
  /\ irqCtx # NoConfig => owner = irqCtx
  /\ owner = NoConfig =>
       /\ irqCtx = NoConfig /\ ~nvicEnabled /\ ~nvicPending
       /\ ~counting /\ ~compareEnabled /\ ~compareFlag

(* "Callbacks are suppressed during release" (nsx_timer.h:86) and until    *)
(* setup completes: a callback runs only for an object that is usable.     *)
CallbackIsUsable == active # NoConfig => active \in usable /\ interrupt

(* Every lifecycle call returns.  The line is level-driven and a handler   *)
(* goes first, so this needs that "an owned timer interrupt is             *)
(* acknowledged even while its callback is suppressed" (README "Apollo4    *)
(* lifecycle"): else it would be taken for ever in the middle of a release.*)
CallReturns == pc # "idle" ~> pc = "idle"

(* A compare of a usable interrupt timer is delivered, or a caller gives   *)
(* the timer up first.                                                     *)
Delivered ==
  \A c \in Config :
    (c \in usable /\ interrupt /\ compareFlag) ~> (active = c \/ c \notin usable)
=============================================================================
