--------------------------- MODULE NsxTimerProofs ---------------------------
(***************************************************************************)
(* The invariants of NsxTimer hold for any number of configuration objects *)
(* and after any sequence of failures and interrupts.                      *)
(*                                                                         *)
(* None of them is inductive: that nothing is left behind when the owner   *)
(* is dropped depends on what each stage of a release has switched off,    *)
(* and that a usable object is served on what each stage of an init has    *)
(* switched on.  StagesInv says so, stage by stage.                        *)
(*                                                                         *)
(* TempCo uses the timer as anybody does, so these invariants carry over   *)
(* to it.  Its own, for any number of other objects that contend for its   *)
(* timer, need three additions: what the flags say of the ADC (HeldInv),   *)
(* what a call has set up or released at each of its places                *)
(* (TempCoPlaceInv), and what the timer call inside it has come to         *)
(* (LinkInv).                                                              *)
(***************************************************************************)
EXTENDS NsxTempCo, TLAPS

(* ********************* the timer by itself **************************** *)

(* Nothing of the timer is active.                                         *)
Quiet ==
  /\ irqCtx = NoConfig /\ ~nvicEnabled /\ ~nvicPending
  /\ ~counting /\ ~compareEnabled /\ ~compareFlag

SetupPlaces == {"configure", "intClear", "intEnable", "register", "start"}

(* The call that is under way and the object it is for.                    *)
CallInv ==
  /\ pc # "idle" => cfg \in Config /\ cfg \notin usable
  /\ pc \notin {"idle", "claim"} => owner = cfg /\ ~ready
  /\ pc = "claim" => masked

(* The vector table's entry and the line are set together, for the owner   *)
(* of an interrupt timer only.                                             *)
LineInv ==
  /\ nvicEnabled <=> irqCtx # NoConfig
  /\ irqCtx # NoConfig => owner = irqCtx /\ interrupt
  /\ ~interrupt => ~compareEnabled /\ ~nvicPending
  /\ callback # NoConfig => interrupt

(* What each stage of an init has switched on, and of a release off.       *)
StagesInv ==
  /\ pc \in SetupPlaces =>
       /\ interrupt <=> enableInterrupt[cfg]
       /\ interrupt => callback = cfg
  /\ pc \in {"configure", "intClear", "intEnable"} => Quiet
  /\ pc \in {"intClear", "intEnable", "register"} => interrupt
  /\ pc = "register" => compareEnabled
  /\ pc = "start" /\ interrupt => compareEnabled /\ irqCtx = cfg
  /\ pc \in {"intDisable", "stop", "ack", "clearPending", "release"} => irqCtx = NoConfig
  /\ pc \in {"stop", "ack", "clearPending", "release"} => ~compareEnabled
  /\ pc \in {"ack", "clearPending", "release"} => ~counting
  /\ pc \in {"clearPending", "release"} => ~compareFlag
  /\ pc = "release" => ~nvicPending

(* A timer is ready for a usable object; an init of that object makes it   *)
(* unusable with interrupts masked, until it has released the timer.       *)
ReadyInv ==
  ready => owner \in Config /\ (owner \in usable \/ (pc = "claim" /\ owner = cfg))

FreeInv == owner = NoConfig => Quiet

TimerInv ==
  /\ TypeOK /\ UsableIsServed /\ CallbackIsUsable
  /\ CallInv /\ LineInv /\ StagesInv /\ ReadyInv /\ FreeInv

-----------------------------------------------------------------------------
USE ConfigAssumption

LEMMA ObjectsFacts == NoConfig \in Objects /\ Config \subseteq Objects
  BY DEF Objects

(* The initial state.                                                      *)
LEMMA InitInv == TimerInit => TimerInv
  BY ObjectsFacts DEF TimerInit, TimerInv, TypeOK, Places, Statuses, UsableIsServed, CallbackIsUsable,
         CallInv, LineInv, StagesInv, SetupPlaces, ReadyInv, FreeInv, Quiet

(* A HAL call that fails, at any stage, ends the call and changes nothing  *)
(* else: what has been switched on or off stays so for the next call.      *)
LEMMA FailsInv ==
  ASSUME TimerInv, pc \notin {"idle", "claim"}, Fails, UNCHANGED <<enableInterrupt, active>>
  PROVE  TimerInv'
<1>0. TypeOK /\ UsableIsServed /\ CallbackIsUsable /\ CallInv /\ LineInv
     /\ StagesInv /\ ReadyInv /\ FreeInv
  BY DEF TimerInv
<1>p. /\ pc' \in Places /\ ret' \in Statuses /\ ~masked' /\ masked' \in BOOLEAN
      /\ UNCHANGED <<owner, ready, interrupt, callback, irqCtx, nvicEnabled, nvicPending,
                    counting, compareEnabled, compareFlag, cfg, reinit, usable,
                    enableInterrupt, active>>
  BY DEF Fails, Return, driver, line, timer, Places, Statuses
<1>1. TypeOK'
  BY <1>0, <1>p DEF TypeOK
<1> USE <1>0 DEF Fails, Return, driver, line, timer
<1>2. UsableIsServed'
  BY DEF UsableIsServed, CallInv, StagesInv, SetupPlaces
<1>3. CallbackIsUsable'
  BY DEF CallbackIsUsable
<1>4. CallInv'
  BY DEF CallInv
<1>5. LineInv'
  BY DEF LineInv
<1>6. StagesInv'
  BY DEF StagesInv, SetupPlaces, Quiet, CallInv, LineInv, FreeInv
<1>7. ReadyInv'
  BY DEF ReadyInv, CallInv
<1>8. FreeInv'
  BY DEF FreeInv, Quiet, CallInv, StagesInv
<1> QED
  BY <1>1, <1>2, <1>3, <1>4, <1>5, <1>6, <1>7, <1>8 DEF TimerInv

(* Every step of a call that is under way.                                 *)
LEMMA LifecycleInv == TimerInv /\ Lifecycle => TimerInv'
<1> SUFFICES ASSUME TimerInv, Lifecycle PROVE TimerInv'
  OBVIOUS
<1>0. UNCHANGED <<enableInterrupt, active>>
  BY DEF Lifecycle
<1>1. TypeOK /\ UsableIsServed /\ CallbackIsUsable /\ CallInv /\ LineInv
     /\ StagesInv /\ ReadyInv /\ FreeInv
  BY DEF TimerInv
<1>2. CASE /\ Fails
           /\ Configure \/ IntClear \/ IntEnable \/ Start \/ IntDisable \/ Stop \/ Ack
  BY <1>0, <1>2, FailsInv DEF Configure, IntClear, IntEnable, Start, IntDisable, Stop, Ack, At
<1> USE <1>0 DEF driver, line, timer, At, Goto
<1>3. CASE InUse
  <2> USE <1>3 DEF InUse, Return
  <2>p. pc' \in Places
    BY DEF Places
  <2>1. TypeOK'
    BY <1>1, <2>p DEF TypeOK, Statuses
  <2>2. UsableIsServed'
    BY <1>1 DEF UsableIsServed, CallInv, StagesInv, SetupPlaces
  <2>3. CallbackIsUsable'
    BY <1>1 DEF CallbackIsUsable
  <2>4. CallInv'
    BY <1>1 DEF CallInv
  <2>5. LineInv'
    BY <1>1 DEF LineInv
  <2>6. StagesInv'
    BY <1>1 DEF StagesInv, SetupPlaces, Quiet, CallInv, LineInv, FreeInv
  <2>7. ReadyInv'
    BY <1>1 DEF ReadyInv, CallInv
  <2>8. FreeInv'
    BY <1>1 DEF FreeInv, Quiet, CallInv, StagesInv
  <2> QED
    BY <2>1, <2>2, <2>3, <2>4, <2>5, <2>6, <2>7, <2>8 DEF TimerInv
<1>4. CASE Claim
  <2> USE <1>4 DEF Claim, Reserve
  <2>p. pc' \in Places
    BY DEF Places
  <2>q. cfg \in Config /\ enableInterrupt[cfg] \in BOOLEAN
    BY <1>1 DEF TypeOK, CallInv
  <2>1. TypeOK'
    BY ObjectsFacts, <1>1, <2>p, <2>q DEF TypeOK
  <2>2. UsableIsServed'
    BY <1>1 DEF UsableIsServed, TypeOK
  <2>3. CallbackIsUsable'
    BY <1>1 DEF CallbackIsUsable
  <2>4. CallInv'
    BY <1>1 DEF CallInv
  <2>5. LineInv'
    BY <1>1 DEF LineInv, FreeInv, Quiet
  <2>6. StagesInv'
    BY <1>1 DEF StagesInv, SetupPlaces, Quiet, CallInv, LineInv, FreeInv
  <2>7. ReadyInv'
    BY <1>1 DEF ReadyInv, CallInv
  <2>8. FreeInv'
    BY <1>1 DEF FreeInv, Quiet, CallInv, StagesInv
  <2> QED
    BY <2>1, <2>2, <2>3, <2>4, <2>5, <2>6, <2>7, <2>8 DEF TimerInv
<1>5. CASE ReleaseFirst
  <2> USE <1>5 DEF ReleaseFirst
  <2>p. pc' \in Places
    BY DEF Places
  <2>1. TypeOK'
    BY <1>1, <2>p DEF TypeOK
  <2>2. UsableIsServed'
    BY <1>1 DEF UsableIsServed, CallInv, StagesInv, SetupPlaces
  <2>3. CallbackIsUsable'
    BY <1>1 DEF CallbackIsUsable
  <2>4. CallInv'
    BY <1>1 DEF CallInv
  <2>5. LineInv'
    BY <1>1 DEF LineInv
  <2>6. StagesInv'
    BY <1>1 DEF StagesInv, SetupPlaces, Quiet, CallInv, LineInv, FreeInv
  <2>7. ReadyInv'
    BY <1>1 DEF ReadyInv, CallInv
  <2>8. FreeInv'
    BY <1>1 DEF FreeInv, Quiet, CallInv, StagesInv
  <2> QED
    BY <2>1, <2>2, <2>3, <2>4, <2>5, <2>6, <2>7, <2>8 DEF TimerInv
<1>6. CASE Configure /\ ~Fails
  <2> USE <1>6 DEF Configure
  <2>p. pc' \in Places
    BY DEF Places
  <2>1. TypeOK'
    BY <1>1, <2>p DEF TypeOK
  <2>2. UsableIsServed'
    BY <1>1 DEF UsableIsServed, CallInv, StagesInv, SetupPlaces
  <2>3. CallbackIsUsable'
    BY <1>1 DEF CallbackIsUsable
  <2>4. CallInv'
    BY <1>1 DEF CallInv
  <2>5. LineInv'
    BY <1>1 DEF LineInv
  <2>6. StagesInv'
    BY <1>1 DEF StagesInv, SetupPlaces, Quiet, CallInv, LineInv, FreeInv
  <2>7. ReadyInv'
    BY <1>1 DEF ReadyInv, CallInv
  <2>8. FreeInv'
    BY <1>1 DEF FreeInv, Quiet, CallInv, StagesInv
  <2> QED
    BY <2>1, <2>2, <2>3, <2>4, <2>5, <2>6, <2>7, <2>8 DEF TimerInv
<1>7. CASE IntClear /\ ~Fails
  <2>1. UNCHANGED <<owner, ready, interrupt, callback, irqCtx, nvicEnabled, counting,
                    enableInterrupt, usable, cfg>>
    BY <1>7 DEF IntClear
  <2>2. pc' = "intEnable" /\ ~compareFlag' /\ UNCHANGED <<compareEnabled, nvicPending>>
    BY <1>7 DEF IntClear
  <2>3. interrupt /\ enableInterrupt[cfg] /\ callback = cfg /\ Quiet
    BY <1>1, <1>7 DEF IntClear, StagesInv, SetupPlaces
  <2>p. pc' \in Places
    BY <1>7 DEF IntClear, Places
  <2>4. TypeOK'
    BY <1>1, <1>7, <2>p DEF IntClear, TypeOK
  <2>5. UsableIsServed'
    BY <1>1, <1>7 DEF IntClear, UsableIsServed, CallInv, StagesInv, SetupPlaces
  <2>6. CallbackIsUsable'
    BY <1>1, <1>7 DEF IntClear, CallbackIsUsable
  <2>7. CallInv'
    BY <1>1, <1>7 DEF IntClear, CallInv
  <2>8. LineInv'
    BY <1>1, <2>1, <2>2 DEF LineInv
  <2>9. StagesInv'
    BY <2>1, <2>2, <2>3 DEF StagesInv, Quiet, SetupPlaces
  <2>10. ReadyInv'
    BY <1>1, <1>7 DEF IntClear, ReadyInv, CallInv
  <2>11. FreeInv'
    BY <1>1, <1>7 DEF IntClear, FreeInv, Quiet, CallInv, StagesInv
  <2> QED
    BY <2>4, <2>5, <2>6, <2>7, <2>8, <2>9, <2>10, <2>11 DEF TimerInv
<1>8. CASE IntEnable /\ ~Fails
  <2>1. UNCHANGED <<owner, ready, interrupt, callback, irqCtx, nvicEnabled, counting,
                    enableInterrupt, usable, cfg>>
    BY <1>8 DEF IntEnable
  <2>2. pc' = "register" /\ compareEnabled' /\ ~nvicPending' = ~(nvicPending \/ compareFlag)
    BY <1>8 DEF IntEnable
  <2>3. interrupt /\ enableInterrupt[cfg] /\ callback = cfg /\ Quiet
    BY <1>1, <1>8 DEF IntEnable, StagesInv, SetupPlaces
  <2>p. pc' \in Places
    BY <1>8 DEF IntEnable, Places
  <2>4. TypeOK'
    BY <1>1, <1>8, <2>p DEF IntEnable, TypeOK
  <2>5. UsableIsServed'
    BY <1>1, <1>8 DEF IntEnable, UsableIsServed, CallInv, StagesInv, SetupPlaces
  <2>6. CallbackIsUsable'
    BY <1>1, <1>8 DEF IntEnable, CallbackIsUsable
  <2>7. CallInv'
    BY <1>1, <1>8 DEF IntEnable, CallInv
  <2>8. LineInv'
    BY <1>1, <2>1, <2>2, <2>3 DEF LineInv
  <2>9. StagesInv'
    BY <2>1, <2>2, <2>3 DEF StagesInv, Quiet, SetupPlaces
  <2>10. ReadyInv'
    BY <1>1, <1>8 DEF IntEnable, ReadyInv, CallInv
  <2>11. FreeInv'
    BY <1>1, <1>8 DEF IntEnable, FreeInv, Quiet, CallInv, StagesInv
  <2> QED
    BY <2>4, <2>5, <2>6, <2>7, <2>8, <2>9, <2>10, <2>11 DEF TimerInv
<1>9. CASE Register
  <2> USE <1>9 DEF Register, Repend
  <2>p. pc' \in Places
    BY DEF Places
  <2>1. TypeOK'
    BY ObjectsFacts, <1>1, <2>p DEF TypeOK
  <2>2. UsableIsServed'
    BY <1>1 DEF UsableIsServed, CallInv, StagesInv, SetupPlaces
  <2>3. CallbackIsUsable'
    BY <1>1 DEF CallbackIsUsable
  <2>4. CallInv'
    BY <1>1 DEF CallInv
  <2>5. LineInv'
    BY <1>1 DEF LineInv, StagesInv, CallInv
  <2>6. StagesInv'
    BY <1>1 DEF StagesInv, SetupPlaces, Quiet, CallInv, LineInv, FreeInv
  <2>7. ReadyInv'
    BY <1>1 DEF ReadyInv, CallInv
  <2>8. FreeInv'
    BY <1>1 DEF FreeInv, Quiet, CallInv, StagesInv
  <2> QED
    BY <2>1, <2>2, <2>3, <2>4, <2>5, <2>6, <2>7, <2>8 DEF TimerInv
<1>10. CASE Start /\ ~Fails
  <2> USE <1>10 DEF Start, Return
  <2>p. pc' \in Places
    BY DEF Places
  <2>1. TypeOK'
    BY <1>1, <2>p DEF TypeOK, Statuses, CallInv
  <2>2. UsableIsServed'
    BY <1>1 DEF UsableIsServed, CallInv, StagesInv, SetupPlaces, LineInv
  <2>3. CallbackIsUsable'
    BY <1>1 DEF CallbackIsUsable
  <2>4. CallInv'
    BY <1>1 DEF CallInv
  <2>5. LineInv'
    BY <1>1 DEF LineInv
  <2>6. StagesInv'
    BY <1>1 DEF StagesInv, SetupPlaces, Quiet, CallInv, LineInv, FreeInv
  <2>7. ReadyInv'
    BY <1>1 DEF ReadyInv, CallInv
  <2>8. FreeInv'
    BY <1>1 DEF FreeInv, Quiet, CallInv, StagesInv
  <2> QED
    BY <2>1, <2>2, <2>3, <2>4, <2>5, <2>6, <2>7, <2>8 DEF TimerInv
<1>11. CASE Unregister
  <2> USE <1>11 DEF Unregister
  <2>p. pc' \in Places
    BY DEF Places
  <2>1. TypeOK'
    BY ObjectsFacts, <1>1, <2>p DEF TypeOK
  <2>2. UsableIsServed'
    BY <1>1 DEF UsableIsServed, CallInv, StagesInv, SetupPlaces
  <2>3. CallbackIsUsable'
    BY <1>1 DEF CallbackIsUsable
  <2>4. CallInv'
    BY <1>1 DEF CallInv
  <2>5. LineInv'
    BY <1>1 DEF LineInv
  <2>6. StagesInv'
    BY <1>1 DEF StagesInv, SetupPlaces, Quiet, CallInv, LineInv, FreeInv
  <2>7. ReadyInv'
    BY <1>1 DEF ReadyInv, CallInv
  <2>8. FreeInv'
    BY <1>1 DEF FreeInv, Quiet, CallInv, StagesInv
  <2> QED
    BY <2>1, <2>2, <2>3, <2>4, <2>5, <2>6, <2>7, <2>8 DEF TimerInv
<1>12. CASE IntDisable /\ ~Fails
  <2> USE <1>12 DEF IntDisable
  <2>p. pc' \in Places
    BY DEF Places
  <2>1. TypeOK'
    BY <1>1, <2>p DEF TypeOK
  <2>2. UsableIsServed'
    BY <1>1 DEF UsableIsServed, CallInv, StagesInv, SetupPlaces
  <2>3. CallbackIsUsable'
    BY <1>1 DEF CallbackIsUsable
  <2>4. CallInv'
    BY <1>1 DEF CallInv
  <2>5. LineInv'
    BY <1>1 DEF LineInv
  <2>6. StagesInv'
    BY <1>1 DEF StagesInv, SetupPlaces, Quiet, CallInv, LineInv, FreeInv
  <2>7. ReadyInv'
    BY <1>1 DEF ReadyInv, CallInv
  <2>8. FreeInv'
    BY <1>1 DEF FreeInv, Quiet, CallInv, StagesInv
  <2> QED
    BY <2>1, <2>2, <2>3, <2>4, <2>5, <2>6, <2>7, <2>8 DEF TimerInv
<1>13. CASE Stop /\ ~Fails
  <2> USE <1>13 DEF Stop
  <2>p. pc' \in Places
    BY DEF Places
  <2>1. TypeOK'
    BY <1>1, <2>p DEF TypeOK
  <2>2. UsableIsServed'
    BY <1>1 DEF UsableIsServed, CallInv, StagesInv, SetupPlaces
  <2>3. CallbackIsUsable'
    BY <1>1 DEF CallbackIsUsable
  <2>4. CallInv'
    BY <1>1 DEF CallInv
  <2>5. LineInv'
    BY <1>1 DEF LineInv
  <2>6. StagesInv'
    BY <1>1 DEF StagesInv, SetupPlaces, Quiet, CallInv, LineInv, FreeInv
  <2>7. ReadyInv'
    BY <1>1 DEF ReadyInv, CallInv
  <2>8. FreeInv'
    BY <1>1 DEF FreeInv, Quiet, CallInv, StagesInv
  <2> QED
    BY <2>1, <2>2, <2>3, <2>4, <2>5, <2>6, <2>7, <2>8 DEF TimerInv
<1>14. CASE Ack /\ ~Fails
  <2> USE <1>14 DEF Ack
  <2>p. pc' \in Places
    BY DEF Places
  <2>1. TypeOK'
    BY <1>1, <2>p DEF TypeOK
  <2>2. UsableIsServed'
    BY <1>1 DEF UsableIsServed, CallInv, StagesInv, SetupPlaces
  <2>3. CallbackIsUsable'
    BY <1>1 DEF CallbackIsUsable
  <2>4. CallInv'
    BY <1>1 DEF CallInv
  <2>5. LineInv'
    BY <1>1 DEF LineInv
  <2>6. StagesInv'
    BY <1>1 DEF StagesInv, SetupPlaces, Quiet, CallInv, LineInv, FreeInv
  <2>7. ReadyInv'
    BY <1>1 DEF ReadyInv, CallInv
  <2>8. FreeInv'
    BY <1>1 DEF FreeInv, Quiet, CallInv, StagesInv
  <2> QED
    BY <2>1, <2>2, <2>3, <2>4, <2>5, <2>6, <2>7, <2>8 DEF TimerInv
<1>15. CASE ClearPending
  <2> USE <1>15 DEF ClearPending, Repend
  <2>p. pc' \in Places
    BY DEF Places
  <2>1. TypeOK'
    BY <1>1, <2>p DEF TypeOK
  <2>2. UsableIsServed'
    BY <1>1 DEF UsableIsServed, CallInv, StagesInv, SetupPlaces
  <2>3. CallbackIsUsable'
    BY <1>1 DEF CallbackIsUsable
  <2>4. CallInv'
    BY <1>1 DEF CallInv
  <2>5. LineInv'
    BY <1>1 DEF LineInv, StagesInv
  <2>6. StagesInv'
    BY <1>1 DEF StagesInv, SetupPlaces, Quiet, CallInv, LineInv, FreeInv
  <2>7. ReadyInv'
    BY <1>1 DEF ReadyInv, CallInv
  <2>8. FreeInv'
    BY <1>1 DEF FreeInv, Quiet, CallInv, StagesInv
  <2> QED
    BY <2>1, <2>2, <2>3, <2>4, <2>5, <2>6, <2>7, <2>8 DEF TimerInv
<1>16. CASE Release
  <2> USE <1>16 DEF Release, Return, Reserve
  <2>p. pc' \in Places
    BY DEF Places
  <2>q. cfg \in Config /\ enableInterrupt[cfg] \in BOOLEAN
    BY <1>1 DEF TypeOK, CallInv
  <2>r. ret' \in Statuses
    BY <1>1 DEF TypeOK, Statuses
  <2>1. TypeOK'
    BY ObjectsFacts, <1>1, <2>p, <2>q, <2>r DEF TypeOK
  <2>2. UsableIsServed'
    BY <1>1 DEF UsableIsServed, CallInv, StagesInv, SetupPlaces
  <2>3. CallbackIsUsable'
    BY <1>1 DEF CallbackIsUsable
  <2>4. CallInv'
    BY <1>1 DEF CallInv
  <2>5. LineInv'
    BY <1>1 DEF LineInv, StagesInv
  <2>6. StagesInv'
    BY <1>1 DEF StagesInv, SetupPlaces, Quiet, CallInv, LineInv, FreeInv
  <2>7. ReadyInv'
    BY <1>1 DEF ReadyInv, CallInv
  <2>8. FreeInv'
    BY <1>1 DEF FreeInv, Quiet, StagesInv, LineInv
  <2> QED
    BY <2>1, <2>2, <2>3, <2>4, <2>5, <2>6, <2>7, <2>8 DEF TimerInv
<1> QED
  BY <1>2, <1>3, <1>4, <1>5, <1>6, <1>7, <1>8, <1>9, <1>10, <1>11, <1>12, <1>13, <1>14, <1>15, <1>16 DEF Lifecycle

(* A lifecycle call begins, or returns at once.                            *)
LEMMA CallsInv == \A c \in Config : TimerInv /\ Calls(c) => TimerInv'
<1> SUFFICES ASSUME NEW c \in Config, TimerInv, Calls(c) PROVE TimerInv'
  OBVIOUS
<1>0. UNCHANGED <<enableInterrupt, active>>
  BY DEF Calls
<1>1. TypeOK /\ UsableIsServed /\ CallbackIsUsable /\ CallInv /\ LineInv
     /\ StagesInv /\ ReadyInv /\ FreeInv
  BY DEF TimerInv
<1> USE <1>0 DEF driver, line, timer, At
<1>2. CASE CallInit(c)
  <2> USE <1>2 DEF CallInit
  <2>p. pc' \in Places
    BY DEF Places
  <2>1. TypeOK'
    BY ObjectsFacts, <1>1, <2>p DEF TypeOK
  <2>2. UsableIsServed'
    BY <1>1 DEF UsableIsServed
  <2>3. CallbackIsUsable'
    BY <1>1 DEF CallbackIsUsable
  <2>4. CallInv'
    BY <1>1 DEF CallInv
  <2>5. LineInv'
    BY <1>1 DEF LineInv
  <2>6. StagesInv'
    BY <1>1 DEF StagesInv, SetupPlaces, Quiet
  <2>7. ReadyInv'
    BY <1>1 DEF ReadyInv, CallInv
  <2>8. FreeInv'
    BY <1>1 DEF FreeInv, Quiet
  <2> QED
    BY <2>1, <2>2, <2>3, <2>4, <2>5, <2>6, <2>7, <2>8 DEF TimerInv
<1>3. CASE RejectInit(c)
  <2> USE <1>3 DEF RejectInit
  <2>1. TypeOK'
    BY ObjectsFacts, <1>1 DEF TypeOK, Places, Statuses
  <2>2. UsableIsServed'
    BY <1>1 DEF UsableIsServed
  <2>3. CallbackIsUsable'
    BY <1>1 DEF CallbackIsUsable
  <2>4. CallInv'
    BY <1>1 DEF CallInv
  <2>5. LineInv'
    BY <1>1 DEF LineInv
  <2>6. StagesInv'
    BY <1>1 DEF StagesInv, SetupPlaces, Quiet
  <2>7. ReadyInv'
    BY <1>1 DEF ReadyInv
  <2>8. FreeInv'
    BY <1>1 DEF FreeInv, Quiet
  <2> QED
    BY <2>1, <2>2, <2>3, <2>4, <2>5, <2>6, <2>7, <2>8 DEF TimerInv
<1>4. CASE CallDeinit(c)
  <2> USE <1>4 DEF CallDeinit
  <2>p. pc' \in Places
    BY DEF Places
  <2>q. ret' \in Statuses
    BY <1>1 DEF TypeOK, Statuses
  <2>1. TypeOK'
    BY ObjectsFacts, <1>1, <2>p, <2>q DEF TypeOK
  <2>2. UsableIsServed'
    BY <1>1 DEF UsableIsServed
  <2>3. CallbackIsUsable'
    BY <1>1 DEF CallbackIsUsable
  <2>4. CallInv'
    BY <1>1 DEF CallInv
  <2>5. LineInv'
    BY <1>1 DEF LineInv
  <2>6. StagesInv'
    BY <1>1 DEF StagesInv, SetupPlaces, LineInv
  <2>7. ReadyInv'
    <3>1. CASE owner = c
      BY <3>1 DEF ReadyInv
    <3>2. CASE owner # c
      <4>1. pc = "idle" /\ UNCHANGED <<ready, owner, usable>>
        BY <3>2
      <4> HIDE <1>4 DEF CallDeinit
      <4> QED
        BY <1>1, <4>1 DEF ReadyInv
    <3> QED
      BY <3>1, <3>2
  <2>8. FreeInv'
    BY <1>1 DEF FreeInv, Quiet
  <2> QED
    BY <2>1, <2>2, <2>3, <2>4, <2>5, <2>6, <2>7, <2>8 DEF TimerInv
<1> QED
  BY <1>2, <1>3, <1>4 DEF Calls

(* The interrupt, taken between any two steps of the foreground.           *)
LEMMA HandlerInv == TimerInv /\ Handler => TimerInv'
<1> SUFFICES ASSUME TimerInv, Handler PROVE TimerInv'
  OBVIOUS
<1>0. UNCHANGED <<driver, call, enableInterrupt, usable>>
  BY DEF Handler
<1>1. TypeOK /\ UsableIsServed /\ CallbackIsUsable /\ CallInv /\ LineInv
     /\ StagesInv /\ ReadyInv /\ FreeInv
  BY DEF TimerInv
<1> USE <1>0 DEF driver, call
<1>2. CASE IsrEnter
  <2> USE <1>2 DEF IsrEnter, Waiting, Mine, Repend
  <2>1. TypeOK'
    BY ObjectsFacts, <1>1 DEF TypeOK, Places, Statuses
  <2>2. UsableIsServed'
    BY <1>1 DEF UsableIsServed
  <2>3. CallbackIsUsable'
    BY <1>1 DEF ReadyInv, CallInv, LineInv, CallbackIsUsable
  <2>4. CallInv'
    BY <1>1 DEF CallInv
  <2>5. LineInv'
    BY <1>1 DEF LineInv
  <2>6. StagesInv'
    BY <1>1 DEF StagesInv, SetupPlaces, Quiet
  <2>7. ReadyInv'
    BY <1>1 DEF ReadyInv
  <2>8. FreeInv'
    BY <1>1 DEF FreeInv, Quiet
  <2> QED
    BY <2>1, <2>2, <2>3, <2>4, <2>5, <2>6, <2>7, <2>8 DEF TimerInv
<1>3. CASE IsrReturn
  <2> USE <1>3 DEF IsrReturn, line, timer
  <2>1. TypeOK'
    BY ObjectsFacts, <1>1 DEF TypeOK, Places, Statuses
  <2>2. UsableIsServed'
    BY <1>1 DEF UsableIsServed
  <2>3. CallbackIsUsable'
    BY <1>1 DEF CallbackIsUsable
  <2>4. CallInv'
    BY <1>1 DEF CallInv
  <2>5. LineInv'
    BY <1>1 DEF LineInv
  <2>6. StagesInv'
    BY <1>1 DEF StagesInv, SetupPlaces, Quiet
  <2>7. ReadyInv'
    BY <1>1 DEF ReadyInv
  <2>8. FreeInv'
    BY <1>1 DEF FreeInv, Quiet
  <2> QED
    BY <2>1, <2>2, <2>3, <2>4, <2>5, <2>6, <2>7, <2>8 DEF TimerInv
<1> QED
  BY <1>2, <1>3 DEF Handler

(* A compare, and a caller that switches its object's interrupt.           *)
LEMMA HardwareInv == TimerInv /\ Hardware => TimerInv'
<1> SUFFICES ASSUME TimerInv, Hardware PROVE TimerInv'
  OBVIOUS
<1>1. TypeOK /\ UsableIsServed /\ CallbackIsUsable /\ CallInv /\ LineInv
     /\ StagesInv /\ ReadyInv /\ FreeInv
  BY DEF TimerInv
<1> USE DEF Hardware, Tick, driver, call
<1>2. TypeOK'
  BY <1>1 DEF TypeOK, Places, Statuses
<1>3. UsableIsServed'
  BY <1>1 DEF UsableIsServed
<1>4. CallbackIsUsable'
  BY <1>1 DEF CallbackIsUsable
<1>5. CallInv'
  BY <1>1 DEF CallInv
<1>6. LineInv'
  BY <1>1 DEF LineInv
<1>7. StagesInv'
  BY <1>1 DEF StagesInv, SetupPlaces, Quiet
<1>8. ReadyInv'
  BY <1>1 DEF ReadyInv
<1>9. FreeInv'
  BY <1>1 DEF FreeInv, Quiet
<1> QED
  BY <1>2, <1>3, <1>4, <1>5, <1>6, <1>7, <1>8, <1>9 DEF TimerInv

LEMMA ReconfigureInv == \A c \in Config : TimerInv /\ Reconfigure(c) => TimerInv'
<1> SUFFICES ASSUME NEW c \in Config, TimerInv, Reconfigure(c) PROVE TimerInv'
  OBVIOUS
<1>1. TypeOK /\ UsableIsServed /\ CallbackIsUsable /\ CallInv /\ LineInv
     /\ StagesInv /\ ReadyInv /\ FreeInv
  BY DEF TimerInv
<1> USE DEF Reconfigure, At, driver, line, timer, call
<1>2. TypeOK'
  BY <1>1 DEF TypeOK, Places, Statuses
<1>3. UsableIsServed'
  BY <1>1 DEF UsableIsServed
<1>4. CallbackIsUsable'
  BY <1>1 DEF CallbackIsUsable
<1>5. CallInv'
  BY <1>1 DEF CallInv
<1>6. LineInv'
  BY <1>1 DEF LineInv
<1>7. StagesInv'
  BY <1>1 DEF StagesInv, SetupPlaces, Quiet
<1>8. ReadyInv'
  BY <1>1 DEF ReadyInv
<1>9. FreeInv'
  BY <1>1 DEF FreeInv, Quiet
<1> QED
  BY <1>2, <1>3, <1>4, <1>5, <1>6, <1>7, <1>8, <1>9 DEF TimerInv

LEMMA NextInv == TimerInv /\ [Next]_timerVars => TimerInv'
<1>1. CASE UNCHANGED timerVars
  BY <1>1 DEF timerVars, driver, line, timer, call, TimerInv, TypeOK, UsableIsServed,
              CallbackIsUsable, CallInv, LineInv, StagesInv, SetupPlaces, ReadyInv, FreeInv,
              Quiet
<1> QED
  BY <1>1, LifecycleInv, CallsInv, HandlerInv, HardwareInv, ReconfigureInv DEF Next

(* The strengthening holds in every state.                                 *)
THEOREM Inductive == Spec => []TimerInv
  BY InitInv, NextInv, PTL DEF Spec

(* The state has its types; interrupts are masked only inside an init.     *)
THEOREM TimerTypeCorrect == Spec => []TypeOK
<1>1. TimerInv => TypeOK
  BY DEF TimerInv
<1> QED
  BY <1>1, Inductive, PTL

(* An object whose init succeeded keeps a working timer, whatever other    *)
(* objects do, until it is passed to another lifecycle call.               *)
THEOREM ServedWhileUsable == Spec => []UsableIsServed
<1>1. TimerInv => UsableIsServed
  BY DEF TimerInv
<1> QED
  BY <1>1, Inductive, PTL

(* A timer nobody owns is silent: no source, no line, no table entry.      *)
THEOREM QuietOnceReleased == Spec => []QuietWhenFree
<1>1. TimerInv => QuietWhenFree
  BY DEF TimerInv, LineInv, FreeInv, Quiet, QuietWhenFree
<1> QED
  BY <1>1, Inductive, PTL

(* Callbacks run for usable objects only, so for none during a release.    *)
THEOREM CallbackOnlyUsable == Spec => []CallbackIsUsable
<1>1. TimerInv => CallbackIsUsable
  BY DEF TimerInv
<1> QED
  BY <1>1, Inductive, PTL

(* No interrupt storm: every dispatch lowers the line, whatever state the  *)
(* owner is in and whether or not its callback is suppressed.              *)
THEOREM DispatchAcknowledges == TimerInv /\ IsrEnter => ~nvicPending'
  BY DEF TimerInv, LineInv, IsrEnter, Waiting, Mine, Repend

(* ************* the timer under the TempCo helper ********************** *)


StSet ==
  [initialized : BOOLEAN, wanted : BOOLEAN, suspended : BOOLEAN, adcHandle : BOOLEAN,
   timerAttempted : BOOLEAN, powerAttempted : BOOLEAN, enableAttempted : BOOLEAN,
   cleanupOk : BOOLEAN, resetRequired : BOOLEAN, handlerOk : BOOLEAN]
AdcSet == [open : BOOLEAN, powered : BOOLEAN, retained : BOOLEAN, enabled : BOOLEAN]

Typed ==
  /\ st \in StSet /\ adc \in AdcSet
  /\ tpc \in TempCoPlaces /\ within \in {"app", "enable", "failed"}
  /\ tret \in {"SUCCESS", "ERROR"}

TimerPlaces == {"timerReleased", "timerDone"}
ReleasePlaces == {"unregister", "intDisable", "stop", "ack", "clearPending", "release"}
EnablePlaces ==
  {"power", "setupWake", "configure", "tempcoInit", "adcEnable", "timerInit",
   "timerDone", "publish"}
CleanupPlaces == {"wakePower", "wake", "adcDisable", "powerOff", "adcDeinit"}

(* The timer call that is under way, and what its status says of the owner.*)
LinkInv ==
  /\ tpc \notin TimerPlaces \cup {"idle"} => pc = "idle"
  /\ pc # "idle" => (cfg = TempCoCfg <=> tpc \in TimerPlaces)
  /\ tpc = "timerReleased" =>
       IF pc = "idle" THEN ret = "SUCCESS" => owner # TempCoCfg
                      ELSE pc \in ReleasePlaces /\ ~reinit
  /\ tpc = "timerDone" /\ pc = "idle" /\ ret = "IN_USE" => owner # TempCoCfg

(* What the flags say of the ADC, between and during calls.                *)
HeldInv ==
  /\ ~st.adcHandle => ~st.powerAttempted /\ ~st.enableAttempted
  /\ ~st.resetRequired => (adc.open <=> st.adcHandle)
  /\ st.resetRequired => ~st.cleanupOk /\ ~st.initialized /\ tpc \in {"idle", "disableFailed"}
  /\ st.suspended <=> adc.retained
  /\ st.enableAttempted /\ ~st.suspended => adc.powered
  /\ st.initialized => tpc = "idle" /\ st.adcHandle /\ st.enableAttempted /\ st.powerAttempted
  /\ tpc = "idle" /\ ~st.initialized /\ st.cleanupOk => ~st.adcHandle /\ ~st.timerAttempted

(* What a call has released or set up at each of its places.               *)
TempCoPlaceInv ==
  /\ tpc = "disableFailed" => ~st.cleanupOk
  /\ tpc \in CleanupPlaces => ~st.timerAttempted
  /\ tpc = "wake" /\ st.suspended => adc.powered
  /\ tpc \in {"adcDisable", "powerOff", "adcDeinit"} => ~st.suspended
  /\ tpc \in {"powerOff", "adcDeinit"} => ~st.enableAttempted
  /\ tpc = "adcDeinit" => ~st.powerAttempted
  /\ tpc \in {"support", "adcInit"} => ~st.adcHandle /\ ~st.timerAttempted
  /\ tpc \in EnablePlaces => st.adcHandle /\ st.powerAttempted /\ ~st.suspended
  /\ tpc \in EnablePlaces \ {"power"} => adc.powered
  /\ tpc \in {"adcEnable", "timerInit", "timerDone", "publish"} => st.enableAttempted
  /\ tpc \in TimerPlaces \cup {"publish"} => st.timerAttempted
  /\ tpc \in EnablePlaces \ {"timerDone", "publish"} => ~st.timerAttempted

TempCoInv == Typed /\ NothingForgotten /\ LinkInv /\ HeldInv /\ TempCoPlaceInv

-----------------------------------------------------------------------------
USE ConfigAssumption, TempCoAssumption
USE DEF TAt, At, timerVars, driver, line, timer, call

LEMMA InitTempCoInv == TempCoInitState => TempCoInv
  BY DEF TempCoInitState, TimerInit, TempCoInv, Typed, StSet, AdcSet, TempCoPlaces,
         NothingForgotten, LinkInv, HeldInv, TempCoPlaceInv, TimerPlaces, CleanupPlaces,
         EnablePlaces

(* A disable begins: for the application, or for an enable whose step has  *)
(* failed; `s' is the record the enable leaves to it.                      *)
LEMMA StartDisableStep ==
  ASSUME TempCoInv, tpc \notin {"timerReleased"}, pc = "idle", UNCHANGED timerVars,
         NEW caller \in {"app", "enable", "failed"}, NEW s \in StSet,
         s.suspended = st.suspended, s.adcHandle = st.adcHandle,
         s.powerAttempted = st.powerAttempted, s.enableAttempted = st.enableAttempted,
         s.cleanupOk = st.cleanupOk, s.resetRequired = st.resetRequired,
         owner = TempCoCfg => s.timerAttempted,
         StartDisable(caller, s)
  PROVE  TempCoInv'
<1> USE DEF TempCoInv, StartDisable
<1>1. Typed'
  BY DEF Typed, StSet, TempCoPlaces
<1>2. st'.initialized = FALSE /\ st'.timerAttempted = s.timerAttempted
      /\ st'.suspended = st.suspended /\ st'.adcHandle = st.adcHandle
      /\ st'.powerAttempted = st.powerAttempted /\ st'.enableAttempted = st.enableAttempted
      /\ st'.cleanupOk = st.cleanupOk /\ st'.resetRequired = st.resetRequired
  BY DEF Typed, StSet
<1>3. NothingForgotten'
  BY <1>2 DEF NothingForgotten
<1>4. LinkInv'
  BY DEF LinkInv, TimerPlaces
<1>5. HeldInv'
  BY <1>2 DEF HeldInv
<1>6. TempCoPlaceInv'
  BY <1>2 DEF TempCoPlaceInv, HeldInv, CleanupPlaces, EnablePlaces, TimerPlaces
<1>7. QED
  BY <1>1, <1>3, <1>4, <1>5, <1>6

(* A disable that fails, and its timer released.                           *)
LEMMA FailedStep ==
  TempCoInv /\ (DisableFailed \/ TimerReleased) /\ UNCHANGED timerVars => TempCoInv'
<1> SUFFICES ASSUME TempCoInv, DisableFailed \/ TimerReleased, UNCHANGED timerVars
             PROVE  TempCoInv'
  OBVIOUS
<1> USE DEF TempCoInv, DisableFailed, TimerReleased, TGoto, TReturn
<1>1. Typed'
  BY ZenonT(60) DEF Typed, StSet, AdcSet, TempCoPlaces
<1> USE DEF Typed, StSet, AdcSet
<1>2. NothingForgotten'
  BY DEF NothingForgotten, HeldInv, TempCoPlaceInv, CleanupPlaces, EnablePlaces, LinkInv,
         TimerPlaces
<1>3. LinkInv'
  BY DEF LinkInv, TimerPlaces
<1>4. HeldInv'
  BY DEF HeldInv, TempCoPlaceInv, CleanupPlaces, EnablePlaces, NothingForgotten, TimerPlaces
<1>5. TempCoPlaceInv'
  BY DEF TempCoPlaceInv, HeldInv, CleanupPlaces, EnablePlaces, NothingForgotten, TimerPlaces
<1>6. QED
  BY <1>1, <1>2, <1>3, <1>4, <1>5

(* The suspended ADC is woken before it is taken apart.                    *)
LEMMA WakeStep ==
  TempCoInv /\ (WakePower \/ Wake) /\ UNCHANGED timerVars => TempCoInv'
<1> SUFFICES ASSUME TempCoInv, WakePower \/ Wake, UNCHANGED timerVars
             PROVE  TempCoInv'
  OBVIOUS
<1> USE DEF TempCoInv, WakePower, Wake, Cleanup, TGoto, TReturn
<1>1. Typed'
  BY ZenonT(60) DEF Typed, StSet, AdcSet, TempCoPlaces
<1> USE DEF Typed, StSet, AdcSet
<1>2. NothingForgotten'
  BY DEF NothingForgotten, HeldInv, TempCoPlaceInv, CleanupPlaces, EnablePlaces, LinkInv,
         TimerPlaces
<1>3. LinkInv'
  BY DEF LinkInv, TimerPlaces
<1>4. HeldInv'
  BY ZenonT(60) DEF HeldInv, TempCoPlaceInv, CleanupPlaces, EnablePlaces,
     NothingForgotten, TimerPlaces
<1>5. TempCoPlaceInv'
  BY DEF TempCoPlaceInv, HeldInv, CleanupPlaces, EnablePlaces, NothingForgotten, TimerPlaces
<1>6. QED
  BY <1>1, <1>2, <1>3, <1>4, <1>5

(* The ADC is switched off.                                                *)
LEMMA OffStep ==
  TempCoInv /\ AdcDisable /\ UNCHANGED timerVars => TempCoInv'
<1> SUFFICES ASSUME TempCoInv, AdcDisable, UNCHANGED timerVars
             PROVE  TempCoInv'
  OBVIOUS
<1> USE DEF TempCoInv, AdcDisable, Cleanup, TGoto, TReturn
<1>1. Typed'
  BY ZenonT(60) DEF Typed, StSet, AdcSet, TempCoPlaces
<1> USE DEF Typed, StSet, AdcSet
<1>2. NothingForgotten'
  BY DEF NothingForgotten, HeldInv, TempCoPlaceInv, CleanupPlaces, EnablePlaces, LinkInv,
         TimerPlaces
<1>3. LinkInv'
  BY DEF LinkInv, TimerPlaces
<1>4. HeldInv'
  BY DEF HeldInv, TempCoPlaceInv, CleanupPlaces, EnablePlaces, NothingForgotten, TimerPlaces
<1>5. TempCoPlaceInv'
  BY DEF TempCoPlaceInv, HeldInv, CleanupPlaces, EnablePlaces, NothingForgotten, TimerPlaces
<1>6. QED
  BY <1>1, <1>2, <1>3, <1>4, <1>5

(* Its power, too.                                                         *)
LEMMA PowerOffStep ==
  TempCoInv /\ PowerOff /\ UNCHANGED timerVars => TempCoInv'
<1> SUFFICES ASSUME TempCoInv, PowerOff, UNCHANGED timerVars
             PROVE  TempCoInv'
  OBVIOUS
<1> USE DEF TempCoInv, PowerOff, Cleanup, TGoto, TReturn
<1>1. Typed'
  BY ZenonT(60) DEF Typed, StSet, AdcSet, TempCoPlaces
<1> USE DEF Typed, StSet, AdcSet
<1>2. NothingForgotten'
  BY DEF NothingForgotten, HeldInv, TempCoPlaceInv, CleanupPlaces, EnablePlaces, LinkInv,
         TimerPlaces
<1>3. LinkInv'
  BY DEF LinkInv, TimerPlaces
<1>4. HeldInv'
  BY DEF HeldInv, TempCoPlaceInv, CleanupPlaces, EnablePlaces, NothingForgotten, TimerPlaces
<1>5. TempCoPlaceInv'
  BY DEF TempCoPlaceInv, HeldInv, CleanupPlaces, EnablePlaces, NothingForgotten, TimerPlaces
<1>6. QED
  BY <1>1, <1>2, <1>3, <1>4, <1>5

(* Its handle is given back.                                               *)
LEMMA DeinitStep ==
  TempCoInv /\ AdcDeinit /\ UNCHANGED timerVars => TempCoInv'
<1> SUFFICES ASSUME TempCoInv, AdcDeinit, UNCHANGED timerVars
             PROVE  TempCoInv'
  OBVIOUS
<1> USE DEF TempCoInv, AdcDeinit, Disabled, TGoto, TReturn
<1>1. Typed'
  BY ZenonT(60) DEF Typed, StSet, AdcSet, TempCoPlaces
<1> USE DEF Typed, StSet, AdcSet
<1>2. NothingForgotten'
  BY DEF NothingForgotten, HeldInv, TempCoPlaceInv, CleanupPlaces, EnablePlaces, LinkInv,
         TimerPlaces
<1>3. LinkInv'
  BY DEF LinkInv, TimerPlaces
<1>4. HeldInv'
  BY ZenonT(60) DEF HeldInv, TempCoPlaceInv, CleanupPlaces, EnablePlaces,
     NothingForgotten, TimerPlaces
<1>5. TempCoPlaceInv'
  BY DEF TempCoPlaceInv, HeldInv, CleanupPlaces, EnablePlaces, NothingForgotten, TimerPlaces
<1>6. QED
  BY <1>1, <1>2, <1>3, <1>4, <1>5

(* enable allocates.                                                       *)
LEMMA AllocateStep ==
  TempCoInv /\ (CheckSupport \/ AdcInitialize) /\ UNCHANGED timerVars => TempCoInv'
<1> SUFFICES ASSUME TempCoInv, CheckSupport \/ AdcInitialize, UNCHANGED timerVars
             PROVE  TempCoInv'
  OBVIOUS
<1> USE DEF TempCoInv, CheckSupport, AdcInitialize, TGoto, TReturn
<1>1. Typed'
  BY DEF Typed, StSet, AdcSet, TempCoPlaces
<1> USE DEF Typed, StSet, AdcSet
<1>2. NothingForgotten'
  BY DEF NothingForgotten, HeldInv, TempCoPlaceInv, CleanupPlaces, EnablePlaces, LinkInv,
         TimerPlaces
<1>3. LinkInv'
  BY DEF LinkInv, TimerPlaces
<1>4. HeldInv'
  BY DEF HeldInv, TempCoPlaceInv, CleanupPlaces, EnablePlaces, NothingForgotten, TimerPlaces
<1>5. TempCoPlaceInv'
  BY DEF TempCoPlaceInv, HeldInv, CleanupPlaces, EnablePlaces, NothingForgotten, TimerPlaces
<1>6. QED
  BY <1>1, <1>2, <1>3, <1>4, <1>5

(* Its HAL calls, each of which may fail and start the cleanup.            *)
LEMMA PowerStep == TempCoInv /\ Power /\ UNCHANGED timerVars => TempCoInv'
<1> SUFFICES ASSUME TempCoInv, Power, UNCHANGED timerVars
             PROVE  TempCoInv'
  OBVIOUS
<1>1. CASE StartDisable("failed", st)
  BY <1>1, StartDisableStep DEF Power, Setup, TempCoInv, Typed, NothingForgotten
<1>2. CASE ~StartDisable("failed", st)
  <2> USE <1>2 DEF TempCoInv, Power, Setup, TGoto
  <2>1. Typed'
    BY DEF Typed, StSet, AdcSet, TempCoPlaces
  <2> USE DEF Typed, StSet, AdcSet
  <2>2. NothingForgotten'
    BY DEF NothingForgotten, TempCoPlaceInv, EnablePlaces
  <2>3. LinkInv'
    BY DEF LinkInv, TimerPlaces
  <2>4. HeldInv'
    BY DEF HeldInv, TempCoPlaceInv, EnablePlaces
  <2>5. TempCoPlaceInv'
    BY DEF TempCoPlaceInv, CleanupPlaces, EnablePlaces, TimerPlaces
  <2>6. QED
    BY <2>1, <2>2, <2>3, <2>4, <2>5
<1>3. QED
  BY <1>1, <1>2

LEMMA SetupWakeStep == TempCoInv /\ SetupWake /\ UNCHANGED timerVars => TempCoInv'
<1> SUFFICES ASSUME TempCoInv, SetupWake, UNCHANGED timerVars
             PROVE  TempCoInv'
  OBVIOUS
<1>1. CASE StartDisable("failed", st)
  BY <1>1, StartDisableStep DEF SetupWake, Setup, TempCoInv, Typed, NothingForgotten
<1>2. CASE ~StartDisable("failed", st)
  <2> USE <1>2 DEF TempCoInv, SetupWake, Setup, TGoto
  <2>1. Typed'
    BY DEF Typed, StSet, AdcSet, TempCoPlaces
  <2> USE DEF Typed, StSet, AdcSet
  <2>2. NothingForgotten'
    BY DEF NothingForgotten, TempCoPlaceInv, EnablePlaces
  <2>3. LinkInv'
    BY DEF LinkInv, TimerPlaces
  <2>4. HeldInv'
    BY DEF HeldInv, TempCoPlaceInv, EnablePlaces
  <2>5. TempCoPlaceInv'
    BY DEF TempCoPlaceInv, CleanupPlaces, EnablePlaces, TimerPlaces
  <2>6. QED
    BY <2>1, <2>2, <2>3, <2>4, <2>5
<1>3. QED
  BY <1>1, <1>2

LEMMA ConfigureStep == TempCoInv /\ ConfigureAdc /\ UNCHANGED timerVars => TempCoInv'
<1> SUFFICES ASSUME TempCoInv, ConfigureAdc, UNCHANGED timerVars
             PROVE  TempCoInv'
  OBVIOUS
<1>1. CASE StartDisable("failed", st)
  BY <1>1, StartDisableStep DEF ConfigureAdc, Setup, TempCoInv, Typed, NothingForgotten
<1>2. CASE ~StartDisable("failed", st)
  <2> USE <1>2 DEF TempCoInv, ConfigureAdc, Setup, TGoto
  <2>1. Typed'
    BY DEF Typed, StSet, AdcSet, TempCoPlaces
  <2> USE DEF Typed, StSet, AdcSet
  <2>2. NothingForgotten'
    BY DEF NothingForgotten, TempCoPlaceInv, EnablePlaces
  <2>3. LinkInv'
    BY DEF LinkInv, TimerPlaces
  <2>4. HeldInv'
    BY DEF HeldInv, TempCoPlaceInv, EnablePlaces
  <2>5. TempCoPlaceInv'
    BY DEF TempCoPlaceInv, CleanupPlaces, EnablePlaces, TimerPlaces
  <2>6. QED
    BY <2>1, <2>2, <2>3, <2>4, <2>5
<1>3. QED
  BY <1>1, <1>2

LEMMA TempCoInitStep == TempCoInv /\ TempCoInit /\ UNCHANGED timerVars => TempCoInv'
<1> SUFFICES ASSUME TempCoInv, TempCoInit, UNCHANGED timerVars
             PROVE  TempCoInv'
  OBVIOUS
<1>1. CASE StartDisable("failed", st)
  BY <1>1, StartDisableStep DEF TempCoInit, Setup, TempCoInv, Typed, NothingForgotten
<1>2. CASE ~StartDisable("failed", st)
  <2> USE <1>2 DEF TempCoInv, TempCoInit, Setup, TGoto
  <2>1. Typed'
    BY DEF Typed, StSet, AdcSet, TempCoPlaces
  <2> USE DEF Typed, StSet, AdcSet
  <2>2. NothingForgotten'
    BY DEF NothingForgotten, TempCoPlaceInv, EnablePlaces
  <2>3. LinkInv'
    BY DEF LinkInv, TimerPlaces
  <2>4. HeldInv'
    BY DEF HeldInv, TempCoPlaceInv, EnablePlaces
  <2>5. TempCoPlaceInv'
    BY DEF TempCoPlaceInv, CleanupPlaces, EnablePlaces, TimerPlaces
  <2>6. QED
    BY <2>1, <2>2, <2>3, <2>4, <2>5
<1>3. QED
  BY <1>1, <1>2

LEMMA AdcEnableStep == TempCoInv /\ AdcEnable /\ UNCHANGED timerVars => TempCoInv'
<1> SUFFICES ASSUME TempCoInv, AdcEnable, UNCHANGED timerVars
             PROVE  TempCoInv'
  OBVIOUS
<1>1. CASE StartDisable("failed", st)
  BY <1>1, StartDisableStep DEF AdcEnable, Setup, TempCoInv, Typed, NothingForgotten
<1>2. CASE ~StartDisable("failed", st)
  <2> USE <1>2 DEF TempCoInv, AdcEnable, Setup, TGoto
  <2>1. Typed'
    BY DEF Typed, StSet, AdcSet, TempCoPlaces
  <2> USE DEF Typed, StSet, AdcSet
  <2>2. NothingForgotten'
    BY DEF NothingForgotten, TempCoPlaceInv, EnablePlaces
  <2>3. LinkInv'
    BY DEF LinkInv, TimerPlaces
  <2>4. HeldInv'
    BY DEF HeldInv, TempCoPlaceInv, EnablePlaces
  <2>5. TempCoPlaceInv'
    BY DEF TempCoPlaceInv, CleanupPlaces, EnablePlaces, TimerPlaces
  <2>6. QED
    BY <2>1, <2>2, <2>3, <2>4, <2>5
<1>3. QED
  BY <1>1, <1>2

(* The calls themselves.                                                   *)
LEMMA CallStep ==
  TempCoInv /\ (CallDisable \/ CallEnable) /\ UNCHANGED timerVars => TempCoInv'
<1> SUFFICES ASSUME TempCoInv, CallDisable \/ CallEnable, UNCHANGED timerVars
             PROVE  TempCoInv'
  OBVIOUS
<1>1. CASE StartDisable("app", st) \/ StartDisable("enable", st)
  BY <1>1, StartDisableStep DEF CallDisable, CallEnable, TempCoInv, Typed, NothingForgotten
<1>2. CASE CallEnable /\ st.initialized
  <2> USE <1>2 DEF TempCoInv, CallEnable, TReturn
  <2>1. Typed'
    BY DEF Typed, StSet, AdcSet, TempCoPlaces
  <2> USE DEF Typed, StSet, AdcSet
  <2>2. NothingForgotten' /\ LinkInv'
    BY DEF NothingForgotten, LinkInv, TimerPlaces
  <2>3. HeldInv' /\ TempCoPlaceInv'
    BY DEF HeldInv, TempCoPlaceInv, CleanupPlaces, EnablePlaces, TimerPlaces
  <2>4. QED
    BY <2>1, <2>2, <2>3
<1>3. QED
  BY <1>1, <1>2 DEF CallDisable, CallEnable

(* The timer's init has returned, and the helper is published.             *)
LEMMA TimerDoneStep == TempCoInv /\ TimerDone /\ UNCHANGED timerVars => TempCoInv'
<1> SUFFICES ASSUME TempCoInv, TimerDone, UNCHANGED timerVars
             PROVE  TempCoInv'
  OBVIOUS
<1>1. CASE ret = "SUCCESS"
  <2> USE <1>1 DEF TempCoInv, TimerDone, TGoto
  <2>1. Typed'
    BY DEF Typed, StSet, AdcSet, TempCoPlaces
  <2> USE DEF Typed, StSet, AdcSet
  <2>2. NothingForgotten' /\ LinkInv'
    BY DEF NothingForgotten, LinkInv, TimerPlaces
  <2>3. HeldInv' /\ TempCoPlaceInv'
    BY DEF HeldInv, TempCoPlaceInv, CleanupPlaces, EnablePlaces, TimerPlaces
  <2>4. QED
    BY <2>1, <2>2, <2>3
<1>2. CASE ret # "SUCCESS"
  <2> DEFINE s == [st EXCEPT !.timerAttempted = ret # "IN_USE"]
  <2>1. StartDisable("failed", s) /\ tpc = "timerDone" /\ pc = "idle"
    BY <1>2 DEF TimerDone
  <2>2. s \in StSet /\ s.timerAttempted = (ret # "IN_USE") /\ s.suspended = st.suspended
        /\ s.adcHandle = st.adcHandle /\ s.powerAttempted = st.powerAttempted
        /\ s.enableAttempted = st.enableAttempted /\ s.cleanupOk = st.cleanupOk
        /\ s.resetRequired = st.resetRequired
    BY DEF TempCoInv, Typed, StSet
  <2>3. owner = TempCoCfg => s.timerAttempted
    BY <2>1, <2>2 DEF TempCoInv, LinkInv
  <2> HIDE DEF s
  <2>4. QED
    BY <2>1, <2>2, <2>3, StartDisableStep
<1>3. QED
  BY <1>1, <1>2

(* The helper is published with interrupts masked.                         *)
LEMMA PublishStep ==
  TempCoInv /\ Publish /\ UNCHANGED timerVars => TempCoInv'
<1> SUFFICES ASSUME TempCoInv, Publish, UNCHANGED timerVars
             PROVE  TempCoInv'
  OBVIOUS
<1> USE DEF TempCoInv, Publish, TGoto, TReturn
<1>1. Typed'
  BY DEF Typed, StSet, AdcSet, TempCoPlaces
<1> USE DEF Typed, StSet, AdcSet
<1>2. NothingForgotten'
  BY DEF NothingForgotten, HeldInv, TempCoPlaceInv, CleanupPlaces, EnablePlaces, LinkInv,
         TimerPlaces
<1>3. LinkInv'
  BY DEF LinkInv, TimerPlaces
<1>4. HeldInv'
  BY DEF HeldInv, TempCoPlaceInv, CleanupPlaces, EnablePlaces, NothingForgotten, TimerPlaces
<1>5. TempCoPlaceInv'
  BY DEF TempCoPlaceInv, HeldInv, CleanupPlaces, EnablePlaces, NothingForgotten, TimerPlaces
<1>6. QED
  BY <1>1, <1>2, <1>3, <1>4, <1>5

-----------------------------------------------------------------------------
(* The hook and the callback, which leave the foreground where it is.      *)

(* What either of them may change of the helper's record and of the ADC.   *)
LEMMA Asynchronous ==
  ASSUME TempCoInv, st.initialized, st' \in StSet, adc' \in AdcSet,
         UNCHANGED <<owner, pc, cfg, reinit, ret, tpc, within, tret>>,
         st'.initialized, st'.adcHandle = st.adcHandle, st'.timerAttempted = st.timerAttempted,
         st'.powerAttempted = st.powerAttempted, st'.enableAttempted = st.enableAttempted,
         st'.cleanupOk = st.cleanupOk, st'.resetRequired = st.resetRequired,
         adc'.open = adc.open, st'.suspended <=> adc'.retained,
         ~st'.suspended => adc'.powered
  PROVE  TempCoInv'
<1> USE DEF TempCoInv
<1>1. Typed' /\ LinkInv'
  BY DEF Typed, LinkInv
<1>2. NothingForgotten' /\ HeldInv' /\ TempCoPlaceInv'
  BY DEF NothingForgotten, HeldInv, TempCoPlaceInv, CleanupPlaces, EnablePlaces, TimerPlaces
<1>3. QED
  BY <1>1, <1>2

LEMMA UnchangedInv ==
  TempCoInv /\ UNCHANGED <<owner, pc, cfg, reinit, ret, st, adc, tpc, within, tret>>
    => TempCoInv'
  BY DEF TempCoInv, Typed, NothingForgotten, LinkInv, HeldInv, TempCoPlaceInv

LEMMA SleepStep == TempCoInv /\ PrepareForSleep /\ UNCHANGED timerVars => TempCoInv'
<1> SUFFICES ASSUME TempCoInv, PrepareForSleep, UNCHANGED timerVars
             PROVE  TempCoInv'
  OBVIOUS
<1>1. CASE UNCHANGED <<st, adc>>
  BY <1>1, UnchangedInv DEF PrepareForSleep
<1>2. CASE st.initialized /\ ~st.suspended /\ ~UNCHANGED <<st, adc>>
  <2> USE <1>2 DEF TempCoInv, PrepareForSleep, Sleeps, Typed, StSet, AdcSet
  <2>1. st' \in StSet /\ adc' \in AdcSet
    OBVIOUS
  <2>2. /\ st'.initialized /\ st'.adcHandle = st.adcHandle
        /\ st'.timerAttempted = st.timerAttempted
        /\ st'.powerAttempted = st.powerAttempted /\ st'.enableAttempted = st.enableAttempted
        /\ st'.cleanupOk = st.cleanupOk /\ st'.resetRequired = st.resetRequired
        /\ adc'.open = adc.open /\ (st'.suspended <=> adc'.retained)
    BY DEF HeldInv
  <2>3. ~st'.suspended => adc'.powered
    BY DEF HeldInv
  <2>4. QED
    BY <2>1, <2>2, <2>3, Asynchronous
<1>3. QED
  BY <1>1, <1>2 DEF PrepareForSleep, Sleeps

LEMMA InterruptStep == TempCoInv /\ Interrupt => TempCoInv'
<1> SUFFICES ASSUME TempCoInv, Interrupt
             PROVE  TempCoInv'
  OBVIOUS
<1>0. UNCHANGED <<owner, pc, cfg, reinit, ret, tpc, within, tret>>
  BY DEF Interrupt, Handler
<1>1. CASE UNCHANGED <<st, adc>>
  BY <1>0, <1>1, UnchangedInv
<1>2. CASE st.initialized /\ Sample
  <2>1. CASE st' = [st EXCEPT !.handlerOk = FALSE] /\ adc' = adc
    <3> USE <1>0, <1>2, <2>1 DEF TempCoInv, Typed, StSet, AdcSet
    <3>1. st' \in StSet /\ adc' \in AdcSet
      OBVIOUS
    <3>2. /\ st'.initialized /\ st'.adcHandle = st.adcHandle
          /\ st'.timerAttempted = st.timerAttempted
          /\ st'.powerAttempted = st.powerAttempted /\ st'.enableAttempted = st.enableAttempted
          /\ st'.cleanupOk = st.cleanupOk /\ st'.resetRequired = st.resetRequired
          /\ adc'.open = adc.open
      OBVIOUS
    <3>3. (st'.suspended <=> adc'.retained) /\ (~st'.suspended => adc'.powered)
      BY DEF HeldInv
    <3>4. QED
      BY <3>1, <3>2, <3>3, Asynchronous
  <2>2. ASSUME NEW ok \in BOOLEAN, NEW enables \in BOOLEAN,
               Sleeps([st EXCEPT !.suspended = FALSE, !.handlerOk = ok],
                      [adc EXCEPT !.powered = TRUE, !.retained = FALSE, !.enabled = @ \/ enables])
        PROVE  TempCoInv'
    <3> DEFINE s == [st EXCEPT !.suspended = FALSE, !.handlerOk = ok]
               a == [adc EXCEPT !.powered = TRUE, !.retained = FALSE, !.enabled = @ \/ enables]
    <3>1. s \in StSet /\ a \in AdcSet
      BY DEF TempCoInv, Typed, StSet, AdcSet
    <3>2. s.initialized /\ s.adcHandle = st.adcHandle /\ s.timerAttempted = st.timerAttempted
          /\ s.powerAttempted = st.powerAttempted /\ s.enableAttempted = st.enableAttempted
          /\ s.cleanupOk = st.cleanupOk /\ s.resetRequired = st.resetRequired /\ ~s.suspended
          /\ a.open = adc.open /\ a.powered /\ ~a.retained
      BY <1>2 DEF TempCoInv, Typed, StSet, AdcSet
    <3> HIDE DEF s, a
    <3>3. \/ st' = s /\ adc' = a
          \/ /\ st' = [s EXCEPT !.suspended = TRUE]
             /\ adc' = [a EXCEPT !.powered = FALSE, !.retained = TRUE]
          \/ st' = [s EXCEPT !.handlerOk = FALSE] /\ adc' = a
      BY <2>2 DEF Sleeps, s, a
    <3>4. st' \in StSet /\ adc' \in AdcSet
      BY <3>1, <3>3 DEF StSet, AdcSet
    <3>5. /\ st'.initialized /\ st'.adcHandle = st.adcHandle
          /\ st'.timerAttempted = st.timerAttempted
          /\ st'.powerAttempted = st.powerAttempted /\ st'.enableAttempted = st.enableAttempted
          /\ st'.cleanupOk = st.cleanupOk /\ st'.resetRequired = st.resetRequired
          /\ adc'.open = adc.open
          /\ (st'.suspended <=> adc'.retained) /\ (~st'.suspended => adc'.powered)
      BY <3>1, <3>2, <3>3 DEF StSet, AdcSet
    <3>6. QED
      BY <1>0, <1>2, <3>4, <3>5, Asynchronous
  <2>3. QED
    BY <1>2, <2>1, <2>2 DEF Sample
<1>3. QED
  BY <1>1, <1>2 DEF Interrupt, Callback

-----------------------------------------------------------------------------
(* The timer's own steps, which leave the helper where it is.              *)

(* The two timer calls begin, or the deinit is not needed.                 *)
LEMMA TimerCallStep == TempCoInv /\ (TimerDeinit \/ TimerInitCall) => TempCoInv'
<1> SUFFICES ASSUME TempCoInv, TimerDeinit \/ TimerInitCall
             PROVE  TempCoInv'
  OBVIOUS
<1> USE DEF TempCoInv, TGoto
<1>1. CASE TimerDeinit
  <2> USE <1>1 DEF TimerDeinit, CallDeinit
  <2>1. Typed'
    BY DEF Typed, TempCoPlaces
  <2>2. LinkInv'
    BY DEF LinkInv, TimerPlaces, ReleasePlaces
  <2>3. NothingForgotten' /\ HeldInv'
    BY DEF NothingForgotten, HeldInv
  <2>4. TempCoPlaceInv'
    BY DEF TempCoPlaceInv, CleanupPlaces, EnablePlaces, TimerPlaces
  <2>5. QED
    BY <2>1, <2>2, <2>3, <2>4
<1>2. CASE TimerInitCall
  <2> USE <1>2 DEF TimerInitCall, CallInit
  <2>1. Typed'
    BY DEF Typed, TempCoPlaces, StSet
  <2> USE DEF Typed, StSet
  <2>2. LinkInv'
    BY DEF LinkInv, TimerPlaces
  <2>3. NothingForgotten' /\ HeldInv'
    BY DEF NothingForgotten, HeldInv
  <2>4. TempCoPlaceInv'
    BY DEF TempCoPlaceInv, CleanupPlaces, EnablePlaces, TimerPlaces
  <2>5. QED
    BY <2>1, <2>2, <2>3, <2>4
<1>3. QED
  BY <1>1, <1>2

(* A step of the call under way.  Only what LinkInv says of it, and who    *)
(* owns the timer, can change.                                             *)
LEMMA LifecycleStep == TempCoInv /\ Lifecycle /\ UNCHANGED tempcoVars => TempCoInv'
<1> SUFFICES ASSUME TempCoInv, Lifecycle, UNCHANGED tempcoVars
             PROVE  TempCoInv'
  OBVIOUS
<1> USE DEF TempCoInv, tempcoVars
<1>1. Typed' /\ HeldInv' /\ TempCoPlaceInv'
  BY DEF Typed, HeldInv, TempCoPlaceInv
<1>2. NothingForgotten' /\ LinkInv'
  <2> USE DEF NothingForgotten, LinkInv, TimerPlaces, ReleasePlaces, Goto, Return, Fails
  <2>0. tpc \in TimerPlaces => st.timerAttempted
    BY DEF TempCoPlaceInv
  <2>1. CASE InUse
    BY <2>0, <2>1 DEF InUse
  <2>2. CASE Claim \/ ReleaseFirst
    BY <2>0, <2>2 DEF Claim, ReleaseFirst, Reserve
  <2>3. CASE Configure \/ IntClear \/ IntEnable \/ Register \/ Start
    BY <2>0, <2>3 DEF Configure, IntClear, IntEnable, Register, Start
  <2>4. CASE Unregister \/ IntDisable \/ Stop \/ Ack \/ ClearPending
    BY <2>0, <2>4 DEF Unregister, IntDisable, Stop, Ack, ClearPending
  <2>5. CASE Release
    BY <2>0, <2>5 DEF Release, Reserve
  <2>6. QED
    BY <2>1, <2>2, <2>3, <2>4, <2>5 DEF Lifecycle
<1>3. QED
  BY <1>1, <1>2

LEMMA OthersStep == TempCoInv /\ Others => TempCoInv'
<1> SUFFICES ASSUME TempCoInv, Others
             PROVE  TempCoInv'
  OBVIOUS
<1> USE DEF TempCoInv, tempcoVars, Others
<1>1. Typed' /\ HeldInv' /\ TempCoPlaceInv'
  BY DEF Typed, HeldInv, TempCoPlaceInv
<1>2. PICK c \in Config \ {TempCoCfg} : Calls(c) \/ Reconfigure(c)
  OBVIOUS
<1>3. NothingForgotten' /\ LinkInv'
  BY <1>2 DEF NothingForgotten, LinkInv, TimerPlaces, Calls, CallInit, RejectInit, CallDeinit,
              Reconfigure
<1>4. QED
  BY <1>1, <1>3

-----------------------------------------------------------------------------
LEMMA TempCoStepInv == TempCoInv /\ TempCoStep => TempCoInv'
  BY CallStep, FailedStep, WakeStep, OffStep, PowerOffStep, DeinitStep, AllocateStep,
     PowerStep, SetupWakeStep, ConfigureStep, TempCoInitStep, AdcEnableStep, TimerDoneStep,
     PublishStep, SleepStep
     DEF TempCoStep

LEMMA TempCoNextInv == TempCoInv /\ [TempCoNext]_allVars => TempCoInv'
<1> SUFFICES ASSUME TempCoInv, [TempCoNext]_allVars
             PROVE  TempCoInv'
  OBVIOUS
<1>1. CASE Hardware /\ UNCHANGED tempcoVars
  BY <1>1, UnchangedInv DEF Hardware, tempcoVars
<1>2. CASE UNCHANGED allVars
  BY <1>2, UnchangedInv DEF allVars, tempcoVars
<1>3. QED
  BY <1>1, <1>2, TempCoStepInv, TimerCallStep, LifecycleStep, InterruptStep, OthersStep
     DEF TempCoNext

LEMMA TempCoInductive == TempCoSpec => []TempCoInv
  BY InitTempCoInv, TempCoNextInv, PTL DEF TempCoSpec

(* To the timer, the helper is one more caller: every step of the          *)
(* composition is a step of the timer or leaves it alone.                  *)
LEMMA StepOfTimer == [TempCoNext]_allVars => [Next]_timerVars
<1> SUFFICES ASSUME [TempCoNext]_allVars
             PROVE  [Next]_timerVars
  OBVIOUS
<1>1. CASE TempCoStep \/ UNCHANGED allVars
  BY <1>1 DEF TempCoStep, allVars
<1>2. CASE TimerDeinit \/ TimerInitCall
  BY <1>2 DEF TimerDeinit, TimerInitCall, Next, Calls
<1>3. CASE Lifecycle \/ Hardware \/ Interrupt
  BY <1>3 DEF Next, Interrupt
<1>4. CASE Others
  BY <1>4 DEF Others, Next
<1>5. QED
  BY <1>1, <1>2, <1>3, <1>4 DEF TempCoNext

(* So what is proved of the timer holds for it: whatever the helper does,  *)
(* a usable object keeps its timer and a free one is quiet.                *)
THEOREM TimerInherited == TempCoSpec => []TimerInv
<1>1. TempCoInitState => TimerInv
  BY InitInv DEF TempCoInitState
<1>2. TimerInv /\ [TempCoNext]_allVars => TimerInv'
  BY NextInv, StepOfTimer
<1>3. QED
  BY <1>1, <1>2, PTL DEF TempCoSpec

(* The types, of the helper and of the timer below it; a call of the       *)
(* helper's object is under way only inside a call of the helper.          *)
THEOREM TempCoTypeCorrect == TempCoSpec => []TempCoTypeOK
<1>1. TempCoInv /\ TimerInv => TempCoTypeOK
  BY DEF TempCoInv, TimerInv, TempCoTypeOK, Typed, StSet, AdcSet, LinkInv, TimerPlaces
<1>2. QED
  BY <1>1, TempCoInductive, TimerInherited, PTL

(* No HAL call finds the ADC in a state the HAL forbids                    *)
(* (nsx_power_tempco.c:90-105, 150-155, 199-225).                          *)
THEOREM AdcLegal == TempCoSpec => []AdcCallsLegal
<1>1. TempCoInv => AdcCallsLegal
  BY DEF TempCoInv, AdcCallsLegal, NothingForgotten, HeldInv, TempCoPlaceInv, CleanupPlaces,
         EnablePlaces
<1>2. QED
  BY <1>1, TempCoInductive, PTL

(* Whatever is held after failed setups and cleanups has a flag by which a *)
(* later disable finds it (nsx_power_tempco.c:77-117).                     *)
THEOREM Remembered == TempCoSpec => []NothingForgotten
<1>1. TempCoInv => NothingForgotten
  BY DEF TempCoInv
<1>2. QED
  BY <1>1, TempCoInductive, PTL

(* enable allocates only when everything is given back, and a call that    *)
(* ends clean has left nothing (nsx_power_tempco.c:105-136).               *)
THEOREM Released == TempCoSpec => []ReleasedBeforeReuse
<1>1. TempCoInv => ReleasedBeforeReuse
  BY DEF TempCoInv, ReleasedBeforeReuse, NothingForgotten, HeldInv, TempCoPlaceInv, Typed,
         StSet, AdcSet
<1>2. QED
  BY <1>1, TempCoInductive, PTL

(* A callback changes nothing while an enable or a disable is under way,   *)
(* because the helper is then not initialized (nsx_power_tempco.c:79, 199).*)
THEOREM Suppressed == TempCoSpec => SuppressedDuringCalls
<1>1. TempCoInv /\ [TempCoNext]_allVars =>
        [active = TempCoCfg /\ tpc # "idle" => UNCHANGED <<st, adc>>]_allVars
  <2> SUFFICES ASSUME TempCoInv, TempCoNext, active = TempCoCfg, tpc # "idle"
               PROVE  UNCHANGED <<st, adc>>
    BY DEF allVars
  <2>1. ~st.initialized
    BY DEF TempCoInv, HeldInv
  <2>2. CASE Interrupt
    BY <2>1, <2>2 DEF Interrupt, Callback
  <2>3. ~TempCoStep /\ ~TimerDeinit /\ ~TimerInitCall
    BY DEF TempCoStep, TimerDeinit, TimerInitCall, CallDisable, DisableFailed, TimerReleased,
           WakePower, Wake, AdcDisable, PowerOff, AdcDeinit, Cleanup, CallEnable, CheckSupport,
           AdcInitialize, Power, SetupWake, ConfigureAdc, TempCoInit, AdcEnable, Setup,
           TimerDone,
           Publish, PrepareForSleep
  <2>4. QED
    BY <2>2, <2>3 DEF TempCoNext, Others, tempcoVars
<1>2. QED
  BY <1>1, TempCoInductive, PTL DEF TempCoSpec, SuppressedDuringCalls
===============================================================================
