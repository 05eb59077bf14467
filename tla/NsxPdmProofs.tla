----------------------------- MODULE NsxPdmProofs -----------------------------
(***************************************************************************)
(* The safety properties of NsxPdm, for any set of configurations.         *)
(*                                                                         *)
(* None is inductive by itself.  PlaceInv adds what each call has achieved *)
(* at each of its places, CaptureInv what a started capture rests on, and  *)
(* ReadyInv what a configuration without an error may take for granted.    *)
(***************************************************************************)
EXTENDS NsxPdm, TLAPS

FlagSet == [powered : BOOLEAN, requested : BOOLEAN, attempted : BOOLEAN, pins : BOOLEAN]
CapSet == [handle : BOOLEAN, started : BOOLEAN, error : {"SUCCESS", "INIT_FAILED", "FAILURE"}]
HwSet == [open : BOOLEAN, power : BOOLEAN, inten : BOOLEAN, enabled : BOOLEAN,
          dma : BOOLEAN, raised : SUBSET Bits]
NvicSet == [on : BOOLEAN, pending : BOOLEAN]
CallSet == [place : Places, cfg : Cfg \union {None}, undo : BOOLEAN]

(* The types of what a call of the driver changes. *)
Typed ==
  /\ owner \in Cfg \union {None} /\ flags \in FlagSet /\ cap \in [Cfg -> CapSet]
  /\ hw \in HwSet /\ nvic \in NvicSet /\ call \in CallSet
  /\ At("idle") <=> call.cfg = None
  /\ ret \in Statuses

InitPlaces == {"powerOn", "configure", "fifo", "intEnable", "initDone"}
StartPlaces == {"enable", "dmaStart", "started"}
StopPlaces == {"intDisable", "intClear", "dmaStop", "disable", "powerOff", "deinitialize"}

(* What a call has achieved at each of its places. *)
PlaceInv ==
  /\ flags.attempted => flags.powered
  /\ owner = None => ~flags.attempted /\ ~flags.powered
  /\ call.place \in {"clock", "initialize"} =>
       /\ owner = None /\ ~call.undo
       /\ cap[call.cfg] = [handle |-> FALSE, started |-> FALSE, error |-> "INIT_FAILED"]
  /\ call.place \in InitPlaces =>
       /\ owner = call.cfg /\ ~cap[owner].started /\ cap[owner].error = "INIT_FAILED"
       /\ ~call.undo /\ ~flags.attempted /\ flags.requested
  /\ call.place \in {"configure", "fifo", "intEnable", "initDone"} => flags.powered
  /\ At("initDone") => hw.inten
  /\ call.place \in StartPlaces =>
       /\ owner = call.cfg /\ ~cap[owner].started /\ cap[owner].error = "SUCCESS"
       /\ flags.powered /\ flags.attempted /\ hw.inten
  /\ call.place \in {"enable", "dmaStart"} => ~hw.dma
  /\ call.place \in {"dmaStart", "started"} => hw.enabled
  /\ At("started") => hw.dma
  /\ At("owned") => owner = call.cfg
  /\ call.place \in StopPlaces => owner = call.cfg /\ ~cap[owner].started
  /\ call.place \in {"intDisable", "intClear", "dmaStop", "disable"} => flags.powered
  /\ call.place \in {"intClear", "dmaStop", "disable", "powerOff"} => ~hw.inten
  /\ call.place \in {"disable", "powerOff"} => ~hw.dma
  /\ At("powerOff") => ~hw.enabled /\ ~flags.attempted
  /\ At("deinitialize") => ~hw.power /\ ~flags.requested

(* What a started capture rests on; teardown has not touched it yet. *)
CaptureInv ==
  /\ nvic.on => owner # None /\ cap[owner].started
  /\ \A c \in Cfg : cap[c].started =>
       /\ owner = c /\ cap[c].error = "SUCCESS"
       /\ flags.powered /\ flags.attempted /\ hw.inten /\ hw.enabled /\ hw.dma
       /\ call.place \in {"idle", "owned"}

(* What start may take for granted of an initialised microphone. *)
ReadyInv ==
  At("idle") /\ owner # None /\ cap[owner].error = "SUCCESS" /\ ~cap[owner].started =>
    flags.powered /\ ~flags.attempted /\ hw.inten

OwnerInv == \A c \in Cfg : cap[c].handle => owner = c

IInv == Typed /\ OwnerInv /\ NothingForgotten /\ PlaceInv /\ CaptureInv /\ ReadyInv

-----------------------------------------------------------------------------
USE CfgAssumption

LEMMA TypedIsTypeOK ==
  TypeOK <=> Typed /\ OwnerInv /\ isr \in {"idle", "free", "bound"} /\ waiting \in BOOLEAN
  BY DEF TypeOK, Typed, OwnerInv, FlagSet, CapSet, HwSet, NvicSet, CallSet

(* Where a call goes next, and how it ends. *)
LEMMA GotoTyped ==
  ASSUME Typed, ~At("idle"), NEW p \in Places \ {"idle"}, Goto(p)
  PROVE  /\ call' \in CallSet /\ (At("idle") <=> call.cfg = None)' /\ ret' \in Statuses
         /\ call'.place = p /\ call'.cfg = call.cfg /\ call'.undo = call.undo
  BY DEF Typed, Goto, CallSet, At

LEMMA ReturnTyped ==
  ASSUME NEW status \in Statuses, Return(status)
  PROVE  /\ call' \in CallSet /\ (At("idle") <=> call.cfg = None)' /\ ret' \in Statuses
         /\ call'.place = "idle"
  BY DEF Return, CallSet, At, Places

LEMMA FailsTyped ==
  ASSUME Typed, NEW after \in HwSet, Fails(after)
  PROVE  hw' \in HwSet
  BY DEF Typed, Fails

LEMMA CallTyped ==
  ASSUME Typed, ~At("idle")
  PROVE  call.cfg \in Cfg /\ cap[call.cfg] \in CapSet
  BY DEF Typed, CallSet

LEMMA CapTyped ==
  ASSUME Typed, NEW c \in Cfg
  PROVE  /\ [cap EXCEPT ![c].handle = TRUE] \in [Cfg -> CapSet]
         /\ [cap EXCEPT ![c].started = TRUE] \in [Cfg -> CapSet]
         /\ [cap EXCEPT ![c].started = FALSE] \in [Cfg -> CapSet]
         /\ \A e \in {"SUCCESS", "INIT_FAILED", "FAILURE"} :
              /\ [cap EXCEPT ![c].error = e] \in [Cfg -> CapSet]
              /\ [cap EXCEPT ![c].started = FALSE, ![c].error = e] \in [Cfg -> CapSet]
              /\ [cap EXCEPT ![c].handle = FALSE, ![c].error = e] \in [Cfg -> CapSet]
  <1>1. cap \in [Cfg -> CapSet]
    BY DEF Typed
  <1>2. [cap EXCEPT ![c].handle = TRUE] \in [Cfg -> CapSet]
    BY <1>1 DEF CapSet
  <1>3. [cap EXCEPT ![c].started = TRUE] \in [Cfg -> CapSet]
    BY <1>1 DEF CapSet
  <1>4. [cap EXCEPT ![c].started = FALSE] \in [Cfg -> CapSet]
    BY <1>1 DEF CapSet
  <1>5. ASSUME NEW e \in {"SUCCESS", "INIT_FAILED", "FAILURE"}
        PROVE  /\ [cap EXCEPT ![c].error = e] \in [Cfg -> CapSet]
               /\ [cap EXCEPT ![c].started = FALSE, ![c].error = e] \in [Cfg -> CapSet]
               /\ [cap EXCEPT ![c].handle = FALSE, ![c].error = e] \in [Cfg -> CapSet]
    <2>1. [cap EXCEPT ![c].error = e] \in [Cfg -> CapSet]
      BY <1>1 DEF CapSet
    <2>2. [cap EXCEPT ![c].started = FALSE, ![c].error = e] \in [Cfg -> CapSet]
      BY <1>1 DEF CapSet
    <2>3. [cap EXCEPT ![c].handle = FALSE, ![c].error = e] \in [Cfg -> CapSet]
      BY <1>1 DEF CapSet
    <2> QED
      BY <2>1, <2>2, <2>3
  <1> QED
    BY <1>2, <1>3, <1>4, <1>5

LEMMA InitStepTyped ==
  ASSUME Typed, NEW place \in Places \ {"idle"}, NEW hwAfter \in HwSet, NEW flagsAfter \in FlagSet,
         NEW next \in Places \ {"idle"}, InitStep(place, hwAfter, flagsAfter, next)
  PROVE  Typed'
<1>1. call.cfg \in Cfg /\ ~At("idle")
  BY CallTyped DEF InitStep, At
<1>2. CASE Goto(next) /\ hw' = hwAfter /\ flags' = flagsAfter
  BY <1>1, <1>2, GotoTyped DEF InitStep, Typed
<1>3. CASE Fails(hwAfter) /\ call' = [call EXCEPT !.place = "owned", !.undo = TRUE]
            /\ UNCHANGED <<flags, ret>>
  <2>1. hw' \in HwSet
    BY <1>3, FailsTyped
  <2>2. call' \in CallSet /\ (At("idle") <=> call.cfg = None)'
    BY <1>1, <1>3 DEF Typed, CallSet, Places, At
  <2>3. QED
    BY <1>3, <2>1, <2>2 DEF InitStep, Typed
<1>4. QED
  BY <1>2, <1>3 DEF InitStep

LEMMA StartStepTyped ==
  ASSUME Typed, NEW place \in Places \ {"idle"}, NEW hwAfter \in HwSet,
         NEW next \in Places \ {"idle"}, StartStep(place, hwAfter, next)
  PROVE  Typed'
<1>1. call.cfg \in Cfg /\ ~At("idle")
  BY CallTyped DEF StartStep, At
<1>2. CASE Goto(next) /\ hw' = hwAfter /\ UNCHANGED <<cap, nvic>>
  BY <1>1, <1>2, GotoTyped DEF StartStep, Typed
<1>3. CASE Fails(hwAfter) /\ CaptureFailed(call.cfg, nvic) /\ Return("FAILURE")
  <2>1. hw' \in HwSet
    BY <1>3, FailsTyped
  <2>2. cap' \in [Cfg -> CapSet] /\ nvic' \in NvicSet
    BY <1>1, <1>3, CapTyped DEF CaptureFailed, LineDisabled, Typed, NvicSet
  <2>3. QED
    BY <1>3, <2>1, <2>2, ReturnTyped DEF StartStep, Typed, Statuses
<1>4. QED
  BY <1>2, <1>3 DEF StartStep

LEMMA StopFailedTyped ==
  ASSUME Typed, ~At("idle"), StopFailed
  PROVE  /\ cap' \in [Cfg -> CapSet] /\ flags' \in FlagSet /\ call' \in CallSet
         /\ (At("idle") <=> call.cfg = None)' /\ ret' \in Statuses /\ call'.place = "idle"
<1>1. cap' \in [Cfg -> CapSet] /\ flags' \in FlagSet
  BY CallTyped, CapTyped DEF StopFailed, Typed
<1>2. Return("INIT_FAILED") \/ Return("FAILURE")
  BY DEF StopFailed, StopReturns
<1>3. QED
  BY <1>1, <1>2, ReturnTyped DEF Statuses

LEMMA StopStepTyped ==
  ASSUME Typed, NEW place \in Places \ {"idle"}, NEW needed, NEW hwAfter \in HwSet,
         NEW flagsAfter \in FlagSet,
         NEW next \in Places \ {"idle"}, StopStep(place, needed, hwAfter, flagsAfter, next)
  PROVE  Typed'
<1>1. call.cfg \in Cfg /\ ~At("idle") /\ UNCHANGED <<owner, nvic>>
  BY CallTyped DEF StopStep, At
<1>2. CASE hw' = hwAfter /\ flags' = flagsAfter /\ Goto(next) /\ UNCHANGED cap
  BY <1>1, <1>2, GotoTyped DEF Typed
<1>3. CASE Fails(hwAfter) /\ StopFailed
  BY <1>1, <1>3, FailsTyped, StopFailedTyped DEF Typed
<1>4. CASE Goto(next) /\ UNCHANGED <<flags, cap, hw>>
  BY <1>1, <1>4, GotoTyped DEF Typed
<1>5. QED
  BY <1>2, <1>3, <1>4 DEF StopStep

LEMMA PowerOnStep == IInv /\ PowerOn => IInv'
<1> SUFFICES ASSUME IInv, PowerOn PROVE IInv'
  OBVIOUS
<1>1. Typed'
  <2>1. [hw EXCEPT !.power = TRUE] \in HwSet /\ [flags EXCEPT !.powered = TRUE] \in FlagSet
    BY DEF IInv, Typed, HwSet, FlagSet, Bits
  <2>2. QED
    BY <2>1, InitStepTyped DEF IInv, PowerOn, Places
<1>2. call.cfg \in Cfg
  BY CallTyped DEF IInv, PowerOn, InitStep, Fails, Goto, At
<1> USE DEF IInv, PowerOn, InitStep, Fails, Goto, At,
        Typed, FlagSet, CapSet, HwSet, NvicSet, CallSet, Places, InitPlaces, StartPlaces, StopPlaces
<1>3. OwnerInv'
  BY <1>1, <1>2 DEF OwnerInv, PlaceInv
<1>4. NothingForgotten'
  BY <1>1, <1>2 DEF NothingForgotten, PlaceInv
<1>5. PlaceInv'
  <2>1. CASE call' = [call EXCEPT !.place = "owned", !.undo = TRUE] /\ UNCHANGED flags
    BY <1>1, <1>2, <2>1 DEF PlaceInv
  <2>2. CASE hw' = [hw EXCEPT !.power = TRUE] /\ flags' = [flags EXCEPT !.powered = TRUE] /\ call' = [call EXCEPT !.place = "configure"]
    <3>1. call'.place = "configure" /\ call'.cfg = call.cfg /\ call'.undo = call.undo
      BY <2>2
    <3>2. /\ owner = call.cfg /\ ~cap[owner].started /\ cap[owner].error = "INIT_FAILED"
          /\ ~call.undo /\ ~flags.attempted /\ flags.requested
      BY DEF PlaceInv
    <3>3. QED
      BY <1>1, <1>2, <2>2, <3>1, <3>2 DEF PlaceInv
  <2>3. QED
    BY <2>1, <2>2
<1>6. CaptureInv'
  BY <1>1, <1>2 DEF CaptureInv, PlaceInv, NothingForgotten
<1>7. ReadyInv'
  BY <1>1, <1>2 DEF ReadyInv, PlaceInv, NothingForgotten, CaptureInv
<1>8. QED
  BY <1>1, <1>3, <1>4, <1>5, <1>6, <1>7

LEMMA ConfigureStep == IInv /\ Configure => IInv'
<1> SUFFICES ASSUME IInv, Configure PROVE IInv'
  OBVIOUS
<1>1. Typed'
  <2>1. hw \in HwSet /\ [flags EXCEPT !.pins = TRUE] \in FlagSet
    BY DEF IInv, Typed, HwSet, FlagSet, Bits
  <2>2. QED
    BY <2>1, InitStepTyped DEF IInv, Configure, Places
<1>2. call.cfg \in Cfg
  BY CallTyped DEF IInv, Configure, InitStep, Fails, Goto, At
<1> USE DEF IInv, Configure, InitStep, Fails, Goto, At,
        Typed, FlagSet, CapSet, HwSet, NvicSet, CallSet, Places, InitPlaces, StartPlaces, StopPlaces
<1>3. OwnerInv'
  BY <1>1, <1>2 DEF OwnerInv, PlaceInv
<1>4. NothingForgotten'
  BY <1>1, <1>2 DEF NothingForgotten, PlaceInv
<1>5. PlaceInv'
  <2>1. CASE call' = [call EXCEPT !.place = "owned", !.undo = TRUE] /\ UNCHANGED flags
    BY <1>1, <1>2, <2>1 DEF PlaceInv
  <2>2. CASE hw' = hw /\ flags' = [flags EXCEPT !.pins = TRUE] /\ call' = [call EXCEPT !.place = "fifo"]
    <3>1. call'.place = "fifo" /\ call'.cfg = call.cfg /\ call'.undo = call.undo
      BY <2>2
    <3>2. /\ owner = call.cfg /\ ~cap[owner].started /\ cap[owner].error = "INIT_FAILED"
          /\ ~call.undo /\ ~flags.attempted /\ flags.requested
      BY DEF PlaceInv
    <3>3. QED
      BY <1>1, <1>2, <2>2, <3>1, <3>2 DEF PlaceInv
  <2>3. QED
    BY <2>1, <2>2
<1>6. CaptureInv'
  BY <1>1, <1>2 DEF CaptureInv, PlaceInv, NothingForgotten
<1>7. ReadyInv'
  BY <1>1, <1>2 DEF ReadyInv, PlaceInv, NothingForgotten, CaptureInv
<1>8. QED
  BY <1>1, <1>3, <1>4, <1>5, <1>6, <1>7

LEMMA FifoStep == IInv /\ Fifo => IInv'
<1> SUFFICES ASSUME IInv, Fifo PROVE IInv'
  OBVIOUS
<1>1. Typed'
  <2>1. [hw EXCEPT !.raised = {}] \in HwSet
    BY DEF IInv, Typed, HwSet, FlagSet, Bits
  <2>2. QED
    BY <2>1, InitStepTyped DEF IInv, Fifo, Places, Typed
<1>2. call.cfg \in Cfg
  BY CallTyped DEF IInv, Fifo, InitStep, Fails, Goto, At
<1> USE DEF IInv, Fifo, InitStep, Fails, Goto, At,
        Typed, FlagSet, CapSet, HwSet, NvicSet, CallSet, Places, InitPlaces, StartPlaces, StopPlaces
<1>3. OwnerInv'
  BY <1>1, <1>2 DEF OwnerInv, PlaceInv
<1>4. NothingForgotten'
  BY <1>1, <1>2 DEF NothingForgotten, PlaceInv
<1>5. PlaceInv'
  <2>1. CASE call' = [call EXCEPT !.place = "owned", !.undo = TRUE] /\ UNCHANGED flags
    BY <1>1, <1>2, <2>1 DEF PlaceInv
  <2>2. CASE hw' = [hw EXCEPT !.raised = {}] /\ flags' = flags /\ call' = [call EXCEPT !.place = "intEnable"]
    <3>1. call'.place = "intEnable" /\ call'.cfg = call.cfg /\ call'.undo = call.undo
      BY <2>2
    <3>2. /\ owner = call.cfg /\ ~cap[owner].started /\ cap[owner].error = "INIT_FAILED"
          /\ ~call.undo /\ ~flags.attempted /\ flags.requested
      BY DEF PlaceInv
    <3>3. QED
      BY <1>1, <1>2, <2>2, <3>1, <3>2 DEF PlaceInv
  <2>3. QED
    BY <2>1, <2>2
<1>6. CaptureInv'
  BY <1>1, <1>2 DEF CaptureInv, PlaceInv, NothingForgotten
<1>7. ReadyInv'
  BY <1>1, <1>2 DEF ReadyInv, PlaceInv, NothingForgotten, CaptureInv
<1>8. QED
  BY <1>1, <1>3, <1>4, <1>5, <1>6, <1>7

LEMMA IntEnableStep == IInv /\ IntEnable => IInv'
<1> SUFFICES ASSUME IInv, IntEnable PROVE IInv'
  OBVIOUS
<1>1. Typed'
  <2>1. [hw EXCEPT !.inten = TRUE] \in HwSet
    BY DEF IInv, Typed, HwSet, FlagSet, Bits
  <2>2. QED
    BY <2>1, InitStepTyped DEF IInv, IntEnable, Places, Typed
<1>2. call.cfg \in Cfg
  BY CallTyped DEF IInv, IntEnable, InitStep, Fails, Goto, At
<1> USE DEF IInv, IntEnable, InitStep, Fails, Goto, At,
        Typed, FlagSet, CapSet, HwSet, NvicSet, CallSet, Places, InitPlaces, StartPlaces, StopPlaces
<1>3. OwnerInv'
  BY <1>1, <1>2 DEF OwnerInv, PlaceInv
<1>4. NothingForgotten'
  BY <1>1, <1>2 DEF NothingForgotten, PlaceInv
<1>5. PlaceInv'
  <2>1. CASE call' = [call EXCEPT !.place = "owned", !.undo = TRUE] /\ UNCHANGED flags
    BY <1>1, <1>2, <2>1 DEF PlaceInv
  <2>2. CASE hw' = [hw EXCEPT !.inten = TRUE] /\ flags' = flags /\ call' = [call EXCEPT !.place = "initDone"]
    <3>1. call'.place = "initDone" /\ call'.cfg = call.cfg /\ call'.undo = call.undo
      BY <2>2
    <3>2. /\ owner = call.cfg /\ ~cap[owner].started /\ cap[owner].error = "INIT_FAILED"
          /\ ~call.undo /\ ~flags.attempted /\ flags.requested
      BY DEF PlaceInv
    <3>3. QED
      BY <1>1, <1>2, <2>2, <3>1, <3>2 DEF PlaceInv
  <2>3. QED
    BY <2>1, <2>2
<1>6. CaptureInv'
  BY <1>1, <1>2 DEF CaptureInv, PlaceInv, NothingForgotten
<1>7. ReadyInv'
  BY <1>1, <1>2 DEF ReadyInv, PlaceInv, NothingForgotten, CaptureInv
<1>8. QED
  BY <1>1, <1>3, <1>4, <1>5, <1>6, <1>7

LEMMA EnableStep == IInv /\ Enable => IInv'
<1> SUFFICES ASSUME IInv, Enable PROVE IInv'
  OBVIOUS
<1>1. Typed'
  <2>1. [hw EXCEPT !.enabled = TRUE] \in HwSet
    BY DEF IInv, Typed, HwSet, FlagSet, Bits
  <2>2. QED
    BY <2>1, StartStepTyped DEF IInv, Enable, Places, Typed
<1>2. call.cfg \in Cfg
  BY CallTyped DEF IInv, Enable, StartStep, Fails, CaptureFailed, LineDisabled, Goto, Return, At
<1> USE DEF IInv, Enable, StartStep, Fails, CaptureFailed, LineDisabled, Goto, Return, At,
        Typed, FlagSet, CapSet, HwSet, NvicSet, CallSet, Places, InitPlaces, StartPlaces, StopPlaces
<1>3. OwnerInv'
  BY <1>1, <1>2 DEF OwnerInv, PlaceInv
<1>4. NothingForgotten'
  BY <1>1, <1>2 DEF NothingForgotten, PlaceInv
<1>5. PlaceInv'
  BY <1>1, <1>2 DEF PlaceInv, NothingForgotten, CaptureInv, ReadyInv
<1>6. CaptureInv'
  BY <1>1, <1>2 DEF CaptureInv, PlaceInv, NothingForgotten
<1>7. ReadyInv'
  BY <1>1, <1>2 DEF ReadyInv, PlaceInv, NothingForgotten, CaptureInv
<1>8. QED
  BY <1>1, <1>3, <1>4, <1>5, <1>6, <1>7

LEMMA DmaStartStep == IInv /\ DmaStart => IInv'
<1> SUFFICES ASSUME IInv, DmaStart PROVE IInv'
  OBVIOUS
<1>1. Typed'
  <2>1. [hw EXCEPT !.dma = TRUE] \in HwSet
    BY DEF IInv, Typed, HwSet, FlagSet, Bits
  <2>2. QED
    BY <2>1, StartStepTyped DEF IInv, DmaStart, Places, Typed
<1>2. call.cfg \in Cfg
  BY CallTyped DEF IInv, DmaStart, StartStep, Fails, CaptureFailed, LineDisabled, Goto, Return, At
<1> USE DEF IInv, DmaStart, StartStep, Fails, CaptureFailed, LineDisabled, Goto, Return, At,
        Typed, FlagSet, CapSet, HwSet, NvicSet, CallSet, Places, InitPlaces, StartPlaces, StopPlaces
<1>3. OwnerInv'
  BY <1>1, <1>2 DEF OwnerInv, PlaceInv
<1>4. NothingForgotten'
  BY <1>1, <1>2 DEF NothingForgotten, PlaceInv
<1>5. PlaceInv'
  BY <1>1, <1>2 DEF PlaceInv, NothingForgotten, CaptureInv, ReadyInv
<1>6. CaptureInv'
  BY <1>1, <1>2 DEF CaptureInv, PlaceInv, NothingForgotten
<1>7. ReadyInv'
  BY <1>1, <1>2 DEF ReadyInv, PlaceInv, NothingForgotten, CaptureInv
<1>8. QED
  BY <1>1, <1>3, <1>4, <1>5, <1>6, <1>7

LEMMA IntDisableStep == IInv /\ IntDisable => IInv'
<1> SUFFICES ASSUME IInv, IntDisable PROVE IInv'
  OBVIOUS
<1>1. Typed'
  <2>1. [hw EXCEPT !.inten = FALSE] \in HwSet
    BY DEF IInv, Typed, HwSet, FlagSet, Bits
  <2>2. QED
    BY <2>1, StopStepTyped DEF IInv, IntDisable, Places, Typed
<1>2. call.cfg \in Cfg
  BY CallTyped DEF IInv, IntDisable, StopStep, Fails, StopFailed, StopReturns, Goto, Return, At
<1> USE DEF IInv, IntDisable, StopStep, Fails, StopFailed, StopReturns, Goto, Return, At,
        Typed, FlagSet, CapSet, HwSet, NvicSet, CallSet, Places, InitPlaces, StartPlaces, StopPlaces
<1>3. OwnerInv'
  BY <1>1, <1>2 DEF OwnerInv, PlaceInv
<1>4. NothingForgotten'
  BY <1>1, <1>2 DEF NothingForgotten, PlaceInv
<1>5. PlaceInv'
  BY <1>1, <1>2 DEF PlaceInv, NothingForgotten, CaptureInv, ReadyInv
<1>6. CaptureInv'
  BY <1>1, <1>2 DEF CaptureInv, PlaceInv, NothingForgotten
<1>7. ReadyInv'
  BY <1>1, <1>2 DEF ReadyInv, PlaceInv, NothingForgotten, CaptureInv
<1>8. QED
  BY <1>1, <1>3, <1>4, <1>5, <1>6, <1>7

LEMMA IntClearStep == IInv /\ IntClear => IInv'
<1> SUFFICES ASSUME IInv, IntClear PROVE IInv'
  OBVIOUS
<1>1. Typed'
  <2>1. [hw EXCEPT !.raised = {}] \in HwSet
    BY DEF IInv, Typed, HwSet, FlagSet, Bits
  <2>2. QED
    BY <2>1, StopStepTyped DEF IInv, IntClear, Places, Typed
<1>2. call.cfg \in Cfg
  BY CallTyped DEF IInv, IntClear, StopStep, Fails, StopFailed, StopReturns, Goto, Return, At
<1> USE DEF IInv, IntClear, StopStep, Fails, StopFailed, StopReturns, Goto, Return, At,
        Typed, FlagSet, CapSet, HwSet, NvicSet, CallSet, Places, InitPlaces, StartPlaces, StopPlaces
<1>3. OwnerInv'
  BY <1>1, <1>2 DEF OwnerInv, PlaceInv
<1>4. NothingForgotten'
  BY <1>1, <1>2 DEF NothingForgotten, PlaceInv
<1>5. PlaceInv'
  BY <1>1, <1>2 DEF PlaceInv, NothingForgotten, CaptureInv, ReadyInv
<1>6. CaptureInv'
  BY <1>1, <1>2 DEF CaptureInv, PlaceInv, NothingForgotten
<1>7. ReadyInv'
  BY <1>1, <1>2 DEF ReadyInv, PlaceInv, NothingForgotten, CaptureInv
<1>8. QED
  BY <1>1, <1>3, <1>4, <1>5, <1>6, <1>7

LEMMA DmaStopStep == IInv /\ DmaStop => IInv'
<1> SUFFICES ASSUME IInv, DmaStop PROVE IInv'
  OBVIOUS
<1>1. Typed'
  <2>1. [hw EXCEPT !.dma = FALSE] \in HwSet
    BY DEF IInv, Typed, HwSet, FlagSet, Bits
  <2>2. QED
    BY <2>1, StopStepTyped DEF IInv, DmaStop, Places, Typed
<1>2. call.cfg \in Cfg
  BY CallTyped DEF IInv, DmaStop, StopStep, Fails, StopFailed, StopReturns, Goto, Return, At
<1> USE DEF IInv, DmaStop, StopStep, Fails, StopFailed, StopReturns, Goto, Return, At,
        Typed, FlagSet, CapSet, HwSet, NvicSet, CallSet, Places, InitPlaces, StartPlaces, StopPlaces
<1>3. OwnerInv'
  BY <1>1, <1>2 DEF OwnerInv, PlaceInv
<1>4. NothingForgotten'
  BY <1>1, <1>2 DEF NothingForgotten, PlaceInv
<1>5. PlaceInv'
  BY <1>1, <1>2 DEF PlaceInv, NothingForgotten, CaptureInv, ReadyInv
<1>6. CaptureInv'
  BY <1>1, <1>2 DEF CaptureInv, PlaceInv, NothingForgotten
<1>7. ReadyInv'
  BY <1>1, <1>2 DEF ReadyInv, PlaceInv, NothingForgotten, CaptureInv
<1>8. QED
  BY <1>1, <1>3, <1>4, <1>5, <1>6, <1>7

LEMMA DisableStep == IInv /\ Disable => IInv'
<1> SUFFICES ASSUME IInv, Disable PROVE IInv'
  OBVIOUS
<1>1. Typed'
  <2>1. [hw EXCEPT !.enabled = FALSE] \in HwSet /\ [flags EXCEPT !.attempted = FALSE] \in FlagSet
    BY DEF IInv, Typed, HwSet, FlagSet, Bits
  <2>2. QED
    BY <2>1, StopStepTyped DEF IInv, Disable, Places
<1>2. call.cfg \in Cfg
  BY CallTyped DEF IInv, Disable, StopStep, Fails, StopFailed, StopReturns, Goto, Return, At
<1> USE DEF IInv, Disable, StopStep, Fails, StopFailed, StopReturns, Goto, Return, At,
        Typed, FlagSet, CapSet, HwSet, NvicSet, CallSet, Places, InitPlaces, StartPlaces, StopPlaces
<1>3. OwnerInv'
  BY <1>1, <1>2 DEF OwnerInv, PlaceInv
<1>4. NothingForgotten'
  BY <1>1, <1>2 DEF NothingForgotten, PlaceInv
<1>5. PlaceInv'
  BY <1>1, <1>2 DEF PlaceInv, NothingForgotten, CaptureInv, ReadyInv
<1>6. CaptureInv'
  BY <1>1, <1>2 DEF CaptureInv, PlaceInv, NothingForgotten
<1>7. ReadyInv'
  BY <1>1, <1>2 DEF ReadyInv, PlaceInv, NothingForgotten, CaptureInv
<1>8. QED
  BY <1>1, <1>3, <1>4, <1>5, <1>6, <1>7

LEMMA ClockStep == IInv /\ Clock => IInv'
<1> SUFFICES ASSUME IInv, Clock PROVE IInv'
  OBVIOUS
<1>1. Typed'
  BY GotoTyped, ReturnTyped DEF IInv, Clock, Typed, At, Places, Statuses
<1>2. call.cfg \in Cfg
  BY CallTyped DEF IInv, Clock, Goto, Return, At
<1> USE DEF IInv, Clock, Goto, Return, At,
        Typed, FlagSet, CapSet, HwSet, NvicSet, CallSet, Places, InitPlaces, StartPlaces, StopPlaces
<1>3. OwnerInv'
  BY <1>1, <1>2 DEF OwnerInv, PlaceInv
<1>4. NothingForgotten'
  BY <1>1, <1>2 DEF NothingForgotten, PlaceInv
<1>5. PlaceInv'
  <2>1. CASE call' = [call EXCEPT !.place = "initialize"]
    BY <1>1, <1>2, <2>1 DEF PlaceInv
  <2>2. CASE call' = [place |-> "idle", cfg |-> None, undo |-> FALSE]
    BY <1>1, <1>2, <2>2 DEF PlaceInv
  <2>3. QED
    BY <2>1, <2>2
<1>6. CaptureInv'
  BY <1>1, <1>2 DEF CaptureInv, PlaceInv, NothingForgotten
<1>7. ReadyInv'
  BY <1>1, <1>2 DEF ReadyInv, PlaceInv, NothingForgotten, CaptureInv
<1>8. QED
  BY <1>1, <1>3, <1>4, <1>5, <1>6, <1>7

LEMMA InitializeStep == IInv /\ Initialize => IInv'
<1> SUFFICES ASSUME IInv, Initialize PROVE IInv'
  OBVIOUS
<1>1. Typed'
  <2>1. call.cfg \in Cfg /\ ~At("idle")
    BY CallTyped DEF IInv, Initialize, At
  <2>2. CASE Return("INIT_FAILED") /\ UNCHANGED <<owner, flags, cap, hw>>
    BY <2>2, ReturnTyped DEF IInv, Initialize, Typed, Statuses
  <2>3. CASE /\ hw' = [hw EXCEPT !.open = TRUE]
             /\ cap' = [cap EXCEPT ![call.cfg].handle = TRUE]
             /\ owner' = call.cfg
             /\ flags' = [flags EXCEPT !.requested = TRUE]
             /\ Goto("powerOn")
    <3>1. hw' \in HwSet /\ flags' \in FlagSet /\ nvic' \in NvicSet
      BY <2>3 DEF IInv, Initialize, Typed, HwSet, FlagSet
    <3>2. cap' \in [Cfg -> CapSet] /\ owner' \in Cfg
      BY <2>1, <2>3, CapTyped DEF IInv, Initialize
    <3>3. QED
      BY <2>1, <2>3, <3>1, <3>2, GotoTyped DEF IInv, Initialize, Typed, Places
  <2>4. QED
    BY <2>2, <2>3 DEF Initialize
<1>2. call.cfg \in Cfg
  BY CallTyped DEF IInv, Initialize, Goto, Return, At
<1> USE DEF IInv, Initialize, Goto, Return, At,
        Typed, FlagSet, CapSet, HwSet, NvicSet, CallSet, Places, InitPlaces, StartPlaces, StopPlaces
<1>3. OwnerInv'
  BY <1>1, <1>2 DEF OwnerInv, PlaceInv
<1>4. NothingForgotten'
  BY <1>1, <1>2 DEF NothingForgotten, PlaceInv
<1>5. PlaceInv'
  BY <1>1, <1>2 DEF PlaceInv, NothingForgotten, CaptureInv, ReadyInv
<1>6. CaptureInv'
  BY <1>1, <1>2 DEF CaptureInv, PlaceInv, NothingForgotten
<1>7. ReadyInv'
  BY <1>1, <1>2 DEF ReadyInv, PlaceInv, NothingForgotten, CaptureInv
<1>8. QED
  BY <1>1, <1>3, <1>4, <1>5, <1>6, <1>7

LEMMA InitDoneStep == IInv /\ InitDone => IInv'
<1> SUFFICES ASSUME IInv, InitDone PROVE IInv'
  OBVIOUS
<1>1. Typed'
  <2>1. call.cfg \in Cfg /\ cap' \in [Cfg -> CapSet]
    BY CallTyped, CapTyped DEF IInv, InitDone, At
  <2>2. nvic' \in NvicSet
    BY DEF IInv, InitDone, Typed, NvicSet
  <2>3. QED
    BY <2>1, <2>2, ReturnTyped DEF IInv, InitDone, Typed, Statuses
<1>2. call.cfg \in Cfg
  BY CallTyped DEF IInv, InitDone, Return, At
<1> USE DEF IInv, InitDone, Return, At,
        Typed, FlagSet, CapSet, HwSet, NvicSet, CallSet, Places, InitPlaces, StartPlaces, StopPlaces
<1>3. OwnerInv'
  BY <1>1, <1>2 DEF OwnerInv, PlaceInv
<1>4. NothingForgotten'
  BY <1>1, <1>2 DEF NothingForgotten, PlaceInv
<1>5. PlaceInv'
  BY <1>1, <1>2 DEF PlaceInv, NothingForgotten, CaptureInv, ReadyInv
<1>6. CaptureInv'
  BY <1>1, <1>2 DEF CaptureInv, PlaceInv, NothingForgotten
<1>7. ReadyInv'
  BY <1>1, <1>2 DEF ReadyInv, PlaceInv, NothingForgotten, CaptureInv
<1>8. QED
  BY <1>1, <1>3, <1>4, <1>5, <1>6, <1>7

LEMMA StartedStep == IInv /\ Started => IInv'
<1> SUFFICES ASSUME IInv, Started PROVE IInv'
  OBVIOUS
<1>1. Typed'
  <2>1. call.cfg \in Cfg /\ cap' \in [Cfg -> CapSet]
    BY CallTyped, CapTyped DEF IInv, Started, At
  <2>2. nvic' \in NvicSet
    BY DEF IInv, Started, Typed, NvicSet
  <2>3. QED
    BY <2>1, <2>2, ReturnTyped DEF IInv, Started, Typed, Statuses
<1>2. call.cfg \in Cfg
  BY CallTyped DEF IInv, Started, Return, At
<1> USE DEF IInv, Started, Return, At,
        Typed, FlagSet, CapSet, HwSet, NvicSet, CallSet, Places, InitPlaces, StartPlaces, StopPlaces
<1>3. OwnerInv'
  BY <1>1, <1>2 DEF OwnerInv, PlaceInv
<1>4. NothingForgotten'
  BY <1>1, <1>2 DEF NothingForgotten, PlaceInv
<1>5. PlaceInv'
  BY <1>1, <1>2 DEF PlaceInv, NothingForgotten, CaptureInv, ReadyInv
<1>6. CaptureInv'
  BY <1>1, <1>2 DEF CaptureInv, PlaceInv, NothingForgotten
<1>7. ReadyInv'
  BY <1>1, <1>2 DEF ReadyInv, PlaceInv, NothingForgotten, CaptureInv
<1>8. QED
  BY <1>1, <1>3, <1>4, <1>5, <1>6, <1>7

LEMMA LineOffStep == IInv /\ LineOff => IInv'
<1> SUFFICES ASSUME IInv, LineOff PROVE IInv'
  OBVIOUS
<1>1. Typed'
  <2>1. call.cfg \in Cfg /\ cap' \in [Cfg -> CapSet]
    BY CallTyped, CapTyped DEF IInv, LineOff, At
  <2>2. nvic' \in NvicSet
    BY DEF IInv, LineOff, Typed, NvicSet
  <2>3. RegistersIfPowered \in Places \ {"idle"}
    BY DEF RegistersIfPowered, Places
  <2>4. QED
    BY <2>1, <2>2, <2>3, GotoTyped DEF IInv, LineOff, Typed, At
<1>2. call.cfg \in Cfg
  BY CallTyped DEF IInv, LineOff, RegistersIfPowered, Goto, At
<1> USE DEF IInv, LineOff, RegistersIfPowered, Goto, At,
        Typed, FlagSet, CapSet, HwSet, NvicSet, CallSet, Places, InitPlaces, StartPlaces, StopPlaces
<1>3. OwnerInv'
  BY <1>1, <1>2 DEF OwnerInv, PlaceInv
<1>4. NothingForgotten'
  BY <1>1, <1>2 DEF NothingForgotten, PlaceInv
<1>5. PlaceInv'
  BY <1>1, <1>2 DEF PlaceInv, NothingForgotten, CaptureInv, ReadyInv
<1>6. CaptureInv'
  BY <1>1, <1>2 DEF CaptureInv, PlaceInv, NothingForgotten
<1>7. ReadyInv'
  BY <1>1, <1>2 DEF ReadyInv, PlaceInv, NothingForgotten, CaptureInv
<1>8. QED
  BY <1>1, <1>3, <1>4, <1>5, <1>6, <1>7

LEMMA PowerOffStep == IInv /\ PowerOff => IInv'
<1> SUFFICES ASSUME IInv, PowerOff PROVE IInv'
  OBVIOUS
<1>1. Typed'
  <2>1. ~At("idle")
    BY DEF PowerOff, At
  <2>2. CASE StopFailed /\ UNCHANGED hw
    BY <2>1, <2>2, StopFailedTyped DEF IInv, PowerOff, Typed
  <2>3. CASE /\ hw' \in {hw, [hw EXCEPT !.power = FALSE]}
             /\ flags' \in {flags, [flags EXCEPT !.powered = FALSE, !.requested = FALSE]}
             /\ Goto("deinitialize") /\ UNCHANGED cap
    <3>1. hw' \in HwSet /\ flags' \in FlagSet
      BY <2>3 DEF IInv, PowerOff, Typed, HwSet, FlagSet
    <3>2. QED
      BY <2>1, <2>3, <3>1, GotoTyped DEF IInv, PowerOff, Typed, Places
  <2>4. QED
    BY <2>2, <2>3 DEF PowerOff
<1>2. call.cfg \in Cfg
  BY CallTyped DEF IInv, PowerOff, StopFailed, StopReturns, Goto, Return, At
<1> USE DEF IInv, PowerOff, StopFailed, StopReturns, Goto, Return, At,
        Typed, FlagSet, CapSet, HwSet, NvicSet, CallSet, Places, InitPlaces, StartPlaces, StopPlaces
<1>3. OwnerInv'
  BY <1>1, <1>2 DEF OwnerInv, PlaceInv
<1>4. NothingForgotten'
  <2>1. CASE /\ flags.requested /\ hw' = [hw EXCEPT !.power = FALSE]
             /\ flags' = [flags EXCEPT !.powered = FALSE, !.requested = FALSE]
             /\ call' = [call EXCEPT !.place = "deinitialize"] /\ UNCHANGED <<owner, cap>>
    BY <1>1, <1>2, <2>1 DEF PlaceInv, NothingForgotten
  <2>2. CASE ~flags.requested /\ UNCHANGED <<owner, flags, cap, hw>>
             /\ call' = [call EXCEPT !.place = "deinitialize"]
    BY <1>1, <1>2, <2>2 DEF PlaceInv, NothingForgotten
  <2>3. CASE /\ call' = [place |-> "idle", cfg |-> None, undo |-> FALSE]
             /\ UNCHANGED <<owner, flags, hw>>
    BY <1>1, <1>2, <2>3 DEF PlaceInv, NothingForgotten
  <2>4. QED
    BY <2>1, <2>2, <2>3
<1>5. PlaceInv'
  <2>1. CASE /\ flags.requested /\ hw' = [hw EXCEPT !.power = FALSE]
             /\ flags' = [flags EXCEPT !.powered = FALSE, !.requested = FALSE]
             /\ call' = [call EXCEPT !.place = "deinitialize"] /\ UNCHANGED <<owner, cap>>
    BY <1>1, <1>2, <2>1 DEF PlaceInv, NothingForgotten
  <2>2. CASE ~flags.requested /\ UNCHANGED <<owner, flags, cap, hw>>
             /\ call' = [call EXCEPT !.place = "deinitialize"]
    BY <1>1, <1>2, <2>2 DEF PlaceInv, NothingForgotten
  <2>3. CASE /\ call' = [place |-> "idle", cfg |-> None, undo |-> FALSE]
             /\ UNCHANGED <<owner, flags, hw>>
    BY <1>1, <1>2, <2>3 DEF PlaceInv, NothingForgotten
  <2>4. QED
    BY <2>1, <2>2, <2>3
<1>6. CaptureInv'
  BY <1>1, <1>2 DEF CaptureInv, PlaceInv, NothingForgotten
<1>7. ReadyInv'
  BY <1>1, <1>2 DEF ReadyInv, PlaceInv, NothingForgotten, CaptureInv
<1>8. QED
  BY <1>1, <1>3, <1>4, <1>5, <1>6, <1>7

LEMMA DeinitializeStep == IInv /\ Deinitialize => IInv'
<1> SUFFICES ASSUME IInv, Deinitialize PROVE IInv'
  OBVIOUS
<1>1. Typed'
  <2>1. call.cfg \in Cfg /\ ~At("idle")
    BY CallTyped DEF IInv, Deinitialize, At
  <2>2. CASE StopFailed /\ OwnerRetained /\ UNCHANGED hw
    BY <2>1, <2>2, StopFailedTyped DEF IInv, Deinitialize, OwnerRetained, Typed
  <2>3. CASE /\ hw' = [hw EXCEPT !.open = FALSE]
             /\ flags' = [flags EXCEPT !.pins = FALSE]
             /\ cap' = [cap EXCEPT ![call.cfg].handle = FALSE,
                     ![call.cfg].error = IF call.undo THEN "INIT_FAILED" ELSE "SUCCESS"]
             /\ owner' = None /\ StopReturns("SUCCESS")
    <3>1. hw' \in HwSet /\ flags' \in FlagSet
      BY <2>3 DEF IInv, Deinitialize, Typed, HwSet, FlagSet
    <3>2. cap' \in [Cfg -> CapSet]
      BY <2>1, <2>3, CapTyped DEF IInv
    <3>3. Return("SUCCESS") \/ Return("INIT_FAILED")
      BY <2>3 DEF StopReturns
    <3>4. QED
      BY <2>1, <2>3, <3>1, <3>2, <3>3, ReturnTyped DEF IInv, Deinitialize, Typed, Statuses
  <2>4. QED
    BY <2>2, <2>3 DEF Deinitialize
<1>2. call.cfg \in Cfg
  BY CallTyped DEF IInv, Deinitialize, StopFailed, StopReturns, OwnerRetained, Return, At
<1> USE DEF IInv, Deinitialize, StopFailed, StopReturns, OwnerRetained, Return, At,
        Typed, FlagSet, CapSet, HwSet, NvicSet, CallSet, Places, InitPlaces, StartPlaces, StopPlaces
<1>3. OwnerInv'
  BY <1>1, <1>2 DEF OwnerInv, PlaceInv
<1>4. NothingForgotten'
  BY <1>1, <1>2 DEF NothingForgotten, PlaceInv
<1>5. PlaceInv'
  BY <1>1, <1>2 DEF PlaceInv, NothingForgotten, CaptureInv, ReadyInv
<1>6. CaptureInv'
  BY <1>1, <1>2 DEF CaptureInv, PlaceInv, NothingForgotten
<1>7. ReadyInv'
  BY <1>1, <1>2 DEF ReadyInv, PlaceInv, NothingForgotten, CaptureInv
<1>8. QED
  BY <1>1, <1>3, <1>4, <1>5, <1>6, <1>7

LEMMA CallInitStep == ASSUME NEW c \in Cfg, IInv, CallInit(c) PROVE IInv'
<1>1. Typed'
  <2>1. cap' \in [Cfg -> CapSet] /\ flags' \in FlagSet
    <3> DEFINE fresh == [handle |-> FALSE, started |-> FALSE, error |-> "INIT_FAILED"]
    <3>1. fresh \in CapSet
      BY DEF CapSet
    <3>2. cap' = cap \/ cap' = [cap EXCEPT ![c] = fresh]
      BY DEF CallInit
    <3> HIDE DEF fresh
    <3>3. QED
      BY <3>1, <3>2 DEF IInv, CallInit, Typed
  <2>2. CASE \E status \in Statuses : Return(status)
    BY <2>1, <2>2, ReturnTyped DEF IInv, CallInit, Typed
  <2>3. CASE call' = [place |-> "clock", cfg |-> c, undo |-> FALSE] /\ UNCHANGED ret
    BY <2>1, <2>3 DEF IInv, CallInit, Typed, CallSet, Places, At
  <2>4. QED
    BY <2>2, <2>3 DEF CallInit, Refused, Statuses
<1> USE DEF IInv, CallInit, Taken, Refused, Return, At,
        Typed, FlagSet, CapSet, HwSet, NvicSet, CallSet, Places, InitPlaces, StartPlaces, StopPlaces
<1>3. OwnerInv'
  BY <1>1 DEF OwnerInv, PlaceInv
<1>4. NothingForgotten'
  BY <1>1 DEF NothingForgotten, PlaceInv
<1>5. PlaceInv'
  <2>1. CASE Refused /\ UNCHANGED cap
    BY <1>1, <2>1 DEF PlaceInv
  <2>2. CASE /\ ~Taken
             /\ cap' = [cap EXCEPT ![c] = [handle |-> FALSE, started |-> FALSE, error |-> "INIT_FAILED"]]
             /\ call' = [place |-> "clock", cfg |-> c, undo |-> FALSE]
    <3>1. cap'[c] = [handle |-> FALSE, started |-> FALSE, error |-> "INIT_FAILED"]
      BY <2>2
    <3>2. QED
      BY <1>1, <2>2, <3>1 DEF PlaceInv
  <2>3. QED
    BY <2>1, <2>2
<1>6. CaptureInv'
  BY <1>1 DEF CaptureInv, PlaceInv, NothingForgotten
<1>7. ReadyInv'
  BY <1>1 DEF ReadyInv, PlaceInv, NothingForgotten, CaptureInv
<1>8. QED
  BY <1>1, <1>3, <1>4, <1>5, <1>6, <1>7

LEMMA CallStartStep == ASSUME NEW c \in Cfg, IInv, CallStart(c) PROVE IInv'
<1>1. Typed'
  <2>1. cap' \in [Cfg -> CapSet] /\ flags' \in FlagSet
    BY DEF IInv, CallStart, Typed, CapSet, FlagSet
  <2>2. CASE \E status \in Statuses : Return(status)
    BY <2>1, <2>2, ReturnTyped DEF IInv, CallStart, Typed
  <2>3. CASE call' = [place |-> "enable", cfg |-> c, undo |-> FALSE] /\ UNCHANGED ret
    BY <2>1, <2>3 DEF IInv, CallStart, Typed, CallSet, Places, At
  <2>4. QED
    BY <2>2, <2>3 DEF CallStart, Refused, Statuses
<1> USE DEF IInv, CallStart, Owns, Startable, Refused, Return, At,
        Typed, FlagSet, CapSet, HwSet, NvicSet, CallSet, Places, InitPlaces, StartPlaces, StopPlaces
<1>3. OwnerInv'
  BY <1>1 DEF OwnerInv, PlaceInv
<1>4. NothingForgotten'
  BY <1>1 DEF NothingForgotten, PlaceInv
<1>5. PlaceInv'
  BY <1>1 DEF PlaceInv, NothingForgotten, CaptureInv, ReadyInv
<1>6. CaptureInv'
  BY <1>1 DEF CaptureInv, PlaceInv, NothingForgotten
<1>7. ReadyInv'
  BY <1>1 DEF ReadyInv, PlaceInv, NothingForgotten, CaptureInv
<1>8. QED
  BY <1>1, <1>3, <1>4, <1>5, <1>6, <1>7

LEMMA CallStopStep == ASSUME NEW c \in Cfg, IInv, CallStop(c) PROVE IInv'
<1>1. Typed'
  <2>1. cap' \in [Cfg -> CapSet] /\ flags' \in FlagSet
    BY DEF IInv, CallStop, Typed, CapSet, FlagSet
  <2>2. CASE \E status \in Statuses : Return(status)
    BY <2>1, <2>2, ReturnTyped DEF IInv, CallStop, Typed
  <2>3. CASE call' = [place |-> "owned", cfg |-> c, undo |-> FALSE] /\ UNCHANGED ret
    BY <2>1, <2>3 DEF IInv, CallStop, Typed, CallSet, Places, At
  <2>4. QED
    BY <2>2, <2>3 DEF CallStop, Statuses
<1> USE DEF IInv, CallStop, Owns, Return, At,
        Typed, FlagSet, CapSet, HwSet, NvicSet, CallSet, Places, InitPlaces, StartPlaces, StopPlaces
<1>3. OwnerInv'
  BY <1>1 DEF OwnerInv, PlaceInv
<1>4. NothingForgotten'
  BY <1>1 DEF NothingForgotten, PlaceInv
<1>5. PlaceInv'
  BY <1>1 DEF PlaceInv, NothingForgotten, CaptureInv, ReadyInv
<1>6. CaptureInv'
  BY <1>1 DEF CaptureInv, PlaceInv, NothingForgotten
<1>7. ReadyInv'
  BY <1>1 DEF ReadyInv, PlaceInv, NothingForgotten, CaptureInv
<1>8. QED
  BY <1>1, <1>3, <1>4, <1>5, <1>6, <1>7

LEMMA HandlerFailsStep == ASSUME IInv, Live, HandlerFails, UNCHANGED <<owner, flags, call, ret>> PROVE IInv'
<1>1. Typed'
  <2>1. owner \in Cfg /\ hw' \in HwSet /\ nvic' \in NvicSet
    BY DEF IInv, HandlerFails, CaptureFailed, LineDisabled, Live, Typed, HwSet, NvicSet
  <2>2. cap' \in [Cfg -> CapSet]
    BY <2>1, CapTyped DEF IInv, HandlerFails, CaptureFailed
  <2>3. QED
    BY <2>1, <2>2 DEF IInv, HandlerFails, Typed, At
<1> USE DEF IInv, HandlerFails, CaptureFailed, LineDisabled, Live, At,
        Typed, FlagSet, CapSet, HwSet, NvicSet, CallSet, Places, InitPlaces, StartPlaces, StopPlaces
<1>3. OwnerInv'
  BY <1>1 DEF OwnerInv, PlaceInv
<1>4. NothingForgotten'
  BY <1>1 DEF NothingForgotten, PlaceInv
<1>5. PlaceInv'
  BY <1>1 DEF PlaceInv, NothingForgotten, CaptureInv, ReadyInv
<1>6. CaptureInv'
  BY <1>1 DEF CaptureInv, PlaceInv, NothingForgotten
<1>7. ReadyInv'
  BY <1>1 DEF ReadyInv, PlaceInv, NothingForgotten, CaptureInv
<1>8. QED
  BY <1>1, <1>3, <1>4, <1>5, <1>6, <1>7

LEMMA HandlerServesStep == ASSUME IInv, HandlerServes, UNCHANGED <<owner, flags, call, ret>> PROVE IInv'
<1>1. Typed'
  <2>1. hw' \in HwSet /\ nvic' \in NvicSet
    BY DEF IInv, HandlerServes, Typed, HwSet, NvicSet
  <2>2. QED
    BY <2>1 DEF IInv, HandlerServes, Typed, At
<1> USE DEF IInv, HandlerServes, At,
        Typed, FlagSet, CapSet, HwSet, NvicSet, CallSet, Places, InitPlaces, StartPlaces, StopPlaces
<1>3. OwnerInv'
  BY <1>1 DEF OwnerInv, PlaceInv
<1>4. NothingForgotten'
  BY <1>1 DEF NothingForgotten, PlaceInv
<1>5. PlaceInv'
  BY <1>1 DEF PlaceInv, NothingForgotten, CaptureInv, ReadyInv
<1>6. CaptureInv'
  BY <1>1 DEF CaptureInv, PlaceInv, NothingForgotten
<1>7. ReadyInv'
  BY <1>1 DEF ReadyInv, PlaceInv, NothingForgotten, CaptureInv
<1>8. QED
  BY <1>1, <1>3, <1>4, <1>5, <1>6, <1>7

LEMMA HandlerIgnoresStep == ASSUME IInv, HandlerIgnores, UNCHANGED <<owner, flags, call, ret>> PROVE IInv'
<1>1. Typed'
  <2>1. nvic' \in NvicSet
    BY DEF IInv, HandlerIgnores, Typed, NvicSet
  <2>2. QED
    BY <2>1 DEF IInv, HandlerIgnores, Typed, At
<1> USE DEF IInv, HandlerIgnores, At,
        Typed, FlagSet, CapSet, HwSet, NvicSet, CallSet, Places, InitPlaces, StartPlaces, StopPlaces
<1>3. OwnerInv'
  BY <1>1 DEF OwnerInv, PlaceInv
<1>4. NothingForgotten'
  BY <1>1 DEF NothingForgotten, PlaceInv
<1>5. PlaceInv'
  BY <1>1 DEF PlaceInv, NothingForgotten, CaptureInv, ReadyInv
<1>6. CaptureInv'
  BY <1>1 DEF CaptureInv, PlaceInv, NothingForgotten
<1>7. ReadyInv'
  BY <1>1 DEF ReadyInv, PlaceInv, NothingForgotten, CaptureInv
<1>8. QED
  BY <1>1, <1>3, <1>4, <1>5, <1>6, <1>7

LEMMA RaiseStep == ASSUME NEW bit \in Bits, IInv, Raise(bit) PROVE IInv'
<1>1. Typed'
  <2>1. hw' \in HwSet
    BY DEF IInv, Raise, Typed, HwSet
  <2>2. nvic' \in NvicSet
    <3>1. (nvic.pending \/ hw.inten) \in BOOLEAN
      BY Zenon
    <3>2. QED
      BY <3>1 DEF IInv, Raise, Typed, NvicSet
  <2>3. QED
    BY <2>1, <2>2 DEF IInv, Raise, Typed, At
<1> USE DEF IInv, Raise, At,
        Typed, FlagSet, CapSet, HwSet, NvicSet, CallSet, Places, InitPlaces, StartPlaces, StopPlaces
<1>3. OwnerInv'
  BY <1>1 DEF OwnerInv, PlaceInv
<1>4. NothingForgotten'
  BY <1>1 DEF NothingForgotten, PlaceInv
<1>5. PlaceInv'
  BY <1>1 DEF PlaceInv, NothingForgotten, CaptureInv, ReadyInv
<1>6. CaptureInv'
  BY <1>1 DEF CaptureInv, PlaceInv, NothingForgotten
<1>7. ReadyInv'
  BY <1>1 DEF ReadyInv, PlaceInv, NothingForgotten, CaptureInv
<1>8. QED
  BY <1>1, <1>3, <1>4, <1>5, <1>6, <1>7

-----------------------------------------------------------------------------
IsrTyped == isr \in {"idle", "free", "bound"} /\ waiting \in BOOLEAN

LEMMA InitIInv == PdmInit => IInv /\ IsrTyped
<1> SUFFICES ASSUME PdmInit PROVE IInv /\ IsrTyped
  OBVIOUS
<1>1. Typed
  BY DEF PdmInit, Typed, FlagSet, CapSet, HwSet, NvicSet, CallSet, Places, Statuses, At
<1>2. OwnerInv /\ NothingForgotten /\ ReadyInv
  BY DEF PdmInit, OwnerInv, NothingForgotten, ReadyInv
<1>3. PlaceInv /\ CaptureInv
  BY DEF PdmInit, PlaceInv, CaptureInv, InitPlaces, StartPlaces, StopPlaces, At
<1>4. IsrTyped
  BY DEF PdmInit, IsrTyped
<1>5. QED
  BY <1>1, <1>2, <1>3, <1>4 DEF IInv

LEMMA StutterIInv ==
  ASSUME IInv, UNCHANGED <<owner, flags, cap, hw, nvic, call, ret>>
  PROVE  IInv'
  BY DEF IInv, Typed, OwnerInv, NothingForgotten, PlaceInv, CaptureInv, ReadyInv, At

LEMMA HandlerStep == IInv /\ Handler => IInv'
  BY HandlerFailsStep, HandlerServesStep, HandlerIgnoresStep DEF Handler

LEMMA StepsStep == IInv /\ Steps => IInv'
  BY ClockStep, InitializeStep, PowerOnStep, ConfigureStep, FifoStep, IntEnableStep,
     InitDoneStep, EnableStep, DmaStartStep, StartedStep, LineOffStep, IntDisableStep,
     IntClearStep, DmaStopStep, DisableStep, PowerOffStep, DeinitializeStep DEF Steps

LEMMA NextIInv == IInv /\ [PdmNext]_vars => IInv'
<1> SUFFICES ASSUME IInv, [PdmNext]_vars PROVE IInv'
  OBVIOUS
<1>1. CASE Lifecycle
  BY <1>1, CallInitStep, CallStartStep, CallStopStep DEF Lifecycle, Calls
<1>2. CASE Proceed
  BY <1>2, StepsStep DEF Proceed
<1>3. CASE Handler
  BY <1>3, HandlerStep
<1>4. CASE HandlerReturn
  BY <1>4, StutterIInv DEF HandlerReturn, NotTouched
<1>5. CASE \E bit \in Bits : Raise(bit)
  BY <1>5, RaiseStep
<1>6. CASE UNCHANGED vars
  BY <1>6, StutterIInv DEF vars
<1>7. QED
  BY <1>1, <1>2, <1>3, <1>4, <1>5, <1>6 DEF PdmNext

(* The history variable and the place of the handler. *)
LEMMA NextIsrTyped == IsrTyped /\ [PdmNext]_vars => IsrTyped'
<1> SUFFICES ASSUME IsrTyped, [PdmNext]_vars PROVE IsrTyped'
  OBVIOUS
<1> USE DEF IsrTyped
<1>1. CASE Lifecycle
  BY <1>1 DEF Lifecycle
<1>2. CASE Proceed
  <2>1. waiting' \in BOOLEAN
    BY <1>2, Zenon DEF Proceed, Forget
  <2>2. QED
    BY <1>2, <2>1 DEF Proceed
<1>3. CASE Handler
  BY <1>3 DEF Handler, HandlerFails, HandlerServes, HandlerIgnores
<1>4. CASE HandlerReturn
  BY <1>4 DEF HandlerReturn
<1>5. ASSUME NEW bit \in Bits, Raise(bit) PROVE IsrTyped'
  <2>1. waiting' \in BOOLEAN
    BY <1>5, Zenon DEF Raise
  <2>2. QED
    BY <1>5, <2>1 DEF Raise
<1>6. CASE UNCHANGED vars
  BY <1>6 DEF vars
<1>7. QED
  BY <1>1, <1>2, <1>3, <1>4, <1>5, <1>6 DEF PdmNext

LEMMA Inductive == PdmSpec => [](IInv /\ IsrTyped)
  BY InitIInv, NextIInv, NextIsrTyped, PTL DEF PdmSpec

(* The types, one owner of the microphone included, for every set of       *)
(* configurations.                                                         *)
THEOREM TypeCorrect == PdmSpec => []TypeOK
<1>1. IInv /\ IsrTyped => TypeOK
  BY TypedIsTypeOK DEF IInv, IsrTyped
<1>2. QED
  BY <1>1, Inductive, PTL

(* No sequence of failures and retries makes a HAL call the PDM is not     *)
(* ready for (nsx_pdm_apollo5.c:185-293, 404-493).                         *)
THEOREM CallsLegal == PdmSpec => []HalCallsLegal
<1>1. IInv => HalCallsLegal
  BY DEF IInv, HalCallsLegal, Typed, CallSet, HwSet, FlagSet, NothingForgotten, PlaceInv,
         CaptureInv, InitPlaces, StartPlaces, StopPlaces, At, InterruptWaits, Live
<1>2. QED
  BY <1>1, Inductive, PTL

(* What the hardware holds always has an owner and a flag, whichever HAL   *)
(* calls have failed.                                                      *)
THEOREM TeardownRetained == PdmSpec => []NothingForgotten
<1>1. IInv => NothingForgotten
  BY DEF IInv
<1>2. QED
  BY <1>1, Inductive, PTL

(* The interrupt line is enabled only while its owner captures.            *)
THEOREM LineCorrect == PdmSpec => []LineOnlyWhileCapturing
<1>1. IInv => LineOnlyWhileCapturing
  BY DEF IInv, Typed, LineOnlyWhileCapturing, NothingForgotten, CaptureInv
<1>2. QED
  BY <1>1, Inductive, PTL

(* "A failed start/capture requires stop, then init": while a configuration *)
(* stays the owner, nothing but a new init clears its error.               *)
THEOREM ErrorStays == PdmSpec => ErrorLatched
<1>1. ASSUME IInv, [PdmNext]_vars, NEW c \in Cfg, owner = c, owner' = c, cap[c].error = "FAILURE"
      PROVE  cap'[c].error # "SUCCESS" /\ ~cap'[c].started
  <2> USE <1>1 DEF IInv, At
  <2>1. ~cap[c].started /\ cap \in [Cfg -> CapSet]
    BY DEF CaptureInv, Typed
  <2> USE <2>1 DEF CapSet
  <2>2. ASSUME NEW d \in Cfg, CallInit(d) \/ CallStart(d) \/ CallStop(d)
        PROVE  cap'[c].error # "SUCCESS" /\ ~cap'[c].started
    BY <2>2 DEF CallInit, CallStart, CallStop, Taken
  <2>3. CASE Steps
    <3>1. CASE Clock \/ PowerOn \/ Configure \/ Fifo \/ IntEnable
      BY <3>1 DEF Clock, PowerOn, Configure, Fifo, IntEnable, InitStep
    <3>2. CASE Initialize \/ InitDone
      BY <3>2 DEF Initialize, InitDone, PlaceInv, InitPlaces
    <3>3. CASE Enable \/ DmaStart \/ Started
      BY <3>3 DEF Enable, DmaStart, Started, StartStep, PlaceInv, StartPlaces
    <3>4. CASE LineOff
      BY <3>4 DEF LineOff
    <3>5. CASE StopFailed
      BY <3>5 DEF StopFailed
    <3>6. CASE ~StopFailed /\ (IntDisable \/ IntClear \/ DmaStop \/ Disable \/ PowerOff \/ Deinitialize)
      BY <3>6 DEF IntDisable, IntClear, DmaStop, Disable, PowerOff, Deinitialize, StopStep
    <3>7. QED
      BY <2>3, <3>1, <3>2, <3>3, <3>4, <3>5, <3>6 DEF Steps
  <2>4. CASE Handler
    BY <2>4 DEF Handler, HandlerFails, HandlerServes, HandlerIgnores, CaptureFailed
  <2>5. CASE UNCHANGED cap
    BY <2>5
  <2>6. QED
    BY <2>2, <2>3, <2>4, <2>5 DEF PdmNext, Lifecycle, Calls, Proceed, HandlerReturn, Raise, vars
<1>2. IInv /\ [PdmNext]_vars =>
        [\A c \in Cfg : owner = c /\ owner' = c /\ cap[c].error = "FAILURE" =>
           cap'[c].error # "SUCCESS" /\ ~cap'[c].started]_vars
  BY <1>1
<1>3. QED
  BY <1>2, Inductive, PTL DEF PdmSpec, ErrorLatched
===============================================================================
