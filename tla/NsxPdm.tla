-------------------------------- MODULE NsxPdm --------------------------------
(***************************************************************************)
(* PDM capture on Apollo5, nsx-audio/src/apollo5/nsx_pdm_apollo5.c: init,  *)
(* start, stop and the interrupt handler of one microphone.  Every table   *)
(* of the driver is indexed by the microphone and no call touches two      *)
(* entries, so one microphone is all of it.                                *)
(*                                                                         *)
(* Each HAL call is a step that may fail, and a failing one may have had   *)
(* its effect or not; only a power-off that fails has left the power on.   *)
(* The hardware raises its status bits at any time, the handler interrupts *)
(* the foreground between any two steps, and its callback may itself make  *)
(* lifecycle calls.  The application serialises lifecycle calls, as the    *)
(* README of the module demands: a callback makes one only while the       *)
(* foreground is in none.  A configuration is a member of Cfg; validation, *)
(* clock policy and conversion of samples are the choices they leave.      *)
(***************************************************************************)
EXTENDS Naturals

CONSTANTS Cfg,   \* nsx_audio_config_t objects that name this microphone
          None   \* NULL

ASSUME CfgAssumption == None \notin Cfg

VARIABLES
  owner,    \* g_pdm_cfgs[mic]
  flags,    \* g_powered, g_power_requested, g_enable_attempted, g_pins_enabled
  cap,      \* per configuration: handle (_pdm_handle is set), _started, _last_error
  hw,       \* the PDM: handle given out, power, its interrupt enable, the
            \* module enabled, its DMA running, the status bits raised
  nvic,     \* its NVIC line: enabled, pending
  call,     \* the lifecycle call under way: place, object, stop inside init
  isr,      \* "idle"; in the callback: "free" to make lifecycle calls, or
            \* "bound" because it interrupted one
  ret,      \* what the last lifecycle call returned
  waiting   \* history: a frame is complete and no callback has begun since

vars == <<owner, flags, cap, hw, nvic, call, isr, ret, waiting>>

Bits == {"dcmp", "error"}   \* the enabled ones; error: DERR, UNDFL or OVF

PdmInit ==
  /\ owner = None
  /\ flags = [powered |-> FALSE, requested |-> FALSE, attempted |-> FALSE, pins |-> FALSE]
  /\ cap = [c \in Cfg |-> [handle |-> FALSE, started |-> FALSE, error |-> "INIT_FAILED"]]
  /\ hw = [open |-> FALSE, power |-> FALSE, inten |-> FALSE, enabled |-> FALSE,
           dma |-> FALSE, raised |-> {}]
  /\ nvic = [on |-> FALSE, pending |-> FALSE]
  /\ call = [place |-> "idle", cfg |-> None, undo |-> FALSE]
  /\ isr = "idle" /\ ret = "SUCCESS" /\ waiting = FALSE

At(place) == call.place = place
Goto(place) == call' = [call EXCEPT !.place = place] /\ UNCHANGED ret
Return(status) ==
  call' = [place |-> "idle", cfg |-> None, undo |-> FALSE] /\ ret' = status

Owns(c) == owner = c /\ cap[c].handle

(* What an unsuccessful HAL call leaves: `after' is what it does when it   *)
(* succeeds.                                                               *)
Fails(after) == hw' \in {hw, after}

-----------------------------------------------------------------------------
(* nsx_audio_init. *)

NeverTaken == FALSE       \* mutant

Taken == owner # None

(* Validation, state, and the clock policy, which asks the HAL.            *)
Refused == \E status \in {"INVALID_CONFIG", "FAILURE"} : Return(status)

CallInit(c) ==
  /\ At("idle")
  /\ \/ Refused /\ UNCHANGED cap
     \/ /\ ~Taken
        /\ cap' = [cap EXCEPT ![c] = [handle |-> FALSE, started |-> FALSE,
                                      error |-> "INIT_FAILED"]]
        /\ call' = [place |-> "clock", cfg |-> c, undo |-> FALSE]
        /\ UNCHANGED ret
  /\ UNCHANGED <<owner, flags, hw, nvic>>

Clock ==
  /\ At("clock")
  /\ Goto("initialize") \/ Return("INIT_FAILED")
  /\ UNCHANGED <<owner, flags, cap, hw, nvic>>

Initialize ==
  /\ At("initialize")
  /\ \/ /\ hw' = [hw EXCEPT !.open = TRUE]
        /\ cap' = [cap EXCEPT ![call.cfg].handle = TRUE]
        /\ owner' = call.cfg
        /\ flags' = [flags EXCEPT !.requested = TRUE]
        /\ Goto("powerOn")
     \/ Return("INIT_FAILED") /\ UNCHANGED <<owner, flags, cap, hw>>
  /\ UNCHANGED nvic

(* A HAL call of init.  `init_failed' stops the capture on the way out.    *)
InitStep(place, hwAfter, flagsAfter, next) ==
  /\ At(place)
  /\ \/ hw' = hwAfter /\ flags' = flagsAfter /\ Goto(next)
     \/ /\ Fails(hwAfter)
        /\ call' = [call EXCEPT !.place = "owned", !.undo = TRUE]
        /\ UNCHANGED <<flags, ret>>
  /\ UNCHANGED <<owner, cap, nvic>>

PowerOn == InitStep("powerOn", [hw EXCEPT !.power = TRUE],
                    [flags EXCEPT !.powered = TRUE], "configure")

(* am_hal_pdm_configure, then the pins. *)
Configure == InitStep("configure", hw, [flags EXCEPT !.pins = TRUE], "fifo")

(* fifo_flush, fifo_threshold_setup, interrupt_clear. *)
Fifo == InitStep("fifo", [hw EXCEPT !.raised = {}], flags, "intEnable")

IntEnable == InitStep("intEnable", [hw EXCEPT !.inten = TRUE], flags, "initDone")

InitDone ==
  /\ At("initDone")
  /\ nvic' = [nvic EXCEPT !.pending = FALSE]
  /\ cap' = [cap EXCEPT ![call.cfg].error = "SUCCESS"]
  /\ Return("SUCCESS")
  /\ UNCHANGED <<owner, flags, hw>>

-----------------------------------------------------------------------------
(* nsx_audio_start. *)

LineLeftOn(line) == nvic' = line     \* mutant

LineDisabled(line) == nvic' = [line EXCEPT !.on = FALSE]

(* nsx_audio_capture_failed, with the NVIC line as it is by now. *)
CaptureFailed(c, line) ==
  /\ cap' = [cap EXCEPT ![c].started = FALSE, ![c].error = "FAILURE"]
  /\ LineDisabled(line)

StartableUnlatched(c) == ~cap[c].started   \* mutant

Startable(c) == ~cap[c].started /\ cap[c].error = "SUCCESS"

CallStart(c) ==
  /\ At("idle")
  /\ \/ ~Owns(c) /\ Return("INVALID_HANDLE") /\ UNCHANGED flags
     \/ Owns(c) /\ Refused /\ UNCHANGED flags
     \/ /\ Owns(c) /\ Startable(c)
        /\ flags' = [flags EXCEPT !.attempted = TRUE]
        /\ call' = [place |-> "enable", cfg |-> c, undo |-> FALSE]
        /\ UNCHANGED ret
  /\ UNCHANGED <<owner, cap, hw, nvic>>

StartStep(place, hwAfter, next) ==
  /\ At(place)
  /\ \/ hw' = hwAfter /\ Goto(next) /\ UNCHANGED <<cap, nvic>>
     \/ Fails(hwAfter) /\ CaptureFailed(call.cfg, nvic) /\ Return("FAILURE")
  /\ UNCHANGED <<owner, flags>>

Enable == StartStep("enable", [hw EXCEPT !.enabled = TRUE], "dmaStart")
DmaStart == StartStep("dmaStart", [hw EXCEPT !.dma = TRUE], "started")

Started ==
  /\ At("started")
  /\ cap' = [cap EXCEPT ![call.cfg].started = TRUE]
  /\ nvic' = [nvic EXCEPT !.on = TRUE]
  /\ Return("SUCCESS")
  /\ UNCHANGED <<owner, flags, hw>>

-----------------------------------------------------------------------------
(* nsx_audio_stop. *)

CallStop(c) ==
  /\ At("idle")
  /\ \/ ~Owns(c) /\ Return("INVALID_HANDLE")
     \/ Owns(c) /\ call' = [place |-> "owned", cfg |-> c, undo |-> FALSE] /\ UNCHANGED ret
  /\ UNCHANGED <<owner, flags, cap, hw, nvic>>

RegistersIfRequested == IF flags.requested THEN "intDisable" ELSE "powerOff"   \* mutant

(* Registers are left alone while the power is off. *)
RegistersIfPowered == IF flags.powered THEN "intDisable" ELSE "powerOff"

LineOff ==
  /\ At("owned")
  /\ nvic' = [nvic EXCEPT !.on = FALSE]
  /\ cap' = [cap EXCEPT ![call.cfg].started = FALSE]
  /\ Goto(RegistersIfPowered)
  /\ UNCHANGED <<owner, flags, hw>>

(* What stop returns; init_failed overrides both status and error. *)
StopReturns(status) ==
  IF call.undo THEN Return("INIT_FAILED") ELSE Return(status)

StopFailed ==
  /\ cap' = [cap EXCEPT ![call.cfg].error =
               IF call.undo THEN "INIT_FAILED" ELSE "FAILURE"]
  /\ StopReturns("FAILURE")
  /\ UNCHANGED flags

StopStep(place, needed, hwAfter, flagsAfter, next) ==
  /\ At(place)
  /\ \/ needed /\ hw' = hwAfter /\ flags' = flagsAfter /\ Goto(next) /\ UNCHANGED cap
     \/ needed /\ Fails(hwAfter) /\ StopFailed
     \/ ~needed /\ Goto(next) /\ UNCHANGED <<flags, cap, hw>>
  /\ UNCHANGED <<owner, nvic>>

IntDisable == StopStep("intDisable", TRUE, [hw EXCEPT !.inten = FALSE], flags, "intClear")
IntClear == StopStep("intClear", TRUE, [hw EXCEPT !.raised = {}], flags, "dmaStop")

DmaStop == StopStep("dmaStop", flags.attempted, [hw EXCEPT !.dma = FALSE],
                    flags, "disable")

Disable == StopStep("disable", flags.attempted, [hw EXCEPT !.enabled = FALSE],
                    [flags EXCEPT !.attempted = FALSE], "powerOff")

PowerOff ==
  /\ At("powerOff")
  /\ \/ /\ flags.requested
        /\ hw' = [hw EXCEPT !.power = FALSE]
        /\ flags' = [flags EXCEPT !.powered = FALSE, !.requested = FALSE]
        /\ Goto("deinitialize")
        /\ UNCHANGED cap
     \/ flags.requested /\ StopFailed /\ UNCHANGED hw
     \/ ~flags.requested /\ Goto("deinitialize") /\ UNCHANGED <<flags, cap, hw>>
  /\ UNCHANGED <<owner, nvic>>

OwnerDropped == owner' = None        \* mutant

(* After a failed teardown. *)
OwnerRetained == owner' = owner

Deinitialize ==
  /\ At("deinitialize")
  /\ \/ /\ hw' = [hw EXCEPT !.open = FALSE]
        /\ flags' = [flags EXCEPT !.pins = FALSE]
        /\ cap' = [cap EXCEPT ![call.cfg].handle = FALSE,
                              ![call.cfg].error = IF call.undo THEN "INIT_FAILED" ELSE "SUCCESS"]
        /\ owner' = None
        /\ StopReturns("SUCCESS")
     \/ StopFailed /\ OwnerRetained /\ UNCHANGED hw
  /\ UNCHANGED nvic

-----------------------------------------------------------------------------
(* pdm_isr_handler and the hardware. *)

(* The line is up, and the processor is in no handler of its priority. *)
InterruptWaits ==
  /\ nvic.on /\ isr = "idle"
  /\ nvic.pending \/ (hw.inten /\ hw.power /\ hw.raised # {})

Live == owner # None /\ cap[owner].handle /\ cap[owner].started

(* The status cannot be read or cleared, it shows an error, the service    *)
(* fails, or the completed buffer is not ours.                             *)
HandlerFails ==
  /\ hw' \in {hw, [hw EXCEPT !.raised = {}]}
  /\ CaptureFailed(owner, [nvic EXCEPT !.pending = FALSE])
  /\ UNCHANGED <<isr, waiting>>

(* Serviced; a completed frame is converted and handed to the callback. *)
HandlerServes ==
  /\ "error" \notin hw.raised
  /\ hw' = [hw EXCEPT !.raised = {}]
  /\ nvic' = [nvic EXCEPT !.pending = FALSE]
  /\ IF "dcmp" \in hw.raised
     THEN isr' = (IF At("idle") THEN "free" ELSE "bound") /\ waiting' = FALSE
     ELSE UNCHANGED <<isr, waiting>>
  /\ UNCHANGED cap

(* The handler returns early. *)
HandlerIgnores ==
  /\ nvic' = [nvic EXCEPT !.pending = FALSE]
  /\ UNCHANGED <<cap, hw, isr, waiting>>

Handler ==
  /\ InterruptWaits
  /\ IF Live THEN HandlerFails \/ HandlerServes ELSE HandlerIgnores
  /\ UNCHANGED <<owner, flags, call, ret>>

ClearAgain == hw' = [hw EXCEPT !.raised = {}]   \* mutant

NotTouched == UNCHANGED hw

(* The callback returns: nothing of the capture is touched any more. *)
HandlerReturn ==
  /\ isr = "bound" \/ (isr = "free" /\ At("idle"))
  /\ isr' = "idle"
  /\ NotTouched
  /\ UNCHANGED <<owner, flags, cap, nvic, call, ret, waiting>>

Raise(bit) ==
  /\ hw.power /\ hw.dma
  /\ hw' = [hw EXCEPT !.raised = @ \union {bit}]
  /\ nvic' = [nvic EXCEPT !.pending = @ \/ hw.inten]
  /\ waiting' = (waiting \/ bit = "dcmp")
  /\ UNCHANGED <<owner, flags, cap, call, isr, ret>>

-----------------------------------------------------------------------------
Calls == \E c \in Cfg : CallInit(c) \/ CallStart(c) \/ CallStop(c)

Steps ==
  \/ Clock \/ Initialize \/ PowerOn \/ Configure \/ Fifo \/ IntEnable \/ InitDone
  \/ Enable \/ DmaStart \/ Started
  \/ LineOff \/ IntDisable \/ IntClear \/ DmaStop \/ Disable \/ PowerOff \/ Deinitialize

(* A new capture's frames are its own. *)
Forget == waiting' = (waiting /\ ~At("dmaStart"))

Lifecycle == isr # "bound" /\ Calls /\ UNCHANGED <<isr, waiting>>
Proceed == isr # "bound" /\ Steps /\ Forget /\ UNCHANGED isr

PdmNext ==
  \/ Lifecycle \/ Proceed \/ Handler \/ HandlerReturn
  \/ \E bit \in Bits : Raise(bit)

(* The handler goes before the foreground, callbacks return, and a call    *)
(* waits for nothing.                                                      *)
Fairness == SF_vars(Handler) /\ SF_vars(HandlerReturn) /\ WF_vars(Proceed)

PdmSpec == PdmInit /\ [][PdmNext]_vars /\ Fairness

-----------------------------------------------------------------------------
Places ==
  {"idle", "clock", "initialize", "powerOn", "configure", "fifo", "intEnable",
   "initDone", "enable", "dmaStart", "started", "owned", "intDisable", "intClear",
   "dmaStop", "disable", "powerOff", "deinitialize"}
Statuses == {"SUCCESS", "INVALID_HANDLE", "INVALID_CONFIG", "INIT_FAILED", "FAILURE"}

(* The types, and a call has an object; only the owner has a handle, so no *)
(* two configurations ever drive the same microphone.                      *)
TypeOK ==
  /\ owner \in Cfg \union {None}
  /\ flags \in [powered : BOOLEAN, requested : BOOLEAN, attempted : BOOLEAN, pins : BOOLEAN]
  /\ cap \in [Cfg -> [handle : BOOLEAN, started : BOOLEAN,
                      error : {"SUCCESS", "INIT_FAILED", "FAILURE"}]]
  /\ hw \in [open : BOOLEAN, power : BOOLEAN, inten : BOOLEAN, enabled : BOOLEAN,
             dma : BOOLEAN, raised : SUBSET Bits]
  /\ nvic \in [on : BOOLEAN, pending : BOOLEAN]
  /\ call \in [place : Places, cfg : Cfg \union {None}, undo : BOOLEAN]
  /\ At("idle") <=> call.cfg = None
  /\ isr \in {"idle", "free", "bound"}
  /\ ret \in Statuses
  /\ waiting \in BOOLEAN
  /\ \A c \in Cfg : cap[c].handle => owner = c

(* Every HAL call finds the PDM as the HAL requires, after any sequence of *)
(* failures and retries: registers only with the power on ("powered-off    *)
(* register accesses are avoided on a retry", README), deinitialize only   *)
(* with it off, one DMA start on a stopped channel.                        *)
HalCallsLegal ==
  /\ call.place \in {"configure", "fifo", "intEnable", "enable", "dmaStart", "intDisable",
                     "intClear", "dmaStop", "disable"} => hw.open /\ hw.power
  /\ At("dmaStart") => ~hw.dma
  /\ At("deinitialize") => hw.open /\ ~hw.power
  /\ InterruptWaits /\ Live => hw.power /\ hw.dma

(* "Failed teardown retains the handle and instance ownership so stop can  *)
(* be retried": whatever the hardware still holds, the driver has an owner *)
(* and a flag for it, so the DMA never writes into buffers of a            *)
(* configuration whose stop has succeeded.                                 *)
NothingForgotten ==
  /\ hw.open => owner # None
  /\ hw.power => hw.open /\ flags.requested
  /\ hw.inten => flags.powered
  /\ hw.enabled \/ hw.dma => flags.powered /\ flags.attempted
  /\ flags.pins => owner # None
  /\ owner # None => hw.open /\ cap[owner].handle
  /\ flags.powered => hw.power /\ flags.requested

(* "IRQ delivery is disabled before teardown" and begins only with a       *)
(* complete capture: while the line is enabled its owner is started,       *)
(* without error, and its DMA runs.                                        *)
LineOnlyWhileCapturing ==
  nvic.on => /\ owner # None
             /\ cap[owner].started /\ cap[owner].error = "SUCCESS"
             /\ hw.power /\ hw.inten /\ hw.enabled /\ hw.dma

(* "A failed start/capture requires stop, then init before another start": *)
(* between calls, an owner with an error neither loses it nor is started   *)
(* while it stays the owner.                                               *)
ErrorLatched ==
  [][\A c \in Cfg :
       owner = c /\ owner' = c /\ cap[c].error = "FAILURE" =>
         cap'[c].error # "SUCCESS" /\ ~cap'[c].started]_vars

(* A completed frame reaches a callback, or the line is off because the    *)
(* capture has been stopped or has failed.                                 *)
FrameDelivered == waiting /\ nvic.on ~> ~waiting \/ ~nvic.on
=============================================================================
