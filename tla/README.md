# TLA+ models of the NSX SDK

The NSX SDK (`src/modules/nsx-*`) is a C library between an application and the
vendor HAL of Ambiq's Apollo and Atomiq microcontrollers. There is one processor:
what runs concurrently is foreground code, interrupt handlers and the callbacks
they make, RTOS tasks, and the hardware. This directory models the parts whose
correctness depends on how these interleave and on what a failing HAL call leaves
behind; TLC checks them on small instances, and TLAPS proves their safety properties for
every value of the constants.

Paths below are relative to `src/`; `core/`, `timer/`, `power/`, `interrupt/` stand
for `modules/nsx-core/` and so on.

## 1. Inventory

| Component | State | Operations | Interacts with | Hard behaviour | Correct when |
|---|---|---|---|---|---|
| Ring buffer, `core/src/nsx_ring_buffer.c` | volatile head, tail, overwrite flag; storage | init, push (refusing or overwriting), pop, used, flush, drain | its two users, often a handler and the main loop | fields read before interrupts are masked; equal indices mean empty or full | a bounded FIFO; nothing lost or doubled; frames whole |
| Timer (Apollo4), `timer/src/apollo4/nsx_timer_ap4.c` | owner table, per-timer ready / interrupt / callback | init, deinit, re-init, clear, read, handler | nsx-interrupt, HAL, callbacks, several owners | every HAL call may fail; a handler between any two of them; level-driven line | owner keeps its timer; released means off; callbacks only for a set-up owner; no interrupt storm |
| Interrupt dispatch, `interrupt/src/nsx_interrupt.c` | table of handler and context per line | register, unregister, enable, disable, set/clear pending, dispatch | timer, GPIO, eMMC, UART | pending bit against registration | no dispatch to a released context |
| TempCo helper, `power/src/apollo4/nsx_power_tempco.c` | flags of what was attempted, ADC handle, statuses | enable, disable, sleep hook, timer callback | timer, ADC HAL | failing setup releases, failing release is retried; callback in between; shared timer | HAL preconditions hold; nothing held is forgotten |
| Debug transport, `core/src/nsx_debug.c` | active, selected, error | init, disable, suspend, resume | platform debug calls, printf from interrupts | a switch is two platform calls | output only to a transport that is up |
| Startup guard and system init, `core/src/nsx_startup.c`, `nsx_system.c`, `power/src/nsx_power.c` | one guard variable | `nsx_system_init`, `nsx_hw_init`, `nsx_minimal_hw_init`, `nsx_power_configure` | debug, power, cache | two callers, re-entrant calls, failing steps | one startup per reset, in order, reported truly |
| Power profiles and platform configuration | none that outlives the call | configure, profiles, performance modes | HAL | register order (straight-line) | as one step of a startup |
| USB, `nsx-usb/src/nsx_usb.c` | guard depth, current config, ready flags | init, send, receive, read_nb, flush, service tick | timer, TinyUSB, callbacks | the guard is a plain counter; tick skipped while it is held; idle timeouts; flag cleared after the read | tick and task never both inside TinyUSB; bytes reported truly; received bytes announced; calls end |
| PDM audio, `nsx-audio/src/apollo5/nsx_pdm_apollo5.c` | per-microphone owner, power and pin flags, transfer | init, start, stop, handler | PDM HAL, DMA, cache, callback | callback replaces the capture; failed init unwound; stop retried | HAL preconditions hold; nothing held is forgotten; line on only while capturing; a failure stays latched |
| BLE services, `nsx-ble/src/ns_ble.c` | connection, subscriptions, timers | CCC changes, timer expiry, connection events | Cordio stack, callbacks | news queued while the stack moves on; callback that unsubscribes or disconnects; lost messages | timers run exactly for subscribed clients; a subscriber keeps being served |
| EM9305 transport, `nsx-cordio` | transmit and receive state | write, read, handler | Cordio, SPI | partial transfers | packets whole and in order |
| NPU, `nsx-npu/src` | initialized flag, timebase | init, deinit, wait with timeout | Ethos-U driver, power | unwinding; wrap-around of the tick | a wedged NPU times out |
| PSRAM, `nsx-psram/src` | info record with a three-state machine | init, deinit, read, write | MSPI HAL | failed state, range check | no access outside, no unsafe retry |
| UART, I2C, SPI, GPIO, eMMC | data-available flag; pin table; HAL handles | transfers, configuration | HAL, nsx-interrupt | flag against its interrupt (UART), read-modify-write (I2C) | no lost wake-up |
| Cache, performance, sbrk, retarget, presets, perf, FreeRTOS glue | little or none | single HAL operations | HAL | none found | - |
| SDK intake, `sdk-intake/intake_workflow.py` | directories on disk | stage a payload, promote a staged tree | file system, signals | interruption, error or kill at any statement; a half-finished staging that is promoted | the swap is atomic: the old tree or all of the staged one, or the old one is put aside |

Vendored code (AmbiqSuite HAL and BSP, TinyUSB, FreeRTOS, CMSIS) is not modelled: its
calls appear as steps that do their work or fail. The exception is Cordio, whose
dispatcher and subscription table decide in what order nsx-ble learns of things;
`NsxBleNotify` translates those few functions.

## 2. Plan

In this order, each with an MC module, a configuration and, where noted, proofs:

| Order | Modules | Composition or abstract specification | Proofs |
|---|---|---|---|
| 1 | `BoundedFifo`, `NsxRingBuffer`, `NsxRingBufferIsr` | `NsxRingBuffer` implements `BoundedFifo` | `NsxRingBufferProofs`, `NsxRingBufferIsrProofs` |
| 2 | `NsxTimer` | with the table of nsx-interrupt | `NsxTimerProofs` |
| 3 | `NsxTempCo` | composes with `NsxTimer` | `NsxTimerProofs` |
| 4 | `NsxDebug`, `NsxStartup` | the second composes with the first | `NsxStartupProofs` |
| 5 | `NsxPdm` | - | `NsxPdmProofs` |
| 6 | `NsxUsb` | on what the timer promises; TinyUSB external | `NsxUsbProofs` |
| 7 | `NsxBleNotify` | with Cordio's dispatcher and table | `NsxBleNotifyProofs` |
| 8 | `SdkPromotion` | - | `SdkPromotionProofs` |

What would come next is the transmit and receive state of the EM9305 transport and
the NPU's wait timebase modulo 2^32; section 6 says what is left out and why.

## 3. The modules

### Ring buffer

`NsxRingBuffer` translates the index arithmetic literally. `headIdx`, `tailIdx`,
`Overwrite` and `Data` are the fields of `nsx_ring_buffer_t`; `ret` is what the last
call gave its caller. Every masked section is one operator (`PushRefusingMasked`,
`PushOverwritingMasked`, `PopMasked`) that takes as arguments the locals the code
reads before it masks interrupts. In `NsxRingBuffer` these are the current values,
so a call is one step. `NsxRingBufferIsr` cuts the call of the main loop at every
unmasked access of a volatile field (`UsedTail`, `UsedHead`, `Compare`, ...,
`PopInterruptsOff`) and lets the handler make whole calls (`IsrPush`, `IsrPop`) in
between. C leaves the order of the two reads in `ui32Tail != ui32Head` open, so
`ReadPending` takes them in either order. `BoundedFifo` is what the header
promises: a sequence of at most `Capacity` bytes. `ImplementsFifo` says that
`NsxRingBuffer` implements it with `Contents` as the queue.

### Timer

`NsxTimer` is one hardware timer, the configuration objects that name it, its entry
in the table of nsx-interrupt, its NVIC line and its compare logic. `pc` and `cfg`
stand for the lifecycle call under way; each HAL call in it is an action with two
outcomes, done or failed (`Fails` is the early return of `TIMER_TRY`). init runs
with interrupts masked (`masked`), deinit does not. `ReleaseFirst` is the release
that precedes a second init of the same object; it walks the same steps as deinit
and `Release` then goes on with the new claim. `IsrEnter` is the dispatch and the
handler up to its callback, `IsrReturn` the return of the callback. `usable` is
history: the objects whose init returned success and that no later lifecycle call
was given.

### TempCo

`NsxTempCo` extends `NsxTimer`: the timer calls enable and disable make are the
timer's own actions, and other objects may claim the same timer between TempCo
calls. `st` is `s_nsx_power_tempco`; the statuses it stores are reduced to whether
they are SUCCESS. `Setup` and `Cleanup` are the SETUP and CLEANUP macros. Between
the two functions, `within` says who asked for the disable: the application, enable
before it allocates, or enable after a failed step. `adc` is what the HAL has been
told. A callback runs to its end before the foreground continues, so it is one step
(`Callback`, within `Interrupt`).

### Debug and startup

`NsxDebug` has one action per platform call of a transport switch, since an
interrupt may print before and after each. `link` is the state of each transport's
hardware. `NsxStartup` extends it: `Plan` is the sequence of calls of each entry
point, `Claim` and `Finish` are the guard, and the `release` and `debug` steps are
`NsxDebug` calls. `log`, `broke` and `begun` are history.

### PDM capture

`NsxPdm` is one microphone of the Apollo5 backend; every table of the driver is
indexed by the microphone and no call touches two entries. `owner` is
`g_pdm_cfgs[mic]`, `flags` the four boolean tables beside it, `cap` the fields the
driver keeps in each configuration. Two configurations may name the microphone. Each
HAL call is an action; one that fails may have acted or not (`Fails`), except that a
failed power-off leaves the power on. `InitStep`, `StartStep` and `StopStep` are the
three error paths: a failed init walks through the actions of stop (`undo`), a failed
start only ends the capture, a failed stop keeps the owner. `Handler` is the handler
up to the callback, `HandlerReturn` its return; while it is in a callback that did
not interrupt a lifecycle call (`isr = "free"`) that callback may make them itself.
What the HAL demands of its caller (`HalCallsLegal`) is taken from the HAL mock of
the repository's own test, `tests/fixtures/audio/lifecycle.c`.

### USB

`NsxUsb` runs two contexts: the task, and the timer interrupt, which runs to its end
once begun. `run` says where each is and in which receive callback. The guard's `++`
and `--` are a load and a store in the task (`Load`, `EnterStore`, `ExitStore`), with
the tick possible in between; in the interrupt they are one step, as nothing
interrupts it. A call of the task is a loop of guarded sections: `Guarded` is what a
section does before `nsx_usb_service`, `AfterService` what it does after it, and
`ExitStore` with `Loop` is the rest of the loop. CDC and vendor calls have the same
shape and share the actions. `took` counts what TinyUSB moved, to compare with
what the call reports.

### BLE notifications

`NsxBleNotify` has the stack's truth (`link`, `table`), the wrapper's
(`current`, `timer`), and the queue between them. `phase` is the place of the WSF
dispatcher, which empties the queue, serves expired timers, then lets the stack's
handlers run. A timer that is stopped is taken from WSF's list, so no expiry of it is
queued; what can be stale is the news in the queue. The application's
callback during an expiry or a subscription change is a step of its own (`doing`), in
which it may unsubscribe or process a disconnect.

### SDK promotion

`SdkPromotion` has one action per statement of `promote_from_staging` that touches
the disk, `Exception` for what an interruption or error at any of them leads to
(`Handler` is the control flow of `try`, `except` and `finally`), and `Killed`. Copying
and removing can stop half way (`Halfway`), a rename cannot. Before it come the steps of
`stage_provider_payload` that write to the staged tree, and `StagingStops` for a staging
that is refused, fails or is killed at any of them.

What promotion asks of a staged tree is that its HAL and BSP archives match the manifest
in it (`Verified`, `intake_workflow.py:366-445`). A tree of which that is so is a member
of `Payloads`; any other is `Absent` or `Partial`. The manifest is written last when the
payload is built (`build_ambiqsuite.py:1060`), so a staging killed before that leaves
`Partial`, as a rule. But the patch queue, the symlink check and the INTERNAL-marker gate
come after it, and a removal of an older staged tree (`:1048`) may stop with headers gone
and the archives and manifest still there (`Remains`). Such trees verify. `validated` tells them from
those whose staging came to its end; no action's guard reads it, since nothing in the code
records it. A staged tree with a symlink, which promotion refuses again
(`:1434`), is not told apart.

## 4. What TLC checks

| Run | Instance | Shows |
|---|---|---|
| `ring_seq` | 3 bytes of storage, 2 byte values, pushes up to 5, pops and frames of 1 to 4 | types, the overwrite branch is never taken, refinement of `BoundedFifo` |
| `ring_isr_drain` | 3 bytes, bursts up to 4, frames of 1 or 2, 9 bytes in all | handler pushes, main loop drains: nothing lost, no short frame |
| `ring_zero` | as `ring_seq`, sizes 0 to 2 | violated: a pop of zero bytes empties a full buffer |
| `ring_pop_race` | 2 bytes, 4 bytes in all | violated: a push between pop's read of the fill level and its mask |
| `ring_push_race` | 2 bytes, 5 bytes in all | violated: a pop between push's reads of the indices and its mask |
| `timer_ap4` | 3 objects | ownership, silence after release, callbacks, no interrupt storm, delivery |
| `tempco` | the helper and one other object | HAL preconditions, bookkeeping of held resources, suppression |
| `startup` | 2 callers, both transports, every configuration | one startup in order, true status, output, error latch, termination |
| `pdm_capture` | 2 configurations | HAL preconditions, bookkeeping, interrupt line, error latch, every frame handed over or the line off |
| `usb_guard` | CDC FIFOs of 2, vendor FIFOs of 1, transfers up to 2, a timeout of 2 | exclusion by the counter, true results, announcement of received bytes, termination |
| `ble_notify` | 2 periodic characteristics, 1 asynchronous, 3 message buffers | timers match subscriptions, subscribers keep being served |
| `sdk_promotion` | 2 versions, 2 failures in a run | the provider's archives verify; the swap is atomic or its backup is there, whatever was staged; one failure never leaves it missing |

**Bounds.** In the ring buffer only indices modulo the capacity and comparisons
of lengths with it matter: three slots give an index before, at and after every
other, and five bytes wrap the storage once and reach past the writer's start. The
theorems cover every other capacity. `MaxBytes` only ends a behaviour of
`ring_isr_drain`: nine bytes fill the buffer three times over. Bytes there are
numbered, so `NothingLost` compares what was received with what was accepted. The
main loop may then wait with nothing to come, but that is not a stop: it can always
call again. The two race runs set `CHECK_DEADLOCK FALSE` because the bound does end
their behaviours. Three timer objects are the owner, one that takes over and one
that is turned away; the theorems cover any number. TempCo needs one other object
to be refused the timer or to hold it. In `startup`, the guard admits one request
per reset, so one winner and one loser are all there is, and two transports are all
the code has. No other counter is unbounded.
Two PDM configurations are an owner and one that is refused or replaces it; the
theorems cover any number. A CDC FIFO of two bytes is the smallest in which a
read of one leaves one behind, and a transfer of two over a vendor FIFO of one takes
several rounds; a timeout of two has a first and a last idle millisecond. Three WSF
buffers are one too few for a bonded peer that restores three subscriptions and
opens, so messages are lost. Two failures in a promotion are one in the swap and one
in the handler of the first.

**Fairness.** On the processor a handler goes first, so `NsxTimer!Fairness` does not
let the foreground win against it: a pending interrupt that is repeatedly unmasked is
taken and its handler returns, and a lifecycle call, straight-line code that waits
for nothing, proceeds if time and again no interrupt is waiting (both strong). A
handler that left its level-driven line up would starve the call; that it never does
is what `CallReturns` checks. Nothing is assumed of callers or of the hardware
counter. `Delivered` says that a compare of a usable interrupt timer reaches the
callback unless the timer is given up. In `NsxStartup!Fairness` a startup and a debug
call under way proceed; `StartupEnds` is its liveness property. Callbacks and backend
calls are taken to return.

`NsxPdm!Fairness`: the handler goes before the foreground and its callback returns
(both strong, since other steps may interleave), and a lifecycle call waits for
nothing (weak). `NsxUsb!Fairness`: the interrupt, once begun, ends; the task gets time
between ticks; the tick is not skipped at every single period (strong: the guard is
free again and again, and the timer is not synchronised with it); `tud_task` returns.
`CallsEnd` makes one exception, a callback that keeps reading what `receive` has just
found available. `NsxBleNotify!Fairness`: the wrapper's handler and callbacks return,
the dispatcher keeps going round, a running timer expires. Nothing is assumed of the
host, the peer or the hardware.

**Hazards.** `ring_isr_drain` covers the pattern of the header for framed data,
which is correct though its reads are unmasked: the stale fill level a drain
compares can only be too small, and the pop that follows asks for no more than was
there. That argument fails for a pop of "whatever there is", which is
`ring_pop_race`. `FrameDelivered` is the hazard of `nsx_pdm_apollo5.c:128`: a handler
that cleared the status once more after its callback would erase the first frame of
the capture the callback started. `CoreExclusive` holds although the guard is no lock:
a tick that runs between the load and the store of `++` leaves the counter as it found
it, because it always runs to its end. `TimerMatchesSubscription` and `KeepsNotifying`
exempt behaviours in which a message was lost (`lost`): `ns_ble_generic_CccCback` only
logs a failed allocation, so a subscriber may then have no timer. In `SdkPromotion`, an
interruption between the second rename and the end of the `try` leaves the new
tree in place and the backup beside it, and the next run is refused until the
maintainer resolves it; and a second interruption inside the rollback may leave the tree missing.
Both are recoverable, which is what `ProviderRecoverable` says, though the comment at
`intake_workflow.py:1477` speaks of any interruption. Its `TypeOK` and `ProviderRecoverable` speak of
trees that verify, no more: the provider is a complete copy of what was staged, and what
was staged may be unfinished. The model reaches that in the shortest way there is:
`StartStaging`, `PromotePayload`, `StagingStops` in the patch queue or at the gate, then a
promotion from `Begin` to `DropTmp` with nothing going wrong leaves a provider with `validated` FALSE.
`sdk-intake/patches/README.md:59` says of a failed patch that "the staged tree is not
treated as valid output", and `intake_workflow.py:34` that promotion swaps "a validated
staging tree"; the code leaves that to the maintainer, who has seen the staging fail.

### Disagreements between code and documentation

* `ring_pop_race`: `nsx_ring_buffer_pop` takes the fill level before its masked
  section (`nsx_ring_buffer.c:179`) and resets the full flag inside it (`:209`). A
  push in between that fills the buffer is lost, all of it.
  `nsx_ring_buffer.h:5` says "interrupt-safe push/pop operations".
* `ring_push_race`: `nsx_ring_buffer_push` takes both indices before its masked
  section (`:94-95`) and computes the free space from them. After a pop in between
  the result is wrong. `nsx_ring_buffer.h:98` says "no data is lost".
* `ring_zero`: a pop of zero bytes from a full buffer resets the full flag with
  equal indices, and so empties it, while it returns 0; `nsx_ring_buffer.h:112`
  and `:114`.

## 5. What is proved

`NsxRingBufferProofs`, for every `Byte`, `MaxPush`, `PopSizes` and every
`Capacity > 0`:

* `TypeCorrect` and `OverwriteBranchDead`: `TypeOK` and `NeverLapped`. `NeverLapped`
  alone is not inductive, since what a push or a pop does to the flag depends on the
  indices being slots; their conjunction `IndexInv` is. Its use is the lemma
  `UsedMeaning`: under `IndexInv` the write index is `Used` slots ahead of the read
  index and full and empty are its extremes. Lemmas about `%` reduce every index to
  one of two cases, wrapped or not, which keeps the arithmetic linear for the solver.
* `RingBufferIsFifo`: `Spec` implements `BoundedFifo`, assuming `0 \notin PopSizes`.
  The run `ring_zero` shows why that is needed. The step proof has one lemma per
  call; each first computes `Used`, then the stored sequence slot by slot.

`NsxRingBufferIsrProofs`, for every capacity, burst and request size, is about the three
ways in which a main loop and a handler can share a buffer.

* The pattern of the header, a handler that pushes and a main loop that drains frames
  (of any size but zero): `DrainLosesNothing` and `DrainsAreWhole`. The invariant `CallInv`
  says what the locals of a half-finished call are worth: the tail it has read is that of
  some fill level between what the call may count on and the present one (`ReadInv`), so
  what `nsx_ring_buffer_used` returns is never too much, and once a drain has seen its
  frame the frame stays (`FillInv`). It holds because the handler never moves the read
  index.
* The main loop pops whatever there is. `CallInv` holds here, too, up to one state, and
  `ring_pop_race` shows that state: `BlindReset`, a pop that takes nothing masks interrupts
  when the handler has just filled the buffer. `PopLosesOnlyBlindly` proves that it is the
  only one: `PopSpec` without it loses nothing, for every request, zero included. And
  `BlindResetEmpties` proves that it always loses, the whole capacity.
* The main loop pushes and the handler pops. The index the push knows lags by what
  has been popped since (`PoppedSince`), so it sees less room than there is; that changes
  nothing unless it takes the buffer for filled (`StaleFill`). `PushLosesOnlyStale` proves
  that `PushSpec` without that state loses nothing, provided no pop asks for zero bytes,
  and `StaleFillLaps` that there the push always stores too little and leaves a buffer
  whose next reader takes all of the storage for stored bytes.
* `NeverFullNeverLost`: both states need or leave `ui32Overwrite` set, so a buffer sized so
  that it never fills is safe in all three patterns. The conditions are satisfiable: they
  are the behaviours in which the buffer stays below its capacity, and more.

`NsxTimerProofs`, for every set of objects: the invariant `TimerInv`
(`Inductive`) and from it `TimerTypeCorrect`, `ServedWhileUsable`,
`QuietOnceReleased` and `CallbackOnlyUsable`; `DispatchAcknowledges` says that in
every state of the invariant a dispatch lowers the line, which is the safety half of
`CallReturns`. `TimerInv` adds to the checked properties

* `CallInv`: a call under way has an object that is not usable, and after the claim
  it owns a timer that is not ready;
* `LineInv`: the vector table's entry and the NVIC line are set and cleared together,
  and for the owner of an interrupt timer only;
* `StagesInv`: what each place of an init has switched on and of a release off. A
  retried release starts again from the beginning, so it is stated by place;
* `ReadyInv` and `FreeInv`: a timer is ready only for a usable object (or for one
  whose second init has just begun), and a free timer has nothing left.

It is needed because `QuietWhenFree` says nothing of a timer that is half released,
and that is where every failed call leaves it.

Its second part is about the timer under TempCo, for every set of other timer objects:
`TempCoTypeCorrect`, `AdcLegal`, `Remembered`, `Released` and the action property
`Suppressed`. TempCo's timer calls are the
timer's own actions, so `TimerInv` carries over (`TimerInherited`) and only the link has
to be added: `LinkInv`, which TempCo call is inside which timer call and with what
status; `HeldInv`, what the flags say of the ADC; `TempCoPlaceInv`, what each place of
enable and disable has still to do. `TempCoPlaceInv` is needed because enable runs
disable both before it allocates and after a failed step, with different flags set.

`NsxPdmProofs`, for every set of configurations: `TypeCorrect`, `CallsLegal`,
`TeardownRetained`, `LineCorrect` and the action property `ErrorStays`, from the
invariant `IInv`: `Typed`; `OwnerInv`, only the owner has a handle;
`NothingForgotten` itself; `PlaceInv`, what holds at each place of an init, a start
and a stop; `CaptureInv`, a started capture has its DMA running; `ReadyInv`, an owner
without error between calls is powered and ready to start. `PlaceInv` is needed because a stop resumes
from any state an earlier failure left, so that what may be touched at a place
follows only from the flags.

`NsxUsbProofs`, for every FIFO size, timeout and transfer length: `TypeCorrect`,
`Exclusive` and `Truthful`. The heart of `IInv` is `GuardInv`: between ticks the
counter is the number of guards the task's place and its callback's nested call
account for, and `reg` holds the same number between a load and its store. That is
stronger than exclusion and is what survives the split increment. `JobInv` ties the
locals of the loop to `took` at every place of a section, `FifoInv` bounds the FIFOs.

`SdkPromotionProofs`, for every set of versions and any number of stagings and failures:
`TypeCorrect`, `Recoverable` and `NeverMissing`, from an invariant that gives for each
statement which tree is the old one, which the chosen one, and that the staged tree is
still the one that was verified when it is copied. They say nothing of `validated`.

`NsxStartupProofs`, for every set of callers and of transports: `StartupTypeCorrect`,
`OneStartup`, `SuccessComplete`, `OutputReaches` and the action properties
`BaselineIsWithoutDebug` and `ErrorIsFinal`. Lemmas about `Plan` come first: whatever the
request, its steps are in rank order, a full baseline directly follows a release, and what
was asked for is in it (`PlanProperties`). `StartupInv` then says that at most one link is
in use and which (`DebugInv`), that at most one request is under way (`ClaimInv`), how it
ended (`EndInv`), that the steps so far are the first ones of its plan (`LogInv`), and
that a release that has returned left no transport active (`ReleaseInv`). The last two
are what makes `BaselineWithoutDebug` inductive: the property speaks of a step, and only
the plan says which step came before it.

`NsxBleNotifyProofs`, for every finite set of characteristics and any number of
message buffers: `TypeCorrect` and `TimersMatch`. `TimerMatchesSubscription` speaks only of
the moments without news; in between, the stack's table is ahead of the wrapper's timers,
by any number of messages. The invariant (`NewsMakesUp`) reads the queue to its end: while
no message is lost, every subscription has a timer that runs and that no waiting message
stops, or a waiting message that starts it and that none after it stops (`ArmedInv`);
every running timer without a subscription has a waiting message that stops it
(`StoppedInv`); and the wrapper knows of an open link or is going to (`OpenInv`), which a
start needs. A callback under way counts as the timer it returns to start (`Runs`). With an
empty queue this is the property. `PhaseInv` says where the dispatcher can be: what the
notify callback is told about a connection is current because the queue was empty when
the timers were served.

The only assumptions are the named ones: `CapacityAssumption`, `SizeAssumption`,
`ByteAssumption`, `TransportAssumption`, `TempCoAssumption`, `ConfigAssumption`, `CfgAssumption`,
`UsbAssumption`, `BleAssumption`, `PromotionAssumption`. TLC evaluates them in every run.

## 6. What is only model-checked, and what is not modelled

* Only model-checked: the liveness properties `CallReturns`, `Delivered`,
  `StartupEnds`, `FrameDelivered`, `RxAnnounced`, `CallsEnd` and `KeepsNotifying`; the
  prover has no fairness reasoning. Every safety property of a passing run is a theorem.
* Ring buffer: wrap-around of `tail + length` beyond 32 bits (a buffer and a call
  of over 2^31 bytes), and `flush` with a handler running, which the header does
  not declare safe.
* Timer: the counter's value (`nsx_timer_clear`, `nsx_timer_read_us`), a caller that
  has interrupts masked already, and the backends of Apollo3, Apollo5 and
  Apollo330, which have no ownership and no staged release.
* TempCo: the temperature and its trims. Startup: what each backend writes to which
  register; the SoCs built without the guard (Apollo2, Atomiq110).
* PDM: the Apollo3 backend, and lifecycle calls from two contexts at once, which
  nsx-audio's README forbids. A configuration does not change while it is in use, so the
  second check of its buffers in start never fails.
* USB: `nsx_usb_vendor_connected`, descriptors and control requests, a second
  `nsx_usb_init` while the driver runs, calls from several tasks or from another
  interrupt, which the header forbids. Bytes are counted, not told apart.
* BLE: building the attribute database, advertising, connection parameters, MTU
  requests, and more than one connection, which the wrapper does not support.
* SDK intake: the archive builds, the contents of patches and the marker scan (each may
  refuse), the regeneration checks; two commands at once; a staged tree that somebody
  edits; files of an older tree that a removal with ignored errors
  (`build_ambiqsuite.py:1048`) leaves beside the new ones of a staging that succeeds.
* The remaining components of section 1, for the reasons in `PROJECT.json`.
