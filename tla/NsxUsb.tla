-------------------------------- MODULE NsxUsb --------------------------------
(***************************************************************************)
(* The USB driver, nsx-usb/src/nsx_usb.c with the receive callbacks of     *)
(* overrides/nsx_usb_overrides.c: the transfer calls of one task, the      *)
(* timer interrupt that also services TinyUSB, and the receive callbacks,  *)
(* which may run from either and make nonblocking calls of their own.      *)
(*                                                                         *)
(* TinyUSB's core is not reentrant.  What keeps its users apart is         *)
(* g_usb_guard_depth, a counter that is no lock: a plain ++ and -- which   *)
(* the timer may split in the middle.                                      *)
(*                                                                         *)
(* Bytes are counted, not told apart.  TinyUSB is external: its FIFOs hold *)
(* at most Room, tud_task puts what the host sent into a receive FIFO and  *)
(* calls back, and transmit FIFOs drain in tud_task or in a flush.         *)
(***************************************************************************)
EXTENDS Naturals

CONSTANTS Room,       \* per interface, the capacity of its TinyUSB FIFOs
          Timeout,    \* timeout_ms, the idle milliseconds a call waits
          MaxLen,     \* bound: the longest transfer asked for
          FlushLast   \* the Apollo5 builds, where a CDC send flushes once more

ASSUME UsbAssumption ==
  /\ Room \in [{"cdc", "vendor"} -> Nat \ {0}]
  /\ Timeout \in Nat \ {0} /\ MaxLen \in Nat \ {0}
  /\ FlushLast \in BOOLEAN

VARIABLES
  up,      \* nsx_usb_init succeeded: _initialized, and the timer runs
  depth,   \* g_usb_guard_depth
  reg,     \* the task's register between the load and the store of ++ or --
  run,     \* per context: where it is, and where the callback it is in is
  job,     \* the task's call: kind, interface, guarded section, its locals
  ready,   \* _rx_ready and _vendor_rx_ready
  rx, tx,  \* the FIFOs of TinyUSB
  took     \* history: the bytes TinyUSB moved for the call under way

vars == <<up, depth, reg, run, job, ready, rx, tx, took>>

Itf == {"cdc", "vendor"}
Contexts == {"task", "isr"}
Least(m, n) == IF m < n THEN m ELSE n

NoJob == [call |-> "none", itf |-> "cdc", section |-> "none",
          len |-> 0, done |-> 0, want |-> 0, waits |-> 0]

UsbInit ==
  /\ up = FALSE /\ depth = 0 /\ reg = 0
  /\ run = [x \in Contexts |-> [place |-> "idle", cb |-> "none"]]
  /\ job = NoJob /\ took = 0
  /\ ready = [i \in Itf |-> FALSE]
  /\ rx = [i \in Itf |-> 0] /\ tx = [i \in Itf |-> 0]

(* The timer interrupt, once begun, runs to its end. *)
Running(x) == x = "task" => run["isr"].place = "idle"

At(x, p) == Running(x) /\ run[x].place = p /\ run[x].cb = "none"

In(x, callback) == Running(x) /\ run[x].cb = callback

Goto(x, p) == run' = [run EXCEPT ![x].place = p]

fifos == <<ready, rx, tx>>
caller == <<up, reg, job, took>>

ReleasedByAnyone == 0            \* mutant

Released == depth - 1

-----------------------------------------------------------------------------
(* nsx_usb_service and the callbacks TinyUSB dispatches from tud_task.     *)

OutermostOrNot == depth >= 1     \* mutant

Outermost == depth = 1

Service(x) ==
  /\ At(x, "service")
  /\ Goto(x, IF Outermost THEN "tud_task" ELSE "after")
  /\ UNCHANGED <<caller, depth, fifos>>

(* TinyUSB, in tud_task: a byte has come and calls tud_cdc_rx_cb or         *)
(* tud_vendor_rx_cb, which set the flag and call the application.          *)
Dispatch(x, i) ==
  /\ At(x, "tud_task")
  /\ rx[i] < Room[i]
  /\ rx' = [rx EXCEPT ![i] = @ + 1]
  /\ ready' = [ready EXCEPT ![i] = TRUE]
  /\ run' = [run EXCEPT ![x].cb = i]
  /\ UNCHANGED <<caller, depth, tx>>

(* TinyUSB: completed transfers empty the transmit FIFOs, tud_task ends.   *)
TaskReturns(x) ==
  /\ At(x, "tud_task")
  /\ \E c \in 0..tx["cdc"], v \in 0..tx["vendor"] :
       tx' = [tx EXCEPT !["cdc"] = c, !["vendor"] = v]
  /\ Goto(x, "after")
  /\ UNCHANGED <<caller, depth, ready, rx>>

(* The application's callback: it returns, or it calls nsx_usb_read_nb or  *)
(* nsx_usb_vendor_read_nb, whose guard makes no difference to anyone else  *)
(* as the one that runs the callback holds it already.                     *)
Callback(x, i) ==
  /\ In(x, i)
  /\ \/ run' = [run EXCEPT ![x].cb = "none"] /\ UNCHANGED depth
     \/ run' = [run EXCEPT ![x].cb = "nested"] /\ depth' = depth + 1
  /\ UNCHANGED <<caller, fifos>>

NestedService(x) ==
  /\ In(x, "nested")
  /\ run' = [run EXCEPT ![x].cb = IF Outermost THEN "tud_task" ELSE "reading"]
  /\ UNCHANGED <<caller, depth, fifos>>

NestedRead(x, i) ==
  /\ In(x, "reading")
  /\ \E n \in 0..rx[i] : (n > 0 <=> rx[i] > 0) /\ rx' = [rx EXCEPT ![i] = @ - n]
  /\ ready' = [ready EXCEPT ![i] = FALSE]
  /\ depth' = Released
  /\ run' = [run EXCEPT ![x].cb = "none"]
  /\ UNCHANGED <<caller, tx>>

-----------------------------------------------------------------------------
(* usb_timer_callback. *)

GuardFree == depth = 0

Tick ==
  /\ up /\ run["isr"].place = "idle"
  /\ GuardFree
  /\ depth' = depth + 1
  /\ Goto("isr", "service")
  /\ UNCHANGED <<caller, fifos>>

NothingToAnnounce(i) == FALSE    \* mutant

ToAnnounce(i) == ~ready[i] /\ rx[i] > 0

Announce(place, i, next) ==
  /\ At("isr", place)
  /\ IF ToAnnounce(i)
       THEN /\ ready' = [ready EXCEPT ![i] = TRUE]
            /\ run' = [run EXCEPT !["isr"] = [place |-> next, cb |-> i]]
       ELSE Goto("isr", next) /\ UNCHANGED ready
  /\ UNCHANGED <<caller, depth, rx, tx>>

TickEnds ==
  /\ At("isr", "leave")
  /\ depth' = Released
  /\ Goto("isr", "idle")
  /\ UNCHANGED <<caller, fifos>>

-----------------------------------------------------------------------------
(* The task: nsx_usb_init and the calls.  A call is a loop of sections     *)
(* under the guard; `section' names the one it is in or comes to next.     *)

Setup ==
  /\ ~up /\ up' = TRUE
  /\ ready' = [i \in Itf |-> FALSE]
  /\ UNCHANGED <<depth, reg, run, job, rx, tx, took>>

Begin(call, i, section, len, place) ==
  /\ up /\ At("task", "idle")
  /\ job' = [call |-> call, itf |-> i, section |-> section,
             len |-> len, done |-> 0, want |-> len, waits |-> 0]
  /\ took' = 0
  /\ Goto("task", place)
  /\ UNCHANGED <<up, depth, reg, fifos>>

CallSend == \E i \in Itf, n \in 1..MaxLen : Begin("send", i, "write", n, "loop")
CallReceive == \E n \in 1..MaxLen : Begin("receive", "cdc", "ask", n, "loop")
CallRead == \E i \in Itf, n \in 1..MaxLen : Begin("read_nb", i, "read", n, "load")
CallFlushRx == Begin("flush_rx", "cdc", "discard", 0, "load")
CallRoom == Begin("write_available", "vendor", "room", 0, "load")

(* nsx_usb_guard_enter and nsx_usb_guard_exit, a load and a store each. *)
Load(from, to) ==
  /\ At("task", from)
  /\ reg' = depth
  /\ Goto("task", to)
  /\ UNCHANGED <<up, depth, job, took, fifos>>

EnterStore ==
  /\ At("task", "store")
  /\ depth' = reg + 1 /\ reg' = 0
  /\ Goto("task", "guarded")
  /\ UNCHANGED <<up, job, took, fifos>>

(* What a section does first: write and flush, ask what there is, discard. *)
Guarded ==
  LET i == job.itf
      chunk == Least(job.len - job.done, Room[i] - tx[i])
  IN
  /\ At("task", "guarded")
  /\ Goto("task", IF job.section \in {"write", "read", "room"} THEN "service" ELSE "unload")
  /\ CASE job.section = "write" ->
            /\ \E n \in 0..(tx[i] + chunk) :
                  /\ i = "vendor" /\ chunk = 0 => n = tx[i]
                  /\ tx' = [tx EXCEPT ![i] = n]
            /\ job' = [job EXCEPT !.want = chunk] /\ took' = took + chunk
            /\ UNCHANGED <<rx, ready>>
       [] job.section = "ask" ->
            /\ job' = [job EXCEPT !.want = Least(job.len - job.done, rx[i])]
            /\ UNCHANGED <<rx, tx, ready, took>>
       [] job.section = "discard" ->
            /\ rx' = [rx EXCEPT ![i] = 0] /\ ready' = [ready EXCEPT ![i] = FALSE]
            /\ UNCHANGED <<tx, job, took>>
       [] job.section = "flush" ->
            /\ \E n \in 0..tx[i] : tx' = [tx EXCEPT ![i] = n]
            /\ UNCHANGED <<rx, ready, job, took>>
       [] OTHER -> UNCHANGED <<rx, tx, ready, job, took>>
  /\ UNCHANGED <<up, depth, reg>>

WantedCounted(want, got) == want   \* mutant

Counted(want, got) == got

(* What it does once TinyUSB has been serviced: read, clear the flag. *)
AfterService ==
  LET i == job.itf
      got == Least(job.want, rx[i])
  IN
  /\ At("task", "after")
  /\ Goto("task", "unload")
  /\ IF job.section = "read"
       THEN /\ rx' = [rx EXCEPT ![i] = @ - got]
            /\ ready' = [ready EXCEPT ![i] = FALSE]
            /\ job' = [job EXCEPT !.want = Counted(job.want, got)]
            /\ took' = took + got
       ELSE UNCHANGED <<rx, ready, job, took>>
  /\ UNCHANGED <<up, depth, reg, tx>>

UncountedWait == job             \* mutant

Waited == [job EXCEPT !.waits = @ + 1]

(* The guard is left; `want' bytes are what the section wrote, may read or *)
(* did read, and without any the call waits a millisecond.                 *)
ExitStore ==
  /\ At("task", "unstore")
  /\ depth' = reg - 1 /\ reg' = 0
  /\ CASE job.section = "write" ->
            /\ job' = IF job.want > 0 THEN [job EXCEPT !.done = @ + job.want, !.want = 0] ELSE Waited
            /\ Goto("task", "loop")
       [] job.section = "ask" ->
            IF job.want > 0 THEN job' = [job EXCEPT !.section = "read"] /\ Goto("task", "load")
                            ELSE job' = Waited /\ Goto("task", "loop")
       [] job.section = "read" /\ job.call = "receive" ->
            /\ job' = [job EXCEPT !.done = @ + job.want, !.want = 0, !.section = "ask"]
            /\ Goto("task", "loop")
       [] job.section = "flush" -> Goto("task", "return") /\ UNCHANGED job
       [] OTHER -> Goto("task", "idle") /\ job' = NoJob
  /\ UNCHANGED <<up, took, fifos>>

OverLate == job.done >= job.len \/ job.waits > Timeout     \* mutant

Over == job.done >= job.len \/ job.waits >= Timeout

Loop ==
  /\ At("task", "loop")
  /\ IF ~Over THEN Goto("task", "load") /\ UNCHANGED job
     ELSE IF FlushLast /\ job.call = "send" /\ job.itf = "cdc"
       THEN Goto("task", "load") /\ job' = [job EXCEPT !.section = "flush"]
       ELSE Goto("task", "return") /\ UNCHANGED job
  /\ UNCHANGED <<up, depth, reg, took, fifos>>

ReceiveStatus ==
  IF job.done = 0 /\ job.waits >= Timeout THEN "TIMEOUT"
  ELSE IF job.done < job.len THEN "PARTIAL" ELSE "SUCCESS"

SendStatus == IF job.done < job.len THEN "TIMEOUT" ELSE "SUCCESS"

Status == IF job.call = "send" THEN SendStatus ELSE ReceiveStatus

Return ==
  /\ At("task", "return")
  /\ job' = NoJob /\ took' = 0
  /\ Goto("task", "idle")
  /\ UNCHANGED <<up, depth, reg, fifos>>

-----------------------------------------------------------------------------
Calls == CallSend \/ CallReceive \/ CallRead \/ CallFlushRx \/ CallRoom

CallStep ==
  \/ Load("load", "store") \/ EnterStore \/ Guarded \/ AfterService
  \/ Load("unload", "unstore") \/ ExitStore \/ Loop \/ Return

TinyUsb(x) ==
  \/ Service(x) \/ TaskReturns(x) \/ NestedService(x)
  \/ \E i \in Itf : Dispatch(x, i) \/ Callback(x, i) \/ NestedRead(x, i)

TickStep ==
  \/ TickEnds
  \/ Announce("after", "cdc", "vendor") \/ Announce("vendor", "vendor", "leave")

TaskRuns == CallStep \/ TinyUsb("task")
InterruptRuns == TickStep \/ TinyUsb("isr")

Next ==
  \/ Setup \/ Calls \/ TaskRuns \/ Tick \/ InterruptRuns

(* The timer interrupt ends, leaves the task time to run and does not find *)
(* the guard held at every single period; tud_task returns.                *)
Fairness ==
  /\ SF_vars(TaskRuns) /\ WF_vars(InterruptRuns) /\ SF_vars(Tick)
  /\ SF_vars(\E x \in Contexts : TaskReturns(x))

UsbSpec == UsbInit /\ [][Next]_vars /\ Fairness

-----------------------------------------------------------------------------
TaskHolds == run["task"].place \in
               {"guarded", "service", "tud_task", "after", "unload", "unstore"}

TypeOK ==
  /\ up \in BOOLEAN /\ depth \in 0..3 /\ reg \in 0..3 /\ took \in 0..MaxLen
  /\ run["task"].place \in {"idle", "loop", "load", "store", "guarded", "service",
                           "tud_task", "after", "unload", "unstore", "return"}
  /\ run["isr"].place \in {"idle", "service", "tud_task", "after", "vendor", "leave"}
  /\ \A x \in Contexts : run[x].cb \in Itf \cup {"none", "nested", "tud_task", "reading"}
  /\ job.itf \in Itf /\ job.len \in 0..MaxLen /\ job.waits \in 0..Timeout
  /\ job.want \in 0..MaxLen /\ job.done \in 0..job.len
  /\ ready \in [Itf -> BOOLEAN]
  /\ \A i \in Itf : rx[i] \in 0..Room[i] /\ tx[i] \in 0..Room[i]

(* One user of TinyUSB at a time, nsx_usb.c:16-31: the timer services USB  *)
(* only while the task is outside its guarded sections, callbacks and      *)
(* their nested calls included, and tud_task is never entered from within  *)
(* itself ("do not recurse into TinyUSB task processing", nsx_usb.h:15).   *)
CoreExclusive ==
  /\ run["isr"].place # "idle" => ~TaskHolds /\ run["task"].cb = "none"
  /\ \A x \in Contexts : run[x].cb # "tud_task"

(* What a blocking call reports is what TinyUSB moved for it, whatever the *)
(* callbacks read meanwhile, and its status says how it ended (nsx_usb.h:  *)
(* 27-33): all moved, some, or none; short only after its idle budget.     *)
ResultTruthful ==
  run["task"].place = "return" =>
    /\ job.done = took
    /\ Status = "SUCCESS" <=> took = job.len
    /\ Status # "SUCCESS" => job.waits = Timeout
    /\ Status = "PARTIAL" => job.call = "receive" /\ took > 0
    /\ Status = "TIMEOUT" /\ job.call = "receive" => took = 0

(* Received bytes do not stay unannounced: receive and read_nb clear the   *)
(* flag though bytes may be left and ticks are skipped while the guard is  *)
(* held, but a later tick raises it (nsx_usb.c:58-70, 218, 282).           *)
RxAnnounced == \A i \in Itf : (rx[i] > 0) ~> (ready[i] \/ rx[i] = 0)

(* A call ends: it makes progress or uses up its idle budget, unless       *)
(* callbacks keep reading what receive has found available.                *)
CallsEnd == (run["task"].place # "idle") ~>
              (run["task"].place = "idle" \/ \E x \in Contexts : run[x].cb = "reading")
=============================================================================
