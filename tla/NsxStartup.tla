----------------------------- MODULE NsxStartup -----------------------------
(***************************************************************************)
(* The startup entry points: nsx_system_init, nsx_hw_init and              *)
(* nsx_minimal_hw_init (nsx_system.c), nsx_power_configure (nsx_power.c),  *)
(* the guard they share (nsx_startup.c), and the debug transport that some *)
(* of them release and one of them enables.                                *)
(*                                                                         *)
(* Any caller may make any request at any time: the foreground, an RTOS    *)
(* task, or a callback of a startup that is under way.  A backend call is  *)
(* a step that succeeds or fails; what it does to the hardware is left     *)
(* out, except for what the full BSP baseline does to the debug links.     *)
(***************************************************************************)
EXTENDS NsxDebug, Naturals, Sequences

CONSTANT Caller

VARIABLES
  startup,   \* s_startup
  at,        \* where each caller's startup request stands
  request,   \* the request that is under way
  position,  \* how many steps of it have begun
  answer,    \* the status of each caller's last request
  log,       \* the steps that have begun, in order
  broke,     \* how many had begun when one failed, or 0
  begun      \* the requests that got past the guard, in order

guardVars == <<startup, at, request, position, answer, log, broke, begun>>
startupVars == <<guardVars, debugVars>>

Requests ==
  [kind : {"hw", "minimal", "power"}] \cup
  [kind : {"system"}, skip : BOOLEAN, cache : BOOLEAN,
   transport : Transport \cup {None}, spot : BOOLEAN]

If(flag, steps) == IF flag THEN steps ELSE <<>>

(* Mutant: the full BSP baseline runs on top of an active transport.       *)
PlanUnreleased(r) ==
  IF r.kind = "system" THEN
    <<"core">>
    \o (IF r.skip THEN <<"minimalHw">> ELSE <<"hw">>)
    \o If(r.cache, <<"cache">>)
    \o If(r.transport # None, <<"debug">>)
    \o <<"perf">>
    \o If(r.spot, <<"spot">>)
  ELSE IF r.kind = "hw" THEN <<"release", "hw">>
  ELSE IF r.kind = "power" THEN <<"release", "power">>
  ELSE <<"minimalHw">>

(* The calls each entry point makes, in order.                             *)
Plan(r) ==
  IF r.kind = "system" THEN
    <<"core">>
    \o (IF r.skip THEN <<"minimalHw">> ELSE <<"release", "hw">>)
    \o If(r.cache, <<"cache">>)
    \o If(r.transport # None, <<"debug">>)
    \o <<"perf">>
    \o If(r.spot, <<"spot">>)
  ELSE IF r.kind = "hw" THEN <<"release", "hw">>
  ELSE IF r.kind = "power" THEN <<"release", "power">>
  ELSE <<"minimalHw">>

-----------------------------------------------------------------------------
Goes(c, place) == at' = [at EXCEPT ![c] = place]

(* A NULL or invalid configuration is rejected before the guard.           *)
RejectInvalid(c) ==
  /\ at[c] = "idle"
  /\ answer' = [answer EXCEPT ![c] = "INVALID"]
  /\ UNCHANGED <<startup, at, request, position, log, broke, begun, debugVars>>

(* Mutant: a startup that failed may be tried again.                       *)
ClaimRetries(c, r) ==
  /\ at[c] = "idle" /\ startup \in {"UNCLAIMED", "FAILED"}
  /\ startup' = "RUNNING"
  /\ request' = [request EXCEPT ![c] = r]
  /\ position' = [position EXCEPT ![c] = 0]
  /\ begun' = Append(begun, r)
  /\ Goes(c, "step")
  /\ UNCHANGED <<answer, log, broke, debugVars>>

(* nsx_startup_claim, masked.                                              *)
Claim(c, r) ==
  /\ at[c] = "idle" /\ startup = "UNCLAIMED"
  /\ startup' = "RUNNING"
  /\ request' = [request EXCEPT ![c] = r]
  /\ position' = [position EXCEPT ![c] = 0]
  /\ begun' = Append(begun, r)
  /\ Goes(c, "step")
  /\ UNCHANGED <<answer, log, broke, debugVars>>

ClaimRejected(c) ==
  /\ at[c] = "idle" /\ startup # "UNCLAIMED"
  /\ answer' = [answer EXCEPT ![c] = "REJECTED"]
  /\ UNCHANGED <<startup, at, request, position, log, broke, begun, debugVars>>

-----------------------------------------------------------------------------
(* The steps of the request that is under way.                             *)

Step(c) == Plan(request[c])[position[c] + 1]

(* The next step of c's request is one of `steps', and begins.             *)
Begins(c, steps) ==
  /\ at[c] = "step" /\ position[c] < Len(Plan(request[c]))
  /\ Step(c) \in steps
  /\ position' = [position EXCEPT ![c] = @ + 1]
  /\ log' = Append(log, Step(c))

(* Mutant: the status of the step is dropped.                              *)
FailsIgnored(c) == Goes(c, "step") /\ broke' = Len(log')

Fails(c) == Goes(c, "failed") /\ broke' = Len(log')

(* The full baseline of the BSP may reset the debug links.                 *)
Baseline ==
  /\ link' \in {link, [t \in Transport |-> "off"]}
  /\ UNCHANGED <<sActive, sSelected, sError, dpc, leaving, wanted>>

(* nsx_core_init, whose version check passes, and the profile.             *)
Infallible(c) ==
  /\ Begins(c, {"core", "spot"})
  /\ UNCHANGED <<startup, at, request, answer, broke, begun, debugVars>>

Backend(c) ==
  /\ Begins(c, {"minimalHw", "cache", "perf"})
  /\ Fails(c) \/ UNCHANGED <<at, broke>>
  /\ UNCHANGED <<startup, request, answer, begun, debugVars>>

FullBackend(c) ==
  /\ Begins(c, {"hw", "power"})
  /\ Fails(c) \/ UNCHANGED <<at, broke>>
  /\ Baseline
  /\ UNCHANGED <<startup, request, answer, begun>>

(* nsx_debug_before_hw_init and nsx_debug_init; their platform calls are   *)
(* steps of NsxDebug.                                                      *)
DebugBegins(c) ==
  /\ DebugIdle
  /\ \/ Begins(c, {"release"}) /\ DebugSuspend
     \/ Begins(c, {"debug"}) /\ DebugInit(request[c].transport)
  /\ Goes(c, "debug")
  /\ UNCHANGED <<startup, request, answer, broke, begun>>

DebugEnds(c) ==
  /\ at[c] = "debug" /\ DebugIdle
  /\ IF sError THEN Goes(c, "failed") /\ broke' = Len(log)
     ELSE Goes(c, "step") /\ UNCHANGED broke
  /\ UNCHANGED <<startup, request, position, answer, log, begun, debugVars>>

(* Mutant: the path of a failure returns without nsx_startup_finish.       *)
FinishForgotten(c) ==
  /\ \/ /\ at[c] = "failed"
        /\ answer' = [answer EXCEPT ![c] = "FAILURE"] /\ UNCHANGED startup
     \/ /\ at[c] = "step" /\ position[c] = Len(Plan(request[c]))
        /\ startup' = "COMPLETE" /\ answer' = [answer EXCEPT ![c] = "SUCCESS"]
  /\ Goes(c, "idle")
  /\ UNCHANGED <<request, position, log, broke, begun, debugVars>>

(* nsx_startup_finish, masked.                                             *)
Finish(c) ==
  /\ \/ /\ at[c] = "failed"
        /\ startup' = "FAILED" /\ answer' = [answer EXCEPT ![c] = "FAILURE"]
     \/ /\ at[c] = "step" /\ position[c] = Len(Plan(request[c]))
        /\ startup' = "COMPLETE" /\ answer' = [answer EXCEPT ![c] = "SUCCESS"]
  /\ Goes(c, "idle")
  /\ UNCHANGED <<request, position, log, broke, begun, debugVars>>

Progress(c) ==
  \/ Infallible(c) \/ Backend(c) \/ FullBackend(c)
  \/ DebugBegins(c) \/ DebugEnds(c) \/ Finish(c)

-----------------------------------------------------------------------------
(* Debug calls of the application, which serializes them with startup.     *)
ApplicationDebug == startup # "RUNNING" /\ DebugCall /\ UNCHANGED guardVars

DebugRuns == DebugStep /\ UNCHANGED guardVars

AnyRequest == [kind |-> "minimal"]

Init ==
  /\ startup = "UNCLAIMED"
  /\ at = [c \in Caller |-> "idle"]
  /\ request = [c \in Caller |-> AnyRequest]
  /\ position = [c \in Caller |-> 0]
  /\ answer = [c \in Caller |-> "NONE"]
  /\ log = <<>> /\ broke = 0 /\ begun = <<>>
  /\ DebugStart

Next ==
  \/ \E c \in Caller :
       \/ RejectInvalid(c)
       \/ DebugIdle /\ \E r \in Requests : Claim(c, r)
       \/ ClaimRejected(c)
       \/ Progress(c)
  \/ ApplicationDebug
  \/ DebugRuns

(* A call that is under way proceeds.                                      *)
Fairness ==
  WF_startupVars(DebugRuns) /\ \A c \in Caller : WF_startupVars(Progress(c))

Spec == Init /\ [][Next]_startupVars /\ Fairness

-----------------------------------------------------------------------------
(* The types, and a startup runs exactly when one caller's request does.   *)
TypeOK ==
  /\ DebugTypeOK
  /\ startup \in {"UNCLAIMED", "RUNNING", "COMPLETE", "FAILED"}
  /\ at \in [Caller -> {"idle", "step", "debug", "failed"}]
  /\ request \in [Caller -> Requests]
  /\ \A c \in Caller : position[c] \in 0..Len(Plan(request[c]))
  /\ answer \in [Caller -> {"NONE", "INVALID", "REJECTED", "SUCCESS", "FAILURE"}]
  /\ broke \in 0..Len(log)
  /\ startup = "RUNNING" <=> \E c \in Caller : at[c] # "idle"

(* The documented order of the steps (nsx_system.h:212).                   *)
Rank ==
  [core |-> 1, release |-> 2, hw |-> 3, minimalHw |-> 3, power |-> 3,
   cache |-> 4, debug |-> 5, perf |-> 6, spot |-> 7]

(* "Choose one startup entry point per reset": whoever calls what and      *)
(* whatever fails, one request at most gets past the guard, its steps      *)
(* happen in the documented order, each once, and none after a failure.    *)
OneStartupInOrder ==
  /\ Len(begun) <= 1
  /\ \A i, j \in DOMAIN log : i < j => Rank[log[i]] < Rank[log[j]]
  /\ broke # 0 => broke = Len(log)

Happened(step) == \E i \in DOMAIN log : log[i] = step

(* A caller that is told SUCCESS has the system it asked for, and the      *)
(* guard remembers how the one startup ended.                              *)
SuccessIsComplete ==
  /\ \A c \in Caller : answer[c] = "SUCCESS" => startup = "COMPLETE"
  /\ startup = "FAILED" <=> broke # 0 /\ \A c \in Caller : at[c] = "idle"
  /\ startup = "COMPLETE" =>
       LET r == begun[1]
       IN  /\ Happened("hw") \/ Happened("minimalHw") \/ Happened("power")
           /\ r.kind = "system" =>
                /\ r.cache => Happened("cache")
                /\ r.transport # None => Happened("debug")
                /\ Happened("perf")

(* "Full BSP initialization releases the active NSX transport first and    *)
(* stops if that release reports an error" (nsx_system.h:311).             *)
BaselineWithoutDebug ==
  [][\A c \in Caller : FullBackend(c)
       => ~OutputEnabled /\ ~sError /\ \A t \in Transport : link[t] = "off"]_startupVars

(* "Subsequent setup returns that error until reset": once a debug call    *)
(* has failed, nothing touches the transports any more.                    *)
DebugErrorIsFinal == [][sError => sError' /\ UNCHANGED link]_startupVars

(* A startup that begins ends, and so does every debug call.               *)
StartupEnds ==
  /\ startup = "RUNNING" ~> startup \in {"COMPLETE", "FAILED"}
  /\ dpc # "idle" ~> dpc = "idle"
=============================================================================
