----------------------------- MODULE NsxBleNotify -----------------------------
(***************************************************************************)
(* Periodic notifications of nsx-ble/src/ns_ble.c: the timer of each       *)
(* notify characteristic, armed by the client's subscription and stopped   *)
(* when it ends, while subscriptions and connections come and go in the    *)
(* Cordio stack and reach the wrapper as messages.                         *)
(*                                                                         *)
(* Everything runs in the one WSF task.  Its dispatcher empties the        *)
(* message queue, serves the timers that have expired, then lets the       *)
(* stack's handlers run, and starts over (port/freertos/wsf_os.c).  The    *)
(* stack changes its table of subscriptions (atts_ccc.c, app_server.c) and *)
(* posts a message about it, which is lost when WSF has no buffer left.    *)
(* The wrapper's callbacks to the application may process an unsubscribe   *)
(* or a disconnect before they return.  One connection (NS_BLE_CONN_MAX);  *)
(* a characteristic is an element of Chars.                                *)
(***************************************************************************)
EXTENDS Naturals, SequencesExt

CONSTANTS Chars,     \* notify characteristics of the one service
          Async,     \* those with indicationIsAsynchronous
          None,      \* no characteristic
          Pool       \* WSF buffers, so messages the queue can hold

ASSUME BleAssumption ==
  IsFiniteSet(Chars) /\ Async \subseteq Chars /\ None \notin Chars /\ Pool \in Nat

VARIABLES
  link,      \* the stack: a connection is open
  table,     \* the stack: per characteristic, its CCC value is NOTIFY
  queue,     \* messages for the wrapper
  phase,     \* what the dispatcher does: "messages", "timers" or "handlers"
  current,   \* currentConnId # DM_CONN_ID_NONE
  timer,     \* per characteristic, indicationTimer is running
  doing,     \* the application callback under way, and what is kept over it
  out,       \* history: the characteristic notified by the last step
  lost       \* history: a message has been lost

vars == <<link, table, queue, phase, current, timer, doing, out, lost>>

Nothing == [kind |-> "none", c |-> None, value |-> FALSE, conn |-> FALSE]
NoneOf == [c \in Chars |-> FALSE]

BleInit ==
  /\ link = FALSE /\ table = NoneOf /\ queue = <<>> /\ phase = "messages"
  /\ current = FALSE /\ timer = NoneOf /\ doing = Nothing
  /\ out = None /\ lost = FALSE

Msg(event, c, value) == [event |-> event, c |-> c, value |-> value]

FitsOne(n) == Len(queue) < Pool             \* mutant

Fits(n) == Len(queue) + n <= Pool

(* What is left of messages when some of them have been lost.              *)
Remnants(msgs) ==
  UNION {{[i \in 1..n |-> msgs[pick[i]]] :
            pick \in {p \in [1..n -> DOMAIN msgs] : \A i, j \in 1..n : i < j => p[i] < p[j]}} :
         n \in 0..Len(msgs) - 1}

(* ns_ble_generic_DmCback and ns_ble_generic_CccCback post a message each, *)
(* unless WsfMsgAlloc fails: then nobody is told.                          *)
Post(msgs) ==
  \/ /\ Fits(Len(msgs))
     /\ queue' = queue \o msgs /\ UNCHANGED lost
  \/ \E kept \in Remnants(msgs) :
       /\ Fits(Len(kept))
       /\ queue' = queue \o kept /\ lost' = TRUE

-----------------------------------------------------------------------------
(* The stack, when the dispatcher lets its handlers run. *)

Handlers == phase = "handlers"
StackOnly == UNCHANGED <<phase, current, timer, doing>> /\ out' = None

(* A message for each subscription restored, then that of the opening.     *)
Opening(restored) ==
  LET on == SetToSeq({c \in Chars : restored[c]})
  IN [i \in DOMAIN on |-> Msg("ccc", on[i], TRUE)] \o <<Msg("open", None, FALSE)>>

(* AppServerConnCback restores what a bonded peer had subscribed to;       *)
(* others start with nothing.                                              *)
PeerConnects(restored) ==
  /\ Handlers /\ ~link
  /\ link' = TRUE /\ table' = restored
  /\ Post(Opening(restored))
  /\ StackOnly

(* attsCccWriteValue: only a change is told. *)
PeerWrites(c) ==
  /\ Handlers /\ link
  /\ table' = [table EXCEPT ![c] = ~@]
  /\ Post(<<Msg("ccc", c, ~table[c])>>)
  /\ StackOnly /\ UNCHANGED link

(* The table is gone at once; a stack timer may close the link, too. *)
LinkCloses ==
  /\ phase \in {"handlers", "timers"} /\ doing = Nothing /\ link
  /\ link' = FALSE /\ table' = NoneOf
  /\ Post(<<Msg("close", None, FALSE)>>)
  /\ StackOnly

-----------------------------------------------------------------------------
(* wsfOsDispatcher. *)

Then(from, to) ==
  /\ phase = from /\ doing = Nothing
  /\ phase' = to /\ out' = None
  /\ UNCHANGED <<link, table, queue, current, timer, doing, lost>>

Dispatch ==
  \/ queue = <<>> /\ Then("messages", "timers")
  \/ Then("timers", "handlers")
  \/ Then("handlers", "messages")

Stopped(c) == [timer EXCEPT ![c] = FALSE]
Started(c) == [timer EXCEPT ![c] = TRUE]

Deliver(event) ==
  /\ phase = "messages" /\ doing = Nothing /\ queue # <<>> /\ Head(queue).event = event
  /\ queue' = Tail(queue) /\ out' = None
  /\ UNCHANGED <<link, table, phase, lost>>

ConnOpen == Deliver("open") /\ current' = TRUE /\ UNCHANGED <<timer, doing>>

(* ns_ble_stop_notification_timers comes first. *)
ConnClose ==
  Deliver("close") /\ timer' = NoneOf /\ current' = FALSE /\ UNCHANGED doing

(* ns_ble_process_ccc_state first tells the application. *)
CccState ==
  /\ Deliver("ccc")
  /\ doing' = [kind |-> "ccc", c |-> Head(queue).c, value |-> Head(queue).value,
               conn |-> current]
  /\ UNCHANGED <<current, timer>>

MayArmOnValue(d) ==       \* mutant
  d.value /\ d.c \notin Async /\ current = d.conn

MayArm(d) == d.value /\ d.c \notin Async /\ current = d.conn /\ table[d.c]

CccReturns ==
  /\ doing.kind = "ccc"
  /\ timer' = IF MayArm(doing) THEN Started(doing.c) ELSE Stopped(doing.c)
  /\ doing' = Nothing /\ out' = None
  /\ UNCHANGED <<link, table, queue, phase, current, lost>>

(* ns_ble_notification_subscribed. *)
Subscribed(c) == current /\ table[c]

(* ns_ble_handle_indication_timer_expired: WSF has dequeued the timer; the *)
(* callback of a subscribed characteristic, if it has one, is called.      *)
Expire(c) ==
  /\ phase = "timers" /\ doing = Nothing /\ timer[c]
  /\ timer' = Stopped(c) /\ out' = None
  /\ doing' = IF c \in Async \/ ~Subscribed(c) THEN Nothing
              ELSE [Nothing EXCEPT !.kind = "notify", !.c = c, !.conn = current]
  /\ UNCHANGED <<link, table, queue, phase, current, lost>>

StillWanted(d) == current = d.conn /\ Subscribed(d.c)

RestartedIfSent(c) == IF out' = c THEN Started(c) ELSE Stopped(c)   \* mutant

Restarted(c) == Started(c)

(* ns_ble_send_value: the characteristic may demand more security than the *)
(* link has yet, and AttsSetAttr may fail.                                 *)
Sends(c) == out' \in IF Subscribed(c) THEN {c, None} ELSE {None}

NotifyReturns ==
  /\ doing.kind = "notify"
  /\ IF StillWanted(doing)
       THEN Sends(doing.c) /\ timer' = Restarted(doing.c)   \* or the callback failed
       ELSE out' = None /\ timer' = Stopped(doing.c)
  /\ doing' = Nothing
  /\ UNCHANGED <<link, table, queue, phase, current, lost>>

-----------------------------------------------------------------------------
(* The application. *)

(* In a callback: "may unsubscribe or process a disconnect" before it      *)
(* returns; the stack's table and the wrapper's state both change.         *)
CallbackUnsubscribes(c) ==
  /\ doing # Nothing /\ table[c]
  /\ table' = [table EXCEPT ![c] = FALSE] /\ timer' = Stopped(c)
  /\ out' = None /\ UNCHANGED <<link, queue, phase, current, doing, lost>>

CallbackDisconnects ==
  /\ doing # Nothing /\ link
  /\ link' = FALSE /\ table' = NoneOf
  /\ timer' = NoneOf /\ current' = FALSE
  /\ out' = None /\ UNCHANGED <<queue, phase, doing, lost>>

(* It may send a value whenever it likes, as it must for those in Async. *)
AppSends(c) ==
  /\ doing = Nothing /\ Sends(c)
  /\ UNCHANGED <<link, table, queue, phase, current, timer, doing, lost>>

Stack ==
  \/ \E restored \in [Chars -> BOOLEAN] : PeerConnects(restored)
  \/ \E c \in Chars : PeerWrites(c)
  \/ LinkCloses

Wrapper == ConnOpen \/ ConnClose \/ CccState \/ CccReturns \/ NotifyReturns

Callbacks == CallbackDisconnects \/ \E c \in Chars : CallbackUnsubscribes(c)

Next ==
  \/ Stack \/ Dispatch \/ Wrapper \/ Callbacks
  \/ \E c \in Chars : Expire(c) \/ AppSends(c)

(* The dispatcher keeps running, handlers and callbacks return, and a      *)
(* running timer expires.                                                  *)
Fairness ==
  /\ WF_vars(Wrapper) /\ SF_vars(Dispatch)
  /\ \A c \in Chars : SF_vars(Expire(c))

BleSpec == BleInit /\ [][Next]_vars /\ Fairness

-----------------------------------------------------------------------------
TypeOK ==
  /\ link \in BOOLEAN /\ current \in BOOLEAN /\ lost \in BOOLEAN
  /\ table \in [Chars -> BOOLEAN] /\ timer \in [Chars -> BOOLEAN]
  /\ phase \in {"messages", "timers", "handlers"}
  /\ Len(queue) <= Pool /\ out \in Chars \cup {None}
  /\ \A i \in DOMAIN queue : /\ queue[i].event \in {"open", "close", "ccc"}
                             /\ queue[i].event = "ccc" <=> queue[i].c \in Chars
  /\ doing.kind \in {"none", "ccc", "notify"}
  /\ doing.kind = "none" <=> doing.c = None

(* With no news waiting, a notification timer runs exactly for a periodic  *)
(* characteristic that the connected client is subscribed to: subscribing, *)
(* restored bonds and expiry arm it, while unsubscribing, disconnecting    *)
(* and a callback that processes either leave none behind (ns_ble.c:1081-  *)
(* 1085, 1103-1127, 1143; nsx-ble/README.md:91-94).                        *)
TimerMatchesSubscription ==
  queue = <<>> /\ doing = Nothing /\ ~lost =>
    \A c \in Chars : timer[c] <=> Subscribed(c) /\ c \notin Async

(* A subscriber keeps being served: as long as it stays subscribed and no  *)
(* message is lost, the notify callback of a periodic characteristic runs  *)
(* again and again, whatever the callbacks return (ns_ble.c:1092-1093).    *)
KeepsNotifying ==
  \A c \in Chars \ Async :
    (Subscribed(c) /\ ~lost) ~>
      ((doing.kind = "notify" /\ doing.c = c) \/ ~Subscribed(c) \/ lost)
=============================================================================
