-------------------------- MODULE NsxRingBufferIsr --------------------------
(***************************************************************************)
(* One ring buffer shared by the main loop and an interrupt handler.       *)
(*                                                                         *)
(* The handler runs whole calls: nothing of the main loop runs inside it.  *)
(* A call of the main loop is cut at every access to a volatile field that *)
(* it makes with interrupts enabled; its masked section is one step.  All  *)
(* pushes are refusing ones (bFullCheck = true), for which the header says *)
(* that no data is lost, so bytes can be numbered: the k-th byte a push    *)
(* accepts has the value k.  flush is left out: it is neither masked nor   *)
(* among the calls the header declares interrupt-safe.                     *)
(***************************************************************************)
EXTENDS NsxRingBuffer

CONSTANT MaxBytes   \* bound on the bytes accepted in a behaviour

ASSUME ByteAssumption == MaxBytes \in Nat /\ Byte = 0..MaxBytes

VARIABLES
  pc,         \* where the main loop's call stands
  loc,        \* the locals of that call
  sent,       \* how many bytes pushes have accepted
  received    \* the bytes pops have returned, in order

main == <<pc, loc>>
history == <<sent, received>>
isrVars == <<vars, main, history>>

NoLocals ==
  [n |-> 0, frame |-> FALSE, tail |-> 0, head |-> 0, available |-> 0,
   pending |-> {}, lhs |-> 0, rhs |-> 0]

(* The next n bytes a producer offers.                                     *)
NextBytes(n) == [k \in 1..n |-> sent + k]
Offered == {n \in 1..MaxPush : sent + n <= MaxBytes}

Accepts == sent' = sent + ret'.n /\ UNCHANGED received
Receives == received' = received \o ret'.bytes /\ UNCHANGED sent

IsrInit ==
  /\ headIdx = 0 /\ tailIdx = 0 /\ Overwrite = FALSE
  /\ Data = [i \in Slots |-> 0]
  /\ ret = NoBytes(0)
  /\ pc = "idle" /\ loc = NoLocals
  /\ sent = 0 /\ received = <<>>

-----------------------------------------------------------------------------
(* The handler.                                                            *)

IsrPush ==
  /\ \E n \in Offered : Push(NextBytes(n), TRUE)
  /\ Accepts
  /\ UNCHANGED main

IsrPop ==
  /\ \E n \in PopSizes : Pop(n)
  /\ Receives
  /\ UNCHANGED main

-----------------------------------------------------------------------------
(* The main loop: nsx_ring_buffer_used, inside a pop or a drain.           *)

(* Everything of a step that only reads fields into locals.                *)
Reads == UNCHANGED <<vars, history>>

(* pop and drain begin with a call of used; a drain (frame) compares the   *)
(* answer and then calls pop, which calls used again.                      *)
CallPop ==
  /\ pc = "idle"
  /\ \E n \in PopSizes : loc' = [NoLocals EXCEPT !.n = n]
  /\ pc' = "usedTail"
  /\ Reads

CallDrain ==
  /\ pc = "idle"
  /\ \E n \in PopSizes : loc' = [NoLocals EXCEPT !.n = n, !.frame = TRUE]
  /\ pc' = "drainTail"
  /\ Reads

(* A pc inside the used call a drain makes, and its twin inside pop's.     *)
Twin(inDrain, inPop) == pc \in {inDrain, inPop}
Follow(inDrain, inPop) ==
  pc' = IF pc \in {"drainTail", "drainHead", "drainLapped", "drainLapFlag",
                   "drainFull", "drainFullFlag"}
        THEN inDrain ELSE inPop

UsedTail ==
  /\ Twin("drainTail", "usedTail")
  /\ loc' = [loc EXCEPT !.tail = tailIdx]
  /\ Follow("drainHead", "usedHead")
  /\ Reads

UsedHead ==
  /\ Twin("drainHead", "usedHead")
  /\ loc' = [loc EXCEPT !.head = headIdx, !.pending = {"tail", "head"}]
  /\ Follow("drainLapped", "usedLapped")
  /\ Reads

(* C does not order the two reads of ui32Tail != ui32Head.                 *)
ReadPending ==
  \E field \in loc.pending :
    loc' = [loc EXCEPT !.pending = @ \ {field},
                       !.lhs = IF field = "tail" THEN tailIdx ELSE @,
                       !.rhs = IF field = "head" THEN headIdx ELSE @]

Compare ==
  /\ loc.pending # {}
  /\ Twin("drainLapped", "usedLapped") \/ Twin("drainFull", "usedFull")
  /\ ReadPending
  /\ UNCHANGED pc
  /\ Reads

(* nsx_ring_buffer_overwrite has compared; && reads the flag only if the   *)
(* indices differ.                                                         *)
LappedCompared ==
  /\ Twin("drainLapped", "usedLapped") /\ loc.pending = {}
  /\ IF loc.lhs # loc.rhs
     THEN Follow("drainLapFlag", "usedLapFlag") /\ UNCHANGED loc
     ELSE /\ Follow("drainFull", "usedFull")
          /\ loc' = [loc EXCEPT !.pending = {"tail", "head"}]
  /\ Reads

(* Mutant: the drain's comparison is off by one.                           *)
UsedReturnsOffByOne(available) ==
  /\ loc' = [loc EXCEPT !.available = available]
  /\ Follow(IF available + 1 >= loc.n THEN "usedTail" ELSE "refused", "popHead")
  /\ Reads

(* used returns `available': a drain compares it, a pop reads the head.    *)
UsedReturns(available) ==
  /\ loc' = [loc EXCEPT !.available = available]
  /\ Follow(IF available >= loc.n THEN "usedTail" ELSE "refused", "popHead")
  /\ Reads

LappedFlag ==
  /\ Twin("drainLapFlag", "usedLapFlag")
  /\ IF Overwrite THEN UsedReturns(Capacity)
     ELSE /\ Follow("drainFull", "usedFull")
          /\ loc' = [loc EXCEPT !.pending = {"tail", "head"}]
          /\ Reads

Distance == Wrap(loc.tail + Capacity - loc.head)

FullCompared ==
  /\ Twin("drainFull", "usedFull") /\ loc.pending = {}
  /\ IF loc.lhs = loc.rhs
     THEN Follow("drainFullFlag", "usedFullFlag") /\ UNCHANGED loc /\ Reads
     ELSE UsedReturns(Distance)

FullFlag ==
  /\ Twin("drainFullFlag", "usedFullFlag")
  /\ UsedReturns(IF Overwrite THEN Capacity ELSE Distance)

DrainRefused ==
  /\ pc = "refused"
  /\ ret' = NoBytes(0)
  /\ pc' = "idle" /\ loc' = NoLocals
  /\ UNCHANGED <<fields, history>>

-----------------------------------------------------------------------------
(* The main loop: the rest of pop, and push.                               *)

PopHead ==
  /\ pc = "popHead"
  /\ pc' = "popMasked"
  /\ loc' = [loc EXCEPT !.head = headIdx]
  /\ Reads

PopInterruptsOff ==
  /\ pc = "popMasked"
  /\ PopMasked(loc.available, loc.head, loc.n, loc.frame)
  /\ Receives
  /\ pc' = "idle" /\ loc' = NoLocals

CallPush ==
  /\ pc = "idle"
  /\ \E n \in Offered : loc' = [NoLocals EXCEPT !.n = n, !.tail = tailIdx]
  /\ pc' = "pushHead"
  /\ Reads

PushHead ==
  /\ pc = "pushHead"
  /\ loc' = [loc EXCEPT !.head = headIdx]
  /\ pc' = "pushMasked"
  /\ Reads

PushInterruptsOff ==
  /\ pc = "pushMasked"
  /\ PushRefusingMasked(loc.tail, loc.head, NextBytes(loc.n))
  /\ Accepts
  /\ pc' = "idle" /\ loc' = NoLocals

-----------------------------------------------------------------------------
(* The steps of a pop, up to the masked section.                           *)
PopSteps ==
  \/ UsedTail \/ UsedHead \/ Compare
  \/ LappedCompared \/ LappedFlag \/ FullCompared \/ FullFlag
  \/ PopHead \/ PopInterruptsOff

(* The handler produces; the main loop drains frames.                      *)
DrainNext == IsrPush \/ CallDrain \/ PopSteps \/ DrainRefused

(* The handler produces; the main loop pops whatever there is.             *)
PopNext == IsrPush \/ CallPop \/ PopSteps

(* The main loop produces; the handler pops.                               *)
PushNext == CallPush \/ PushHead \/ PushInterruptsOff \/ IsrPop

DrainSpec == IsrInit /\ [][DrainNext]_isrVars
PopSpec == IsrInit /\ [][PopNext]_isrVars
PushSpec == IsrInit /\ [][PushNext]_isrVars

-----------------------------------------------------------------------------
(* "Interrupt-safe push/pop" (nsx_ring_buffer.h:5) with "no data is lost"  *)
(* (nsx_ring_buffer.h:98): the bytes received followed by the bytes still  *)
(* stored are exactly the bytes accepted, in order, whatever the handler   *)
(* did after the main loop's call read the indices.                        *)
NothingLost == received \o Contents = [k \in 1..sent |-> k]

(* nsx_ring_buffer_drain returns 1 only with a whole frame                 *)
(* (nsx_ring_buffer.h:150), although it asks for the fill level in one     *)
(* call and pops in another.                                               *)
WholeFrames ==
  [][pc = "popMasked" /\ pc' = "idle" /\ loc.frame
       => Len(ret'.bytes) = loc.n]_isrVars
=============================================================================
