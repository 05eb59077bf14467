---------------------------- MODULE BoundedFifo ----------------------------
(***************************************************************************)
(* What nsx_ring_buffer.h promises its callers, with no indices: a FIFO    *)
(* queue of at most Capacity bytes.  A refusing push (bFullCheck = true)   *)
(* appends as much of the source as fits; an overwriting push              *)
(* (bFullCheck = false) accepts every byte and drops the oldest ones; a    *)
(* pop returns the oldest bytes.  `ret' is what the last call returned:    *)
(* the count, and the bytes copied out.                                    *)
(***************************************************************************)
EXTENDS Naturals, Sequences

CONSTANTS
  Byte,       \* the values a byte can take
  Capacity,   \* ui32Capacity
  MaxPush,    \* bound on the length of one push
  PopSizes    \* the byte counts pop and drain are called with

VARIABLES queue, ret

AtMost(n, m) == IF n <= m THEN n ELSE m

NoBytes(n) == [n |-> n, bytes |-> <<>>]

(* The sources a push can be given: every string of up to MaxPush bytes.   *)
Sources == UNION {[1..n -> Byte] : n \in 0..MaxPush}

Init == queue = <<>> /\ ret = NoBytes(0)

PushRefusing(src) ==
  LET n == AtMost(Len(src), Capacity - Len(queue))
  IN  /\ queue' = queue \o SubSeq(src, 1, n)
      /\ ret' = NoBytes(n)

PushOverwriting(src) ==
  LET all == queue \o src
      drop == IF Len(all) <= Capacity THEN 0 ELSE Len(all) - Capacity
  IN  /\ queue' = SubSeq(all, drop + 1, Len(all))
      /\ ret' = NoBytes(Len(src))

Pop(n) ==
  LET got == AtMost(n, Len(queue))
  IN  /\ queue' = SubSeq(queue, got + 1, Len(queue))
      /\ ret' = [n |-> got, bytes |-> SubSeq(queue, 1, got)]

(* A drain pops a whole frame or nothing; it returns 1 or 0.               *)
Drain(n) ==
  /\ n <= Len(queue)
  /\ queue' = SubSeq(queue, n + 1, Len(queue))
  /\ ret' = [n |-> 1, bytes |-> SubSeq(queue, 1, n)]

DrainRefused(n) ==
  /\ n > Len(queue)
  /\ ret' = NoBytes(0)
  /\ UNCHANGED queue

Clear == queue' = <<>> /\ ret' = NoBytes(0)

Next ==
  \/ \E src \in Sources : PushRefusing(src) \/ PushOverwriting(src)
  \/ \E n \in PopSizes : Pop(n) \/ Drain(n) \/ DrainRefused(n)
  \/ Clear

Spec == Init /\ [][Next]_<<queue, ret>>
=============================================================================
