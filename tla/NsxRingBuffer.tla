--------------------------- MODULE NsxRingBuffer ---------------------------
(***************************************************************************)
(* modules/nsx-core/src/nsx_ring_buffer.c, called from one context.        *)
(*                                                                         *)
(* The index arithmetic is the code's.  A masked section is one operator   *)
(* that takes the values the code has read into locals BEFORE it masks     *)
(* interrupts, so that NsxRingBufferIsr can pass it stale ones; here the   *)
(* locals are the fields' current values.  A byte is a member of Byte, and *)
(* the memcpy loop that wraps at the end of the storage is what it leaves  *)
(* in each slot: the last source byte that lands there.                    *)
(***************************************************************************)
EXTENDS Integers, Sequences

CONSTANTS
  Byte,       \* the values a byte can take
  Capacity,   \* ui32Capacity; init stores it and nothing changes it
  MaxPush,    \* bound on the length of one push
  PopSizes    \* the byte counts pop and drain are called with

ASSUME CapacityAssumption == Capacity \in Nat \ {0}
ASSUME SizeAssumption == MaxPush \in Nat /\ PopSizes \subseteq Nat

VARIABLES
  headIdx,    \* ui32Head, read index
  tailIdx,    \* ui32Tail, write index
  Overwrite,  \* ui32Overwrite # 0
  Data,       \* pui8Data
  ret         \* what the last call returned: count and bytes copied out

fields == <<headIdx, tailIdx, Overwrite, Data>>
vars == <<headIdx, tailIdx, Overwrite, Data, ret>>

Slots == 0..Capacity - 1

(* Mutant: the modulus is one too large.                                   *)
WrapLate(i) == i % (Capacity + 1)

(* Every index computation of the code ends in % ui32Capacity.             *)
Wrap(i) == i % Capacity

AtMost(n, m) == IF n <= m THEN n ELSE m
NoBytes(n) == [n |-> n, bytes |-> <<>>]
Sources == UNION {[1..n -> Byte] : n \in 0..MaxPush}

-----------------------------------------------------------------------------
(* nsx_ring_buffer_overwrite, _empty, _full and _used.                     *)

Lapped == tailIdx # headIdx /\ Overwrite
Empty == tailIdx = headIdx /\ ~Overwrite
Full == tailIdx = headIdx /\ Overwrite

Used ==
  IF Lapped \/ Full THEN Capacity
  ELSE Wrap(tailIdx + Capacity - headIdx)

-----------------------------------------------------------------------------
(* The copies between the caller's memory and the storage.                 *)

(* The storage after the bytes of src are written from slot `tail' on: a   *)
(* slot keeps the last byte that lands in it, which is followed by `after' *)
(* more, or its old byte if none does.                                     *)
Written(tail, src) ==
  [i \in Slots |->
     LET after == Wrap(tail + Len(src) + Capacity - 1 - i)
     IN  IF after < Len(src) THEN src[Len(src) - after] ELSE Data[i]]

(* The n bytes stored from slot `head' on.                                 *)
Stored(head, n) == [k \in 1..n |-> Data[Wrap(head + k - 1)]]

(* The bytes a reader can still obtain, oldest first.                      *)
Contents == Stored(headIdx, Used)

-----------------------------------------------------------------------------
(* The masked sections.  tail and head are the locals of the call.         *)

(* ui32Free, from the locals the caller holds.                             *)
Free(tail, head) == Wrap(head + Capacity - tail)

(* Mutant: the not-empty branch compares with < instead of <=.             *)
FillsStrict(tail, head, n) ==
  IF Empty THEN n >= Capacity ELSE Free(tail, head) < n

(* The condition under which a push raises ui32Overwrite.                  *)
Fills(tail, head, n) ==
  IF Empty THEN n >= Capacity ELSE Free(tail, head) <= n

PushRefusingMasked(tail, head, src) ==
  \/ /\ Full
     /\ ret' = NoBytes(0)
     /\ UNCHANGED fields
  \/ /\ ~Full
     /\ LET room == IF Empty THEN Capacity ELSE Free(tail, head)
            n == IF Fills(tail, head, Len(src)) THEN room ELSE Len(src)
        IN  /\ Overwrite' = (Overwrite \/ Fills(tail, head, Len(src)))
            /\ Data' = Written(tail, SubSeq(src, 1, n))
            /\ tailIdx' = Wrap(tail + n)
            /\ ret' = NoBytes(n)
            /\ UNCHANGED headIdx

PushOverwritingMasked(tail, head, src) ==
  /\ Overwrite' = (Overwrite \/ Fills(tail, head, Len(src)))
  /\ Data' = Written(tail, src)
  /\ tailIdx' = Wrap(tail + Len(src))
  /\ headIdx' = IF Overwrite' THEN tailIdx' ELSE headIdx
  /\ ret' = NoBytes(Len(src))

(* Mutant: the pop does not reset ui32Overwrite.                           *)
PopMaskedKeepsFlag(available, head, n, asFrame) ==
  LET from == IF Lapped THEN tailIdx ELSE head
      got == AtMost(n, available)
  IN  /\ headIdx' = Wrap(from + got)
      /\ ret' = [n |-> IF asFrame THEN 1 ELSE got, bytes |-> Stored(from, got)]
      /\ UNCHANGED <<Overwrite, tailIdx, Data>>

(* available and head are the locals read before the mask.  A drain        *)
(* (asFrame) drops pop's count and returns 1.                              *)
PopMasked(available, head, n, asFrame) ==
  LET from == IF Lapped THEN tailIdx ELSE head
      got == AtMost(n, available)
  IN  /\ headIdx' = Wrap(from + got)
      /\ Overwrite' = FALSE
      /\ ret' = [n |-> IF asFrame THEN 1 ELSE got, bytes |-> Stored(from, got)]
      /\ UNCHANGED <<tailIdx, Data>>

-----------------------------------------------------------------------------
(* The API, called from one context.                                       *)

(* The storage is not cleared: it starts with whatever it held.            *)
Init ==
  /\ headIdx = 0 /\ tailIdx = 0 /\ Overwrite = FALSE
  /\ Data \in [Slots -> Byte]
  /\ ret = NoBytes(0)

Reinit ==
  /\ headIdx' = 0 /\ tailIdx' = 0 /\ Overwrite' = FALSE
  /\ ret' = NoBytes(0)
  /\ UNCHANGED Data

Push(src, fullCheck) ==
  IF fullCheck THEN PushRefusingMasked(tailIdx, headIdx, src)
  ELSE PushOverwritingMasked(tailIdx, headIdx, src)

Pop(n) == PopMasked(Used, headIdx, n, FALSE)

Flush ==
  /\ Overwrite' = FALSE
  /\ headIdx' = tailIdx
  /\ ret' = NoBytes(0)
  /\ UNCHANGED <<tailIdx, Data>>

Drain(n) ==
  \/ Used >= n /\ PopMasked(Used, headIdx, n, TRUE)
  \/ Used < n /\ ret' = NoBytes(0) /\ UNCHANGED fields

Next ==
  \/ \E src \in Sources, fullCheck \in BOOLEAN : Push(src, fullCheck)
  \/ \E n \in PopSizes : Pop(n)
  \/ \E n \in PopSizes : Drain(n)
  \/ Flush
  \/ Reinit

Spec == Init /\ [][Next]_vars

-----------------------------------------------------------------------------
(* The types of the fields and of the returned value.                      *)
TypeOK ==
  /\ headIdx \in Slots
  /\ tailIdx \in Slots
  /\ Overwrite \in BOOLEAN
  /\ Data \in [Slots -> Byte]
  /\ ret.n \in Nat

(* ui32Overwrite is only ever set on a buffer whose indices meet, so the   *)
(* "an overwrite occurred" branch of pop (nsx_ring_buffer.c:191) that      *)
(* moves the read index, and the Lapped case of nsx_ring_buffer_used, are  *)
(* never taken when every call comes from one context.                     *)
NeverLapped == ~Lapped

(* The ring buffer keeps the header's promise: with the stored bytes as    *)
(* the queue, every call returns and leaves what a bounded FIFO would.     *)
(* The promise needs 0 \notin PopSizes: pop of zero bytes resets           *)
(* ui32Overwrite (nsx_ring_buffer.c:209) and so empties a full buffer.     *)
Fifo == INSTANCE BoundedFifo WITH queue <- Contents
ImplementsFifo == Fifo!Spec
=============================================================================
