---------------------- MODULE NsxRingBufferIsrProofs ----------------------
(***************************************************************************)
(* The three patterns in which a main loop and a handler share a buffer,   *)
(* for every capacity, burst and request size.                             *)
(*                                                                         *)
(* The main loop drains or pops, the handler pushes: the main loop reads   *)
(* the indices with interrupts enabled, so what it knows of the fill level *)
(* is out of date; but the handler never moves the read index and only     *)
(* adds bytes, so it is a lower bound.  For a drain that is enough: its    *)
(* frame is there when the masked section takes it.  For a pop it is, but  *)
(* for one state, BlindReset.                                              *)
(*                                                                         *)
(* The main loop pushes, the handler pops: the read index the main loop    *)
(* knows lags, so it sees less room than there is.  That only matters      *)
(* where it takes the buffer for filled, StaleFill.                        *)
(***************************************************************************)
EXTENDS NsxRingBufferIsr, NsxRingBufferProofs

(* ------------------------- the invariant ------------------------------- *)

InDrain == {"drainTail", "drainHead", "drainLapped", "drainLapFlag",
            "drainFull", "drainFullFlag"}
InPop == {"usedTail", "usedHead", "usedLapped", "usedLapFlag",
          "usedFull", "usedFullFlag"}

LocTyped ==
  loc \in [n : PopSizes \cup {0}, frame : BOOLEAN, tail : Slots, head : Slots,
           available : 0..Capacity, pending : SUBSET {"tail", "head"},
           lhs : Slots, rhs : Slots]

(* The index t was the write index when the buffer held u bytes.           *)
TailAt(t, u) == t = Wrap(headIdx + u)

(* A drain asks for nothing yet; the pop it makes may count on a frame.    *)
Low == IF pc \in InPop /\ loc.frame THEN loc.n ELSE 0

Comparing == pc \in {"drainLapped", "usedLapped", "drainFull", "usedFull"}

(* The tail the call has read is that of a fill level u between Low and    *)
(* the present one, and what the comparison has read of the indices is the *)
(* head as it still is and the tail of a level in between.                 *)
ReadInv ==
  \E u \in 0..Used :
    /\ Low <= u /\ TailAt(loc.tail, u)
    /\ Comparing /\ "tail" \notin loc.pending => \E v \in u..Used : TailAt(loc.lhs, v)
    /\ Comparing /\ "head" \notin loc.pending => loc.rhs = headIdx

(* The handler only adds bytes, so whatever the call knows of the fill     *)
(* level stays a lower bound; in the pop a drain makes, it is a frame.     *)
FillInv ==
  /\ pc # "idle" => loc.n \in PopSizes
  /\ pc \in InPop /\ loc.frame => loc.n <= Used
  /\ pc \in (InDrain \cup InPop) \ {"drainTail", "usedTail"} => ReadInv
  /\ pc \in (InDrain \cup InPop) \ {"drainTail", "usedTail", "drainHead", "usedHead"}
       => loc.head = headIdx
  /\ pc \in {"popHead", "popMasked"}
       => loc.available <= Used /\ (loc.frame => loc.n <= loc.available)
  /\ pc = "popMasked" => loc.head = headIdx

(* NothingLost, slot by slot.                                              *)
CountInv ==
  /\ sent \in Nat /\ received \in Seq(Byte)
  /\ Len(received \o Contents) = sent
  /\ \A k \in 1..sent : (received \o Contents)[k] = k

CallInv ==
  /\ IndexInv /\ LocTyped /\ FillInv /\ CountInv
  /\ pc \in {"idle", "refused", "popHead", "popMasked"} \cup InDrain \cup InPop

(* A pop has found nothing to take, or was asked for nothing, and masks    *)
(* the interrupts only after the handler has filled the buffer.            *)
BlindReset == pc = "popMasked" /\ Overwrite /\ AtMost(loc.n, loc.available) = 0

(* ------------------------- the fill level ------------------------------ *)

(* The index that is u ahead of the read index is at distance u.           *)
LEMMA DistanceIsLevel ==
  ASSUME NEW h \in Slots, NEW u \in 0..Capacity, NEW t, t = Wrap(h + u)
  PROVE  /\ t \in Slots
         /\ t = h <=> u = 0 \/ u = Capacity
         /\ u < Capacity => Wrap(t + Capacity - h) = u
<1> USE CapacityAssumption DEF Slots
<1>1. Wrap(h + u) = IF h + u < Capacity THEN h + u ELSE h + u - Capacity
  BY ModOnce
<1>2. t \in Slots /\ (t = h <=> u = 0 \/ u = Capacity)
  BY <1>1
<1>3. ASSUME u < Capacity PROVE Wrap(t + Capacity - h) = u
  <2>1. t + Capacity - h = IF h + u < Capacity THEN u + Capacity ELSE u
    BY <1>1
  <2>2. Wrap(u + Capacity) = u /\ Wrap(u) = u
    BY <1>3, ModOnce
  <2> QED BY <2>1, <2>2
<1> QED BY <1>2, <1>3

(* A step of the main loop that only reads leaves the buffer as it is.     *)
LEMMA ReadsKeepBuffer ==
  ASSUME IndexInv, CountInv, UNCHANGED <<vars, history>>
  PROVE  /\ IndexInv' /\ CountInv' /\ Used' = Used
         /\ headIdx' = headIdx /\ tailIdx' = tailIdx /\ Overwrite' = Overwrite
<1>1. /\ UNCHANGED <<headIdx, tailIdx, Overwrite, Data, ret, sent, received>>
      /\ Used' = Used /\ Contents' = Contents
  BY DEF vars, history, Used, Lapped, Full, Contents, Stored
<1>2. IndexInv'
  BY <1>1 DEF IndexInv, TypeOK, NeverLapped, Lapped
<1>3. CountInv'
  BY <1>1 DEF CountInv
<1> QED BY <1>1, <1>2, <1>3

(* What the header promises of a push: the bytes it accepts follow those   *)
(* that were there, and the read index stays.                              *)
LEMMA PushGrows ==
  ASSUME IndexInv, CountInv, NEW n \in Offered, Push(NextBytes(n), TRUE), Accepts
  PROVE  /\ IndexInv' /\ CountInv'
         /\ headIdx' = headIdx /\ Used' \in Used..Capacity
<1> DEFINE src == NextBytes(n)
           m == AtMost(Len(src), Capacity - Used)
           part == SubSeq(src, 1, m)
           all == received \o Contents
<1>2. n \in 1..MaxPush /\ sent \in Nat /\ sent + n <= MaxBytes
      /\ sent' = sent + ret'.n /\ received' = received /\ received \in Seq(Byte)
  BY DEF Offered, CountInv, Accepts
<1>3. MaxPush \in Nat /\ n \in Nat
  BY <1>2, SizeAssumption
<1>4. src \in [1..n -> Byte] /\ \A k \in 1..n : src[k] = sent + k
  <2>1. \A k \in 1..n : sent + k \in Byte
    BY <1>2, <1>3, ByteAssumption
  <2> QED BY <2>1 DEF NextBytes
<1>5. src \in Sources /\ src \in Seq(Byte) /\ Len(src) = n
  <2> HIDE DEF src
  <2>1. src \in Seq(Byte) /\ Len(src) = n
    BY <1>3, <1>4, SeqDef
  <2>2. n \in 0..MaxPush
    BY <1>2, <1>3
  <2> QED BY <1>4, <2>1, <2>2 DEF Sources
<1>6. Used \in 0..Capacity /\ Contents \in Seq(Byte) /\ Len(Contents) = Used
  BY ContentsMeaning, UsedMeaning DEF StoredBytes
<1>7. m \in Nat /\ m <= n /\ Used + m <= Capacity
  BY <1>3, <1>5, <1>6, CapacityAssumption DEF AtMost
<1>8. IndexInv' /\ headIdx' = headIdx /\ Used' = Used + m /\ ret' = NoBytes(m)
  <2>1. PushRefusingMasked(tailIdx, headIdx, src)
    BY DEF Push
  <2> QED BY <1>5, <2>1, PushRefusingStep
<1>9. Contents' = Contents \o part
  <2>1. Fifo!PushRefusing(src)
    BY <1>5, RefusingRefines
  <2> QED BY <1>6, <2>1 DEF Fifo!PushRefusing, Fifo!AtMost, AtMost
<1>10. part \in Seq(Byte) /\ Len(part) = m /\ \A j \in 1..m : part[j] = src[j]
  <2> HIDE DEF m, src
  <2>1. \A j \in 1..m : src[j] \in Byte
    BY <1>3, <1>4, <1>7
  <2>2. 1 \in Int /\ m \in Int
    BY <1>7
  <2>3. /\ part \in Seq(Byte)
        /\ Len(part) = IF 1 <= m THEN m - 1 + 1 ELSE 0
        /\ \A j \in 1..m - 1 + 1 : part[j] = src[1 + j - 1]
    BY <2>1, <2>2, SubSeqProperties
  <2> HIDE DEF part
  <2> QED BY <1>7, <2>3
<1> HIDE DEF src, m, part
<1>11. received' \o Contents' = all \o part
  <2>1. (received \o Contents) \o part = received \o (Contents \o part)
    <3>1. received \in Seq(Byte) /\ Contents \in Seq(Byte) /\ part \in Seq(Byte)
      BY <1>2, <1>6, <1>10
    <3> QED BY <3>1, ConcatAssociative
  <2> QED BY <1>2, <1>9, <2>1
<1>12. all \in Seq(Byte) /\ Len(all) = sent /\ \A k \in 1..sent : all[k] = k
  BY <1>2, <1>6, ConcatProperties DEF CountInv
<1> HIDE DEF all
<1>13. /\ Len(all \o part) = sent + m
       /\ \A k \in 1..sent + m :
            (all \o part)[k] = IF k <= sent THEN all[k] ELSE part[k - sent]
  <2>1. all \in Seq(Byte) /\ part \in Seq(Byte)
    BY <1>10, <1>12
  <2>2. /\ Len(all \o part) = Len(all) + Len(part)
        /\ \A k \in 1..Len(all) + Len(part) :
             (all \o part)[k] = IF k <= Len(all) THEN all[k] ELSE part[k - Len(all)]
    BY <2>1, ConcatProperties
  <2> QED BY <1>10, <1>12, <2>2
<1>14. ASSUME NEW k \in 1..sent + m PROVE (all \o part)[k] = k
  <2>1. CASE k <= sent
    BY <1>2, <1>7, <1>12, <1>13, <2>1
  <2>2. CASE ~(k <= sent)
    <3>1. k - sent \in 1..m /\ k - sent \in 1..n
      BY <1>2, <1>3, <1>7, <2>2
    <3>2. part[k - sent] = sent + (k - sent)
      BY <1>4, <1>10, <3>1
    <3> QED BY <1>2, <1>7, <1>13, <2>2, <3>2
  <2> QED BY <2>1, <2>2
<1>15. sent' = sent + m
  BY <1>2, <1>8 DEF NoBytes
<1>16. CountInv'
  <2>1. sent' \in Nat /\ received' \in Seq(Byte)
    BY <1>2, <1>7, <1>15
  <2>2. Len(received' \o Contents') = sent'
    BY <1>11, <1>13, <1>15
  <2>3. \A k \in 1..sent' : (received' \o Contents')[k] = k
    BY <1>11, <1>14, <1>15
  <2> QED BY <2>1, <2>2, <2>3 DEF CountInv
<1>17. Used' \in Used..Capacity
  BY <1>6, <1>7, <1>8, CapacityAssumption
<1> QED BY <1>8, <1>16, <1>17

LEMMA IsrPushGrows ==
  ASSUME IndexInv, CountInv, IsrPush
  PROVE  /\ IndexInv' /\ CountInv'
         /\ headIdx' = headIdx /\ Used' \in Used..Capacity
<1>1. PICK n \in Offered : Push(NextBytes(n), TRUE)
  BY DEF IsrPush
<1> QED BY <1>1, PushGrows DEF IsrPush

(* The masked section of a pop that takes something, at most what is       *)
(* stored, takes that and nothing else.                                    *)
LEMMA PopTakes ==
  ASSUME IndexInv, CountInv, NEW n \in Nat, NEW available \in 0..Capacity,
         NEW asFrame \in BOOLEAN, available <= Used,
         NEW got, got = AtMost(n, available), got # 0,
         PopMasked(available, headIdx, n, asFrame), Receives
  PROVE  IndexInv' /\ CountInv' /\ Len(ret'.bytes) = got
<1> DEFINE taken == SubSeq(Contents, 1, got)
           rest == SubSeq(Contents, got + 1, Len(Contents))
<1>1. Used \in 0..Capacity /\ Contents \in Seq(Byte) /\ Len(Contents) = Used /\ Used \in Nat
  BY ContentsMeaning, UsedMeaning, CapacityAssumption DEF StoredBytes
<1>2. got \in Nat \ {0} /\ got = AtMost(got, Used) /\ got <= Used
  BY <1>1, CapacityAssumption DEF AtMost
<1>3. PopMasked(Used, headIdx, got, asFrame)
  BY <1>2 DEF PopMasked
<1>4. Contents' = rest /\ ret' = [n |-> IF asFrame THEN 1 ELSE got, bytes |-> taken]
  BY <1>2, <1>3, PopTakesOldest
<1>5. IndexInv'
  BY <1>2, <1>3, PopStep
<1>6. /\ sent' = sent /\ received' = received \o taken
      /\ sent \in Nat /\ received \in Seq(Byte)
  BY <1>4 DEF Receives, CountInv
<1>7. taken \in Seq(Byte) /\ Len(taken) = got
  <2>1. \A i \in 1..got : Contents[i] \in Byte
    BY <1>1, <1>2, ElementOfSeq
  <2>2. 1 \in Int /\ got \in Int
    BY <1>2
  <2>3. taken \in Seq(Byte) /\ Len(taken) = IF 1 <= got THEN got - 1 + 1 ELSE 0
    BY <2>1, <2>2, SubSeqProperties
  <2> HIDE DEF taken
  <2> QED BY <1>2, <2>3
<1>8. rest \in Seq(Byte)
  <2>1. \A i \in got + 1..Used : Contents[i] \in Byte
    BY <1>1, <1>2, ElementOfSeq
  <2>2. got + 1 \in Int /\ Used \in Int
    BY <1>1, <1>2
  <2>3. SubSeq(Contents, got + 1, Used) \in Seq(Byte)
    BY <2>1, <2>2, SubSeqProperties
  <2> QED BY <1>1, <2>3
<1>9. taken \o rest = Contents
  <2>1. /\ 1 \in 1..Len(Contents) + 1 /\ got \in 1 - 1..Len(Contents)
        /\ Len(Contents) \in got..Len(Contents)
    BY <1>1, <1>2
  <2>2. taken \o rest = SubSeq(Contents, 1, Len(Contents))
    BY <1>1, <2>1, ConcatAdjacentSubSeq
  <2>3. SubSeq(Contents, 1, Len(Contents)) = Contents
    BY <1>1, SubSeqFull
  <2> HIDE DEF taken, rest
  <2> QED BY <2>2, <2>3
<1> HIDE DEF taken, rest
<1>10. received' \o Contents' = received \o Contents
  <2>1. (received \o taken) \o rest = received \o (taken \o rest)
    <3>1. received \in Seq(Byte) /\ taken \in Seq(Byte) /\ rest \in Seq(Byte)
      BY <1>6, <1>7, <1>8
    <3> QED BY <3>1, ConcatAssociative
  <2> QED BY <1>4, <1>6, <1>9, <2>1
<1>11. received' \in Seq(Byte)
  BY <1>6, <1>7, ConcatProperties
<1>12. CountInv'
  BY <1>6, <1>10, <1>11 DEF CountInv
<1> QED BY <1>4, <1>5, <1>7, <1>12

(* A pop of nothing resets the flag, and on a full buffer the flag is all  *)
(* that tells it from an empty one; on any other it changes nothing.       *)
LEMMA PopOfNothing ==
  ASSUME IndexInv, CountInv, NEW n \in Nat, NEW available \in 0..Capacity,
         NEW asFrame \in BOOLEAN, AtMost(n, available) = 0, ~Overwrite,
         PopMasked(available, headIdx, n, asFrame), Receives
  PROVE  IndexInv' /\ CountInv' /\ Len(ret'.bytes) = 0
<1>1. headIdx \in Slots /\ Wrap(headIdx + 0) = headIdx
  BY ModOnce, CapacityAssumption DEF IndexInv, TypeOK, Slots
<1>2. /\ headIdx' = headIdx /\ UNCHANGED <<Overwrite, tailIdx, Data>>
      /\ ret' = [n |-> IF asFrame THEN 1 ELSE 0, bytes |-> Stored(headIdx, 0)]
  BY <1>1 DEF PopMasked, IndexInv, TypeOK, NeverLapped, Lapped
<1>3. Stored(headIdx, 0) = <<>>
  BY DEF Stored
<1>4. Used' = Used /\ Contents' = Contents
  BY <1>2 DEF Used, Lapped, Full, Contents, Stored
<1>5. sent' = sent /\ received' = received /\ ret'.bytes = <<>> /\ ret'.n \in Nat
  BY <1>2, <1>3, ConcatEmptySeq DEF Receives, CountInv
<1>6. IndexInv'
  BY <1>2, <1>5 DEF IndexInv, TypeOK, NeverLapped, Lapped
<1>7. CountInv'
  BY <1>4, <1>5 DEF CountInv
<1> QED BY <1>5, <1>6, <1>7, EmptySeq

(* ------------------------- the steps ----------------------------------- *)

LocFields(l) ==
  /\ l.n \in PopSizes \cup {0} /\ l.frame \in BOOLEAN
  /\ l.tail \in Slots /\ l.head \in Slots /\ l.available \in 0..Capacity
  /\ l.pending \in SUBSET {"tail", "head"} /\ l.lhs \in Slots /\ l.rhs \in Slots

LEMMA LocFieldsTyped ==
  ASSUME LocTyped
  PROVE  LocFields(loc)
  BY DEF LocTyped, LocFields

(* What every step may use of the state before it.                         *)
LEMMA Known ==
  ASSUME CallInv
  PROVE  /\ IndexInv /\ CountInv /\ LocTyped /\ FillInv /\ LocFields(loc)
         /\ Used \in 0..Capacity /\ Used \in Nat /\ headIdx \in Slots /\ tailIdx \in Slots
         /\ TailAt(tailIdx, Used)
         /\ Overwrite <=> Used = Capacity
         /\ loc.n \in Int
<1>1. IndexInv /\ CountInv /\ LocTyped /\ FillInv
  BY DEF CallInv
<1>2. LocFields(loc) /\ loc.n \in Int
  <2>1. LocFields(loc)
    BY <1>1, LocFieldsTyped
  <2>2. loc.n \in PopSizes \/ loc.n = 0
    BY <2>1 DEF LocFields
  <2>3. \A m \in PopSizes : m \in Int
    BY SizeAssumption
  <2> QED BY <2>1, <2>2, <2>3
<1>3. /\ Used \in 0..Capacity /\ tailIdx = Wrap(headIdx + Used)
      /\ Overwrite <=> Used = Capacity
  BY <1>1, UsedMeaning, FlagMeaning
<1>4. Used \in Nat
  BY <1>3, CapacityAssumption
<1> QED BY <1>1, <1>2, <1>3, <1>4 DEF IndexInv, TypeOK, TailAt

LEMMA CallDrainStep ==
  ASSUME CallInv, CallDrain
  PROVE  CallInv'
<1>0. /\ IndexInv /\ CountInv
  BY Known
<1>1. IndexInv' /\ CountInv'
  BY <1>0, ReadsKeepBuffer DEF CallDrain, Reads
<1>2. PICK n \in PopSizes : loc' = [NoLocals EXCEPT !.n = n, !.frame = TRUE]
  BY DEF CallDrain
<1>3. pc' = "drainTail"
  BY DEF CallDrain
<1>4. loc' = [n |-> n, frame |-> TRUE, tail |-> 0, head |-> 0, available |-> 0,
              pending |-> {}, lhs |-> 0, rhs |-> 0]
  BY <1>2 DEF NoLocals
<1>5. LocTyped'
  BY <1>4, CapacityAssumption DEF LocTyped, Slots
<1>6. FillInv'
  BY <1>3, <1>4 DEF FillInv, InDrain, InPop
<1> QED BY <1>1, <1>3, <1>5, <1>6 DEF CallInv, InDrain

LEMMA CallPopStep ==
  ASSUME CallInv, CallPop
  PROVE  CallInv'
<1>0. /\ IndexInv /\ CountInv
  BY Known
<1>1. IndexInv' /\ CountInv'
  BY <1>0, ReadsKeepBuffer DEF CallPop, Reads
<1>2. PICK n \in PopSizes : loc' = [NoLocals EXCEPT !.n = n]
  BY DEF CallPop
<1>3. pc' = "usedTail"
  BY DEF CallPop
<1>4. loc' = [n |-> n, frame |-> FALSE, tail |-> 0, head |-> 0, available |-> 0,
              pending |-> {}, lhs |-> 0, rhs |-> 0]
  BY <1>2 DEF NoLocals
<1>5. LocTyped'
  BY <1>4, CapacityAssumption DEF LocTyped, Slots
<1>6. FillInv'
  BY <1>3, <1>4 DEF FillInv, InDrain, InPop
<1> QED BY <1>1, <1>3, <1>5, <1>6 DEF CallInv, InPop

LEMMA UsedTailStep ==
  ASSUME CallInv, UsedTail
  PROVE  CallInv'
<1>0. /\ IndexInv /\ CountInv /\ LocTyped /\ FillInv /\ LocFields(loc)
      /\ Used \in 0..Capacity /\ Used \in Nat /\ tailIdx \in Slots
      /\ TailAt(tailIdx, Used) /\ loc.n \in Int
  BY Known
<1>1. IndexInv' /\ CountInv' /\ Used' = Used /\ headIdx' = headIdx
  BY <1>0, ReadsKeepBuffer DEF UsedTail, Reads
<1>2. /\ pc \in {"drainTail", "usedTail"}
      /\ loc' = [loc EXCEPT !.tail = tailIdx]
      /\ pc = "drainTail" => pc' = "drainHead"
      /\ pc = "usedTail" => pc' = "usedHead"
  BY DEF UsedTail, Twin, Follow
<1>3. LocTyped'
  BY <1>0, <1>2 DEF LocTyped
<1>4. /\ loc'.tail = tailIdx /\ loc'.n = loc.n /\ loc'.frame = loc.frame
  BY <1>0, <1>2 DEF LocTyped
<1>5. loc.n \in PopSizes /\ (pc = "usedTail" /\ loc.frame => loc.n <= Used)
  BY <1>0, <1>2 DEF FillInv, InPop
<1>6. pc' \in {"drainHead", "usedHead"} /\ (pc' \in InPop => pc = "usedTail")
  BY <1>2 DEF InPop
<1>7. ReadInv'
  <2>1. Used' \in 0..Used' /\ loc'.tail = Wrap(headIdx' + Used')
    BY <1>0, <1>1, <1>4 DEF TailAt
  <2>2. Low' <= Used'
    BY <1>0, <1>1, <1>4, <1>5, <1>6 DEF Low
  <2> QED BY <1>6, <2>1, <2>2 DEF ReadInv, TailAt, Comparing
<1>8. FillInv'
  BY <1>1, <1>4, <1>5, <1>6, <1>7 DEF FillInv
<1>9. pc' \in InDrain \cup InPop
  BY <1>6 DEF InDrain, InPop
<1> QED BY <1>1, <1>3, <1>8, <1>9 DEF CallInv

LEMMA UsedHeadStep ==
  ASSUME CallInv, UsedHead
  PROVE  CallInv'
<1>0. /\ IndexInv /\ CountInv /\ LocTyped /\ FillInv /\ headIdx \in Slots
  BY Known
<1>1. IndexInv' /\ CountInv' /\ Used' = Used /\ headIdx' = headIdx
  BY <1>0, ReadsKeepBuffer DEF UsedHead, Reads
<1>2. /\ pc \in {"drainHead", "usedHead"}
      /\ loc' = [loc EXCEPT !.head = headIdx, !.pending = {"tail", "head"}]
      /\ pc' \in {"drainLapped", "usedLapped"}
      /\ pc' \in InPop <=> pc \in InPop
  BY DEF UsedHead, Twin, Follow, InPop
<1>3. LocTyped'
  BY <1>0, <1>2 DEF LocTyped
<1>4. /\ loc'.head = headIdx /\ loc'.pending = {"tail", "head"}
      /\ loc'.tail = loc.tail /\ loc'.n = loc.n /\ loc'.frame = loc.frame
  BY <1>0, <1>2 DEF LocTyped
<1>5. loc.n \in PopSizes /\ (pc \in InPop /\ loc.frame => loc.n <= Used) /\ ReadInv
  BY <1>0, <1>2 DEF FillInv, InDrain, InPop
<1>6. ReadInv'
  BY <1>1, <1>2, <1>4, <1>5 DEF ReadInv, TailAt, Low
<1>7. FillInv'
  BY <1>1, <1>2, <1>4, <1>5, <1>6 DEF FillInv
<1>8. pc' \in InDrain \cup InPop
  BY <1>2 DEF InDrain, InPop
<1> QED BY <1>1, <1>3, <1>7, <1>8 DEF CallInv

(* One of the two reads of a comparison: the tail is that of the present   *)
(* fill level, the head is as it was.                                      *)
LEMMA CompareStep ==
  ASSUME CallInv, Compare
  PROVE  CallInv'
<1>0. /\ IndexInv /\ CountInv /\ LocTyped /\ FillInv /\ Used \in Nat
      /\ headIdx \in Slots /\ tailIdx \in Slots /\ TailAt(tailIdx, Used)
  BY Known
<1>1. IndexInv' /\ CountInv' /\ Used' = Used /\ headIdx' = headIdx
  BY <1>0, ReadsKeepBuffer DEF Compare, Reads
<1>2. /\ pc \in {"drainLapped", "usedLapped", "drainFull", "usedFull"} /\ pc' = pc
  BY DEF Compare, Twin
<1>3. PICK field \in loc.pending :
        loc' = [loc EXCEPT !.pending = @ \ {field},
                           !.lhs = IF field = "tail" THEN tailIdx ELSE @,
                           !.rhs = IF field = "head" THEN headIdx ELSE @]
  BY DEF Compare, ReadPending
<1>4. LocTyped'
  BY <1>0, <1>3 DEF LocTyped
<1>5. /\ loc'.tail = loc.tail /\ loc'.head = loc.head /\ loc'.n = loc.n
      /\ loc'.frame = loc.frame /\ loc'.pending = loc.pending \ {field}
      /\ loc'.lhs = IF field = "tail" THEN tailIdx ELSE loc.lhs
      /\ loc'.rhs = IF field = "head" THEN headIdx ELSE loc.rhs
  BY <1>0, <1>3 DEF LocTyped
<1>6. /\ loc.n \in PopSizes /\ (pc \in InPop /\ loc.frame => loc.n <= Used) /\ ReadInv
      /\ loc.head = headIdx
  BY <1>0, <1>2 DEF FillInv, InDrain, InPop
<1>7. PICK u \in 0..Used :
        /\ Low <= u /\ TailAt(loc.tail, u)
        /\ Comparing /\ "tail" \notin loc.pending => \E v \in u..Used : TailAt(loc.lhs, v)
        /\ Comparing /\ "head" \notin loc.pending => loc.rhs = headIdx
  BY <1>6 DEF ReadInv
<1>8. ReadInv'
  <2>1. Low' = Low /\ (Comparing' <=> Comparing) /\ Comparing
    BY <1>2, <1>5 DEF Low, Comparing
  <2>2. "tail" \notin loc'.pending => \E v \in u..Used : loc'.lhs = Wrap(headIdx + v)
    <3>1. CASE field = "tail"
      <4>1. Used \in u..Used
        BY <1>0
      <4> QED BY <1>0, <1>5, <3>1, <4>1 DEF TailAt
    <3>2. CASE field # "tail"
      BY <1>5, <1>7, <2>1, <3>2 DEF TailAt
    <3> QED BY <3>1, <3>2
  <2>3. "head" \notin loc'.pending => loc'.rhs = headIdx
    BY <1>5, <1>7, <2>1
  <2> QED BY <1>1, <1>5, <1>7, <2>1, <2>2, <2>3 DEF ReadInv, TailAt
<1>9. FillInv'
  BY <1>1, <1>2, <1>5, <1>6, <1>8 DEF FillInv
<1>10. pc' \in InDrain \cup InPop
  BY <1>2 DEF InDrain, InPop
<1> QED BY <1>1, <1>4, <1>9, <1>10 DEF CallInv

(* A step that goes on to read the flag, or to the second comparison.      *)
LEMMA GoesOn ==
  ASSUME CallInv, Reads,
         pc \in (InDrain \cup InPop) \ {"drainTail", "usedTail", "drainHead", "usedHead"},
         \/ UNCHANGED loc /\ pc' \in {"drainLapFlag", "usedLapFlag",
                                      "drainFullFlag", "usedFullFlag"}
         \/ /\ loc' = [loc EXCEPT !.pending = {"tail", "head"}]
            /\ pc' \in {"drainFull", "usedFull"},
         pc' \in InPop <=> pc \in InPop
  PROVE  CallInv'
<1>0. /\ IndexInv /\ CountInv /\ LocTyped /\ FillInv
  BY Known
<1>1. IndexInv' /\ CountInv' /\ Used' = Used /\ headIdx' = headIdx
  BY <1>0, ReadsKeepBuffer DEF Reads
<1>2. LocTyped'
  BY <1>0 DEF LocTyped
<1>3. /\ loc'.tail = loc.tail /\ loc'.head = loc.head /\ loc'.n = loc.n
      /\ loc'.frame = loc.frame
      /\ Comparing' => loc'.pending = {"tail", "head"}
  BY <1>0 DEF LocTyped, Comparing
<1>4. /\ loc.n \in PopSizes /\ (pc \in InPop /\ loc.frame => loc.n <= Used) /\ ReadInv
      /\ loc.head = headIdx
  BY <1>0 DEF FillInv, InDrain, InPop
<1>5. ReadInv'
  <2>1. Low' = Low
    BY <1>3 DEF Low
  <2> QED BY <1>1, <1>3, <1>4, <2>1 DEF ReadInv, TailAt
<1>6. FillInv'
  BY <1>1, <1>3, <1>4, <1>5 DEF FillInv
<1>7. pc' \in InDrain \cup InPop
  BY DEF InDrain, InPop
<1> QED BY <1>1, <1>2, <1>6, <1>7 DEF CallInv

(* nsx_ring_buffer_used returns a level that is not above the present one, *)
(* and in a drain's pop not below the frame.                               *)
LEMMA UsedReturnsStep ==
  ASSUME CallInv, NEW available \in 0..Capacity, UsedReturns(available),
         pc \in InDrain \cup InPop, available <= Used, Low <= available
  PROVE  CallInv'
<1>0. /\ IndexInv /\ CountInv /\ LocTyped /\ FillInv /\ loc.n \in Int /\ Used \in Nat
  BY Known
<1>1. IndexInv' /\ CountInv' /\ Used' = Used /\ headIdx' = headIdx
  BY <1>0, ReadsKeepBuffer DEF UsedReturns, Reads
<1>2. loc' = [loc EXCEPT !.available = available]
  BY DEF UsedReturns
<1>3. LocTyped'
  BY <1>0, <1>2 DEF LocTyped
<1>4. loc'.available = available /\ loc'.n = loc.n /\ loc'.frame = loc.frame
  BY <1>0, <1>2 DEF LocTyped
<1>5. loc.n \in PopSizes
  BY <1>0 DEF FillInv, InDrain, InPop
<1>6. \/ pc' = "refused"
      \/ pc' = "usedTail" /\ loc.n <= available
      \/ pc' = "popHead" /\ (loc.frame => loc.n <= available)
  <2>1. CASE pc \in InDrain
    <3>1. pc' = IF available >= loc.n THEN "usedTail" ELSE "refused"
      BY <2>1 DEF UsedReturns, Follow, InDrain
    <3> QED BY <1>0, <3>1, CapacityAssumption
  <2>2. CASE pc \in InPop
    <3>1. pc' = "popHead" /\ (loc.frame => Low = loc.n)
      BY <2>2 DEF UsedReturns, Follow, InPop, Low
    <3> QED BY <3>1
  <2> QED BY <2>1, <2>2
<1>7. pc' = "usedTail" => loc.n <= Used
  BY <1>0, <1>6, CapacityAssumption
<1>8. FillInv'
  BY <1>1, <1>4, <1>5, <1>6, <1>7 DEF FillInv, InDrain, InPop
<1>9. pc' \in {"refused", "popHead"} \cup InPop
  BY <1>6 DEF InPop
<1> QED BY <1>1, <1>3, <1>8, <1>9 DEF CallInv

(* The places where the two indices, the flag and the distance decide what *)
(* used returns.                                                           *)
LEMMA LevelRead ==
  ASSUME CallInv,
         pc \in (InDrain \cup InPop) \ {"drainTail", "usedTail", "drainHead", "usedHead"}
  PROVE  \E u \in 0..Used :
           /\ Low <= u /\ u <= Capacity /\ u \in Nat
           /\ u < Capacity => Distance = u
           /\ Comparing /\ loc.pending = {} /\ loc.lhs # loc.rhs => u < Capacity
<1>0. /\ FillInv /\ Used \in 0..Capacity /\ Used \in Nat /\ headIdx \in Slots
  BY Known
<1>1. ReadInv /\ loc.head = headIdx
  BY <1>0 DEF FillInv
<1>2. PICK u \in 0..Used :
        /\ Low <= u /\ TailAt(loc.tail, u)
        /\ Comparing /\ "tail" \notin loc.pending => \E v \in u..Used : TailAt(loc.lhs, v)
        /\ Comparing /\ "head" \notin loc.pending => loc.rhs = headIdx
  BY <1>1 DEF ReadInv
<1>3. u \in 0..Capacity /\ u \in Nat /\ u <= Capacity
  BY <1>0, CapacityAssumption
<1>4. u < Capacity => Distance = u
  BY <1>0, <1>1, <1>2, <1>3, DistanceIsLevel DEF Distance, TailAt
<1>5. ASSUME Comparing, loc.pending = {}, loc.lhs # loc.rhs
      PROVE  u < Capacity
  <2>1. loc.rhs = headIdx
    BY <1>2, <1>5
  <2>2. PICK v \in u..Used : loc.lhs = Wrap(headIdx + v)
    BY <1>2, <1>5 DEF TailAt
  <2>3. v \in 0..Capacity /\ u <= v
    BY <1>0, <1>3, <2>2, CapacityAssumption
  <2>4. v # Capacity
    BY <1>0, <1>5, <2>1, <2>2, <2>3, DistanceIsLevel
  <2> QED BY <1>3, <2>3, <2>4, CapacityAssumption
<1> QED BY <1>2, <1>3, <1>4, <1>5

LEMMA LappedComparedStep ==
  ASSUME CallInv, LappedCompared
  PROVE  CallInv'
<1>1. pc \in {"drainLapped", "usedLapped"} /\ Reads
  BY DEF LappedCompared, Twin
<1>2. \/ UNCHANGED loc /\ pc' \in {"drainLapFlag", "usedLapFlag"}
      \/ /\ loc' = [loc EXCEPT !.pending = {"tail", "head"}]
         /\ pc' \in {"drainFull", "usedFull"}
  BY DEF LappedCompared, Follow
<1>3. pc' \in InPop <=> pc \in InPop
  BY <1>1 DEF LappedCompared, Follow, InPop
<1>4. pc \in (InDrain \cup InPop) \ {"drainTail", "usedTail", "drainHead", "usedHead"}
  BY <1>1 DEF InDrain, InPop
<1> QED BY <1>1, <1>2, <1>3, <1>4, GoesOn

LEMMA LappedFlagStep ==
  ASSUME CallInv, LappedFlag
  PROVE  CallInv'
<1>0. Used \in 0..Capacity /\ (Overwrite <=> Used = Capacity) /\ FillInv /\ loc.n \in Int
  BY Known
<1>1. pc \in {"drainLapFlag", "usedLapFlag"}
  BY DEF LappedFlag, Twin
<1>2. pc \in (InDrain \cup InPop) \ {"drainTail", "usedTail", "drainHead", "usedHead"}
  BY <1>1 DEF InDrain, InPop
<1>3. CASE Overwrite
  <2>1. UsedReturns(Capacity)
    BY <1>3 DEF LappedFlag
  <2>2. Low <= Capacity
    BY <1>0, <1>3, CapacityAssumption DEF Low, FillInv
  <2>3. Capacity <= Used /\ Capacity \in 0..Capacity
    BY <1>0, <1>3, CapacityAssumption
  <2> QED BY <1>2, <2>1, <2>2, <2>3, UsedReturnsStep
<1>4. CASE ~Overwrite
  <2>1. /\ Reads /\ loc' = [loc EXCEPT !.pending = {"tail", "head"}]
        /\ pc' \in {"drainFull", "usedFull"} /\ (pc' \in InPop <=> pc \in InPop)
    BY <1>1, <1>4 DEF LappedFlag, Follow, InPop
  <2> QED BY <1>2, <2>1, GoesOn
<1> QED BY <1>3, <1>4

LEMMA FullComparedStep ==
  ASSUME CallInv, FullCompared
  PROVE  CallInv'
<1>1. pc \in {"drainFull", "usedFull"} /\ loc.pending = {}
  BY DEF FullCompared, Twin
<1>2. pc \in (InDrain \cup InPop) \ {"drainTail", "usedTail", "drainHead", "usedHead"}
  BY <1>1 DEF InDrain, InPop
<1>3. CASE loc.lhs = loc.rhs
  <2>1. /\ Reads /\ UNCHANGED loc
        /\ pc' \in {"drainFullFlag", "usedFullFlag"} /\ (pc' \in InPop <=> pc \in InPop)
    BY <1>1, <1>3 DEF FullCompared, Follow, InPop
  <2> QED BY <1>2, <2>1, GoesOn
<1>4. CASE loc.lhs # loc.rhs
  <2>1. UsedReturns(Distance)
    BY <1>4 DEF FullCompared
  <2>2. Distance \in 0..Capacity /\ Distance <= Used /\ Low <= Distance
    <3>1. PICK u \in 0..Used :
            /\ Low <= u /\ u <= Capacity /\ u \in Nat
            /\ u < Capacity => Distance = u
            /\ Comparing /\ loc.pending = {} /\ loc.lhs # loc.rhs => u < Capacity
      BY <1>2, LevelRead
    <3>2. Distance = u
      BY <1>1, <1>4, <3>1 DEF Comparing
    <3>3. Used \in Nat
      BY Known
    <3> QED BY <3>1, <3>2, <3>3, CapacityAssumption
  <2> QED BY <1>2, <2>1, <2>2, UsedReturnsStep
<1> QED BY <1>3, <1>4

LEMMA FullFlagStep ==
  ASSUME CallInv, FullFlag
  PROVE  CallInv'
<1>0. /\ Used \in 0..Capacity /\ Used \in Nat
      /\ Overwrite <=> Used = Capacity
      /\ FillInv /\ loc.n \in Int
  BY Known
<1>1. pc \in {"drainFullFlag", "usedFullFlag"}
  BY DEF FullFlag, Twin
<1>2. pc \in (InDrain \cup InPop) \ {"drainTail", "usedTail", "drainHead", "usedHead"}
  BY <1>1 DEF InDrain, InPop
<1>3. CASE Overwrite
  <2>1. UsedReturns(Capacity)
    BY <1>3 DEF FullFlag
  <2>2. Low <= Capacity
    BY <1>0, <1>3, CapacityAssumption DEF Low, FillInv
  <2>3. Capacity <= Used /\ Capacity \in 0..Capacity
    BY <1>0, <1>3, CapacityAssumption
  <2> QED BY <1>2, <2>1, <2>2, <2>3, UsedReturnsStep
<1>4. CASE ~Overwrite
  <2>1. UsedReturns(Distance)
    BY <1>4 DEF FullFlag
  <2>2. Distance \in 0..Capacity /\ Distance <= Used /\ Low <= Distance
    <3>1. PICK u \in 0..Used :
            Low <= u /\ u <= Capacity /\ u \in Nat /\ (u < Capacity => Distance = u)
      BY <1>2, LevelRead
    <3>2. u < Capacity
      BY <1>0, <1>4, <3>1, CapacityAssumption
    <3> QED BY <1>0, <3>1, <3>2, CapacityAssumption
  <2> QED BY <1>2, <2>1, <2>2, UsedReturnsStep
<1> QED BY <1>3, <1>4

LEMMA DrainRefusedStep ==
  ASSUME CallInv, DrainRefused
  PROVE  CallInv'
<1>0. IndexInv /\ CountInv
  BY Known
<1>1. /\ UNCHANGED <<headIdx, tailIdx, Overwrite, Data, sent, received>>
      /\ ret' = NoBytes(0) /\ pc' = "idle" /\ loc' = NoLocals
      /\ Used' = Used /\ Contents' = Contents
  BY DEF DrainRefused, fields, history, Used, Lapped, Full, Contents, Stored
<1>2. IndexInv'
  BY <1>0, <1>1 DEF IndexInv, TypeOK, NeverLapped, Lapped, NoBytes
<1>3. CountInv'
  BY <1>0, <1>1 DEF CountInv
<1>4. LocTyped'
  BY <1>1, CapacityAssumption DEF LocTyped, NoLocals, Slots
<1>5. FillInv'
  BY <1>1 DEF FillInv, InDrain, InPop
<1> QED BY <1>1, <1>2, <1>3, <1>4, <1>5 DEF CallInv

LEMMA PopHeadStep ==
  ASSUME CallInv, PopHead
  PROVE  CallInv'
<1>0. IndexInv /\ CountInv /\ LocTyped /\ FillInv /\ headIdx \in Slots
  BY Known
<1>1. IndexInv' /\ CountInv' /\ Used' = Used /\ headIdx' = headIdx
  BY <1>0, ReadsKeepBuffer DEF PopHead, Reads
<1>2. pc = "popHead" /\ pc' = "popMasked" /\ loc' = [loc EXCEPT !.head = headIdx]
  BY DEF PopHead
<1>3. LocTyped'
  BY <1>0, <1>2 DEF LocTyped
<1>4. /\ loc'.head = headIdx /\ loc'.n = loc.n /\ loc'.frame = loc.frame
      /\ loc'.available = loc.available
  BY <1>0, <1>2 DEF LocTyped
<1>5. FillInv'
  BY <1>0, <1>1, <1>2, <1>4 DEF FillInv, InDrain, InPop
<1> QED BY <1>1, <1>2, <1>3, <1>5 DEF CallInv

LEMMA PopMaskedStep ==
  ASSUME CallInv, PopInterruptsOff, ~BlindReset
  PROVE  CallInv' /\ (loc.frame => Len(ret'.bytes) = loc.n)
<1>0. IndexInv /\ CountInv /\ FillInv /\ LocFields(loc)
  BY Known
<1>1. /\ pc = "popMasked" /\ PopMasked(loc.available, loc.head, loc.n, loc.frame)
      /\ Receives /\ pc' = "idle" /\ loc' = NoLocals
  BY DEF PopInterruptsOff
<1> DEFINE got == AtMost(loc.n, loc.available)
<1>2. /\ loc.frame \in BOOLEAN /\ loc.head = headIdx /\ loc.n \in Nat
      /\ loc.available <= Used /\ loc.available \in 0..Capacity
      /\ loc.frame => got = loc.n
  BY <1>0, <1>1, SizeAssumption DEF FillInv, LocFields, AtMost
<1>3. IndexInv' /\ CountInv' /\ Len(ret'.bytes) = got
  <2>1. CASE got # 0
    BY <1>0, <1>1, <1>2, <2>1, PopTakes
  <2>2. CASE got = 0
    <3>1. ~Overwrite
      BY <1>1, <2>2 DEF BlindReset
    <3> QED BY <1>0, <1>1, <1>2, <2>2, <3>1, PopOfNothing
  <2> QED BY <2>1, <2>2
<1>4. LocTyped'
  BY <1>1, CapacityAssumption DEF LocTyped, NoLocals, Slots
<1>5. FillInv'
  BY <1>1 DEF FillInv, InDrain, InPop
<1> QED BY <1>1, <1>2, <1>3, <1>4, <1>5 DEF CallInv

LEMMA IsrPushStep ==
  ASSUME CallInv, IsrPush
  PROVE  CallInv'
<1>0. /\ IndexInv /\ CountInv /\ LocTyped /\ FillInv /\ Used \in Nat /\ loc.n \in Int
      /\ LocFields(loc)
  BY Known
<1>1. /\ IndexInv' /\ CountInv' /\ headIdx' = headIdx /\ Used' \in Used..Capacity
  BY <1>0, IsrPushGrows
<1>2. pc' = pc /\ loc' = loc
  BY DEF IsrPush, main
<1>3. Used' \in Nat /\ Used <= Used'
  BY <1>0, <1>1, CapacityAssumption
<1>4. LocTyped'
  BY <1>0, <1>2 DEF LocTyped
<1>5. ReadInv => ReadInv'
  <2> SUFFICES ASSUME ReadInv PROVE ReadInv'
    OBVIOUS
  <2>1. PICK u \in 0..Used :
          /\ Low <= u /\ TailAt(loc.tail, u)
          /\ Comparing /\ "tail" \notin loc.pending => \E v \in u..Used : TailAt(loc.lhs, v)
          /\ Comparing /\ "head" \notin loc.pending => loc.rhs = headIdx
    BY DEF ReadInv
  <2>2. u \in 0..Used' /\ u..Used \subseteq u..Used'
    BY <1>0, <1>3
  <2>3. Low' = Low /\ (Comparing' <=> Comparing)
    BY <1>2 DEF Low, Comparing
  <2> QED BY <1>1, <1>2, <2>1, <2>2, <2>3 DEF ReadInv, TailAt
<1>6. /\ loc.n <= Used => loc.n <= Used'
      /\ loc.available <= Used => loc.available <= Used'
  BY <1>0, <1>3, CapacityAssumption DEF LocFields
<1>7. FillInv'
  BY <1>0, <1>1, <1>2, <1>5, <1>6 DEF FillInv
<1> QED BY <1>0, <1>1, <1>2, <1>4, <1>7 DEF CallInv

(* ------------------------- the theorems -------------------------------- *)

LEMMA InitCallInv == IsrInit => CallInv
<1> SUFFICES ASSUME IsrInit PROVE CallInv
  OBVIOUS
<1>1. 0 \in Byte /\ Byte # {}
  BY ByteAssumption
<1>2. Init
  BY <1>1 DEF IsrInit, Init
<1>3. IndexInv
  BY <1>2, InitIndexInv
<1>4. Contents = <<>>
  BY <1>2, InitRefines DEF Fifo!Init
<1>5. received \o Contents = <<>> /\ received \in Seq(Byte)
  BY <1>4, EmptySeq, ConcatEmptySeq DEF IsrInit
<1>6. CountInv
  BY <1>5 DEF CountInv, IsrInit
<1>7. LocTyped
  BY CapacityAssumption DEF IsrInit, LocTyped, NoLocals, Slots
<1>8. FillInv /\ pc = "idle"
  BY DEF IsrInit, FillInv, InDrain, InPop
<1> QED BY <1>3, <1>6, <1>7, <1>8 DEF CallInv

LEMMA StutterCallInv ==
  ASSUME CallInv, UNCHANGED isrVars
  PROVE  CallInv'
<1>0. IndexInv /\ CountInv /\ LocTyped /\ FillInv
  BY Known
<1>1. UNCHANGED <<vars, history>> /\ pc' = pc /\ loc' = loc
  BY DEF isrVars, main
<1>2. IndexInv' /\ CountInv' /\ Used' = Used /\ headIdx' = headIdx
  BY <1>0, <1>1, ReadsKeepBuffer
<1>3. LocTyped' /\ FillInv'
  BY <1>0, <1>1, <1>2 DEF LocTyped, FillInv, ReadInv, TailAt, Low, Comparing
<1> QED BY <1>1, <1>2, <1>3 DEF CallInv

LEMMA NextCallInv ==
  ASSUME CallInv, [DrainNext \/ PopNext]_isrVars, ~BlindReset
  PROVE  CallInv'
BY IsrPushStep, CallDrainStep, CallPopStep, UsedTailStep, UsedHeadStep, CompareStep,
   LappedComparedStep, LappedFlagStep, FullComparedStep, FullFlagStep, PopHeadStep,
   PopMaskedStep, DrainRefusedStep, StutterCallInv DEF DrainNext, PopNext, PopSteps

(* Under DrainSpec every call is a drain.                                  *)
LEMMA NextDrains ==
  ASSUME CallInv, pc # "idle" => loc.frame, [DrainNext]_isrVars
  PROVE  pc' # "idle" => loc'.frame
<1>1. LocTyped
  BY DEF CallInv
<1>2. CASE pc = "idle" /\ CallDrain
  BY <1>2 DEF CallDrain, NoLocals
<1>3. CASE pc' = pc /\ loc' = loc
  BY <1>3
<1>4. CASE pc' = "idle"
  BY <1>4
<1>5. CASE pc # "idle" /\ loc'.frame = loc.frame
  BY <1>5
<1> HIDE DEF CallInv
<1> QED
  <2>1. CASE IsrPush \/ UNCHANGED isrVars
    BY <1>3, <2>1 DEF IsrPush, main, isrVars
  <2>2. CASE CallDrain
    BY <1>2, <2>2 DEF CallDrain
  <2>3. CASE DrainRefused \/ PopInterruptsOff
    BY <1>4, <2>3 DEF DrainRefused, PopInterruptsOff
  <2>4. CASE UsedTail \/ UsedHead \/ Compare \/ PopHead
    BY <1>1, <1>5, <2>4 DEF UsedTail, UsedHead, Compare, ReadPending, PopHead, Twin, LocTyped
  <2>5. CASE LappedCompared \/ LappedFlag \/ FullCompared \/ FullFlag
    BY <1>1, <1>5, <2>5
       DEF LappedCompared, LappedFlag, FullCompared, FullFlag, UsedReturns, Twin, LocTyped
  <2> QED BY <2>1, <2>2, <2>3, <2>4, <2>5 DEF DrainNext, PopSteps

DrainInv == CallInv /\ (pc # "idle" => loc.frame)

(* A drain that asks for bytes takes them: it never resets blindly.        *)
LEMMA DrainsSee ==
  ASSUME 0 \notin PopSizes, DrainInv
  PROVE  ~BlindReset
<1> SUFFICES ASSUME BlindReset PROVE FALSE
  OBVIOUS
<1>1. FillInv /\ LocFields(loc) /\ loc.frame /\ pc = "popMasked"
  BY Known DEF DrainInv, BlindReset
<1>2. loc.n \in PopSizes /\ loc.n <= loc.available /\ loc.available \in 0..Capacity
  BY <1>1 DEF FillInv, LocFields
<1>3. loc.n \in Nat \ {0}
  BY <1>2, SizeAssumption
<1> QED BY <1>2, <1>3, CapacityAssumption DEF BlindReset, AtMost

LEMMA AlwaysDrainInv ==
  ASSUME 0 \notin PopSizes
  PROVE  DrainSpec => []DrainInv
<1>1. DrainInv /\ [DrainNext]_isrVars => DrainInv'
  <2> SUFFICES ASSUME DrainInv, [DrainNext]_isrVars PROVE DrainInv'
    OBVIOUS
  <2>1. CallInv /\ (pc # "idle" => loc.frame) /\ ~BlindReset
    BY DrainsSee DEF DrainInv
  <2>2. CallInv'
    BY <2>1, NextCallInv
  <2>3. pc' # "idle" => loc'.frame
    BY <2>1, NextDrains
  <2> QED BY <2>2, <2>3 DEF DrainInv
<1>2. IsrInit => DrainInv
  BY InitCallInv DEF DrainInv, IsrInit
<1> QED BY <1>1, <1>2, PTL DEF DrainSpec

(* Counting the bytes is losing none.                                      *)
LEMMA CountedIsKept ==
  ASSUME IndexInv, CountInv
  PROVE  NothingLost
<1> DEFINE all == received \o Contents
<1>1. /\ sent \in Nat /\ Len(all) = sent /\ \A k \in 1..sent : all[k] = k
      /\ received \in Seq(Byte) /\ Contents \in Seq(Byte)
  BY ContentsMeaning DEF CountInv, StoredBytes
<1>2. all \in Seq(Byte)
  BY <1>1, ConcatProperties
<1> HIDE DEF all
<1>3. all \in [1..sent -> Byte]
  BY <1>1, <1>2, LenProperties
<1>4. all = [k \in 1..sent |-> k]
  BY <1>1, <1>3
<1> QED BY <1>4 DEF NothingLost, all

(* The handler pushes, the main loop drains: no byte is lost, doubled or   *)
(* reordered, wherever the handler interrupts the drain, for every         *)
(* capacity, burst and frame size other than zero.                         *)
THEOREM DrainLosesNothing ==
  ASSUME 0 \notin PopSizes
  PROVE  DrainSpec => []NothingLost
<1>1. DrainInv => NothingLost
  BY CountedIsKept DEF DrainInv, CallInv
<1> QED BY <1>1, AlwaysDrainInv, PTL

(* The handler pushes, the main loop pops whatever there is: bytes can be  *)
(* lost only where a pop of nothing resets the flag of a buffer that the   *)
(* handler has filled since the pop asked for the level, for every         *)
(* capacity, burst and request, zero included.                             *)
THEOREM PopLosesOnlyBlindly == PopSpec /\ []~BlindReset => []NothingLost
<1>1. CallInv /\ [PopNext]_isrVars /\ ~BlindReset => CallInv'
  BY NextCallInv
<1>2. CallInv => NothingLost
  BY CountedIsKept DEF CallInv
<1> QED BY <1>1, <1>2, InitCallInv, PTL DEF PopSpec

(* And there all of them are: the pop returns nothing and leaves nothing.  *)
THEOREM BlindResetEmpties ==
  ASSUME CallInv, BlindReset, PopInterruptsOff
  PROVE  Len(Contents) = Capacity /\ Contents' = <<>> /\ UNCHANGED history
<1>0. IndexInv /\ CountInv /\ FillInv /\ headIdx \in Slots
  BY Known
<1>1. /\ loc.head = headIdx /\ AtMost(loc.n, loc.available) = 0 /\ Overwrite
      /\ PopMasked(loc.available, headIdx, loc.n, loc.frame) /\ Receives
  BY <1>0 DEF PopInterruptsOff, BlindReset, FillInv
<1>2. Used = Capacity /\ tailIdx = headIdx
  BY <1>0, <1>1, UsedMeaning, FlagMeaning DEF IndexInv, NeverLapped, Lapped
<1>3. Wrap(headIdx + 0) = headIdx /\ Wrap(headIdx + Capacity - headIdx) = 0
  BY <1>0, ModOnce, CapacityAssumption DEF Slots
<1>4. /\ headIdx' = headIdx /\ tailIdx' = headIdx /\ Overwrite' = FALSE
      /\ ret'.bytes = Stored(headIdx, 0)
  BY <1>1, <1>2, <1>3 DEF PopMasked, Lapped
<1>5. Used' = 0
  BY <1>3, <1>4 DEF Used, Lapped, Full
<1>6. Contents' = <<>>
  BY <1>5 DEF Contents, Stored
<1>7. Len(Contents) = Capacity
  BY <1>0, <1>2, ContentsMeaning DEF StoredBytes
<1>8. received' = received /\ sent' = sent
  BY <1>0, <1>1, <1>4, ConcatEmptySeq DEF Receives, CountInv, Stored
<1> QED BY <1>6, <1>7, <1>8 DEF history

(* A drain that says it has a frame has all of it, although it asks for    *)
(* the fill level in one call and pops in another.                         *)
THEOREM DrainsAreWhole ==
  ASSUME 0 \notin PopSizes
  PROVE  DrainSpec => WholeFrames
<1>1. DrainInv /\ [DrainNext]_isrVars
        => [pc = "popMasked" /\ pc' = "idle" /\ loc.frame
              => Len(ret'.bytes) = loc.n]_isrVars
  <2> SUFFICES ASSUME DrainInv, DrainNext, pc = "popMasked", pc' = "idle", loc.frame
               PROVE  Len(ret'.bytes) = loc.n
    BY DEF isrVars
  <2>1. PopInterruptsOff
    BY DEF DrainNext, PopSteps, IsrPush, main, CallDrain, UsedTail, UsedHead, Compare,
           LappedCompared, LappedFlag, FullCompared, FullFlag, Twin, PopHead,
           DrainRefused
  <2>2. CallInv /\ ~BlindReset
    BY DrainsSee DEF DrainInv
  <2> QED BY <2>1, <2>2, PopMaskedStep
<1> QED BY <1>1, AlwaysDrainInv, PTL DEF DrainSpec, WholeFrames

(* ------------- the main loop pushes, the handler pops ------------------ *)

(* A push has read the read index before the handler popped, and on what   *)
(* is by now a buffer with more room takes its bytes for filling it.       *)
StaleFill ==
  /\ pc = "pushMasked" /\ loc.head # headIdx
  /\ ~Empty /\ Fills(loc.tail, loc.head, loc.n)

PushLocals(n, tail, head) ==
  [n |-> n, frame |-> FALSE, tail |-> tail, head |-> head, available |-> 0,
   pending |-> {}, lhs |-> 0, rhs |-> 0]

(* The handler has popped p bytes since the read index was h; they and     *)
(* those still stored were in the buffer together.                         *)
PoppedSince(h, p) == headIdx = Wrap(h + p) /\ p + Used <= Capacity

PushInv ==
  /\ IndexInv /\ CountInv
  /\ pc \in {"idle", "pushHead", "pushMasked"}
  /\ pc # "idle" => \E n \in Offered, h \in Slots : loc = PushLocals(n, tailIdx, h)
  /\ pc = "pushMasked" => \E p \in Nat : PoppedSince(loc.head, p)

LEMMA LocalsRead ==
  ASSUME NEW n, NEW t, NEW h, loc = PushLocals(n, t, h)
  PROVE  loc.n = n /\ loc.tail = t /\ loc.head = h
BY DEF PushLocals

(* The room a push computes from an index that lags by p bytes.            *)
LEMMA StaleRoom ==
  ASSUME IndexInv, ~Empty, NEW h \in Slots, NEW p \in Nat, PoppedSince(h, p)
  PROVE  Free(tailIdx, h) = Capacity - (p + Used)
<1> USE CapacityAssumption DEF Slots
<1>1. Used \in 0..Capacity /\ Used # 0 /\ tailIdx = Wrap(headIdx + Used)
  BY UsedMeaning
<1>2. p + Used \in 1..Capacity
  BY <1>1 DEF PoppedSince
<1>3. tailIdx = Wrap(h + (p + Used))
  <2>1. h + p \in Int /\ Used \in Int /\ (h + p) + Used = h + (p + Used)
    BY <1>1
  <2>2. Wrap(Wrap(h + p) + Used) = Wrap((h + p) + Used)
    BY <2>1, ModAdd
  <2> QED BY <1>1, <2>1, <2>2 DEF PoppedSince
<1> DEFINE u == p + Used
<1>4. u \in 1..Capacity /\ tailIdx = Wrap(h + u)
  BY <1>2, <1>3
<1> HIDE DEF u
<1>5. tailIdx = IF h + u < Capacity THEN h + u ELSE h + u - Capacity
  BY <1>4, ModOnce
<1>6. Wrap(Capacity - u) = Capacity - u /\ Wrap(2 * Capacity - u) = Capacity - u
  BY <1>4, ModOnce
<1>7. h + Capacity - tailIdx = IF h + u < Capacity THEN Capacity - u ELSE 2 * Capacity - u
  BY <1>4, <1>5
<1> QED BY <1>6, <1>7 DEF Free, u

(* A masked section that does not fill the buffer by a stale index stores  *)
(* what a push in one piece would.                                         *)
LEMMA FreshEnough ==
  ASSUME PushInv, PushInterruptsOff, ~StaleFill
  PROVE  \E n \in Offered : Push(NextBytes(n), TRUE)
<1>1. /\ pc = "pushMasked" /\ PushRefusingMasked(loc.tail, loc.head, NextBytes(loc.n))
      /\ IndexInv
  BY DEF PushInterruptsOff, PushInv
<1>2. PICK n \in Offered : \E h \in Slots : loc = PushLocals(n, tailIdx, h)
  BY <1>1 DEF PushInv
<1>3. PICK h \in Slots : loc = PushLocals(n, tailIdx, h)
  BY <1>2
<1>4. loc.n = n /\ loc.tail = tailIdx /\ loc.head = h
  BY <1>3, LocalsRead
<1>5. PICK p \in Nat : PoppedSince(h, p)
  BY <1>1, <1>4 DEF PushInv
<1>6. PushRefusingMasked(tailIdx, h, NextBytes(n))
  BY <1>1, <1>4
<1>7. Len(NextBytes(n)) = n /\ n \in Nat
  BY SizeAssumption DEF Offered, NextBytes
<1>8. CASE h = headIdx
  BY <1>6, <1>8 DEF Push
<1>9. CASE Empty
  BY <1>6, <1>9 DEF PushRefusingMasked, Fills, Push
<1>10. CASE ~Empty /\ h # headIdx
  <2>1. ~Fills(tailIdx, h, n)
    BY <1>1, <1>4, <1>10 DEF StaleFill
  <2>2. n < Free(tailIdx, headIdx)
    <3>1. /\ Free(tailIdx, h) = Capacity - (p + Used)
          /\ Free(tailIdx, headIdx) = Capacity - Used
          /\ Used \in 0..Capacity
      BY <1>1, <1>5, <1>10, StaleRoom, FreeIsRoom, UsedMeaning
    <3> QED BY <1>7, <1>10, <2>1, <3>1, CapacityAssumption DEF Fills
  <2>3. ~Fills(tailIdx, headIdx, n)
    <3>1. Free(tailIdx, headIdx) = Capacity - Used /\ Used \in 0..Capacity
      BY <1>1, <1>10, FreeIsRoom, UsedMeaning
    <3> QED BY <1>7, <1>10, <2>2, <3>1, CapacityAssumption DEF Fills
  <2> QED BY <1>6, <1>7, <2>1, <2>3 DEF PushRefusingMasked, Push
<1> QED BY <1>8, <1>9, <1>10

LEMMA PushMaskedStep ==
  ASSUME PushInv, PushInterruptsOff, ~StaleFill
  PROVE  PushInv'
<1>1. PICK n \in Offered : Push(NextBytes(n), TRUE)
  BY FreshEnough
<1>2. IndexInv' /\ CountInv'
  BY <1>1, PushGrows DEF PushInv, PushInterruptsOff
<1> QED BY <1>2 DEF PushInv, PushInterruptsOff

LEMMA CallPushStep ==
  ASSUME PushInv, CallPush
  PROVE  PushInv'
<1>1. /\ IndexInv' /\ CountInv' /\ tailIdx' = tailIdx /\ Offered' = Offered
      /\ pc' = "pushHead"
  BY ReadsKeepBuffer DEF PushInv, CallPush, Reads, history, Offered
<1>2. PICK n \in Offered : loc' = [NoLocals EXCEPT !.n = n, !.tail = tailIdx]
  BY DEF CallPush
<1>3. loc' = PushLocals(n, tailIdx, 0)
  BY <1>2 DEF PushLocals, NoLocals
<1>4. 0 \in Slots
  BY CapacityAssumption DEF Slots
<1> QED BY <1>1, <1>3, <1>4 DEF PushInv

LEMMA PushHeadStep ==
  ASSUME PushInv, PushHead
  PROVE  PushInv'
<1>1. /\ IndexInv' /\ CountInv' /\ tailIdx' = tailIdx /\ headIdx' = headIdx
      /\ Used' = Used /\ Offered' = Offered /\ pc' = "pushMasked"
  BY ReadsKeepBuffer DEF PushInv, PushHead, Reads, history, Offered
<1>2. pc = "pushHead" /\ loc' = [loc EXCEPT !.head = headIdx]
  BY DEF PushHead
<1>3. PICK n \in Offered : \E h \in Slots : loc = PushLocals(n, tailIdx, h)
  BY <1>2 DEF PushInv
<1>4. loc' = PushLocals(n, tailIdx, headIdx)
  <2>1. PICK h \in Slots : loc = PushLocals(n, tailIdx, h)
    BY <1>3
  <2> QED BY <1>2, <2>1 DEF PushLocals
<1>5. headIdx \in Slots /\ Used \in 0..Capacity /\ Wrap(headIdx + 0) = headIdx
  BY UsedMeaning, ModOnce, CapacityAssumption DEF PushInv, IndexInv, TypeOK, Slots
<1>6. PoppedSince(loc.head, 0)'
  <2>1. loc'.head = headIdx
    BY <1>4 DEF PushLocals
  <2>2. 0 + Used <= Capacity
    BY <1>5, CapacityAssumption
  <2> QED BY <1>1, <1>5, <2>1, <2>2 DEF PoppedSince
<1>7. \E p \in Nat : PoppedSince(loc.head, p)'
  BY <1>6
<1> QED BY <1>1, <1>4, <1>5, <1>7 DEF PushInv

LEMMA IsrPopStep ==
  ASSUME 0 \notin PopSizes, PushInv, IsrPop
  PROVE  PushInv'
<1>1. PICK n \in PopSizes : PopMasked(Used, headIdx, n, FALSE)
  BY DEF IsrPop, Pop
<1>2. /\ Receives /\ pc' = pc /\ loc' = loc /\ IndexInv /\ CountInv
      /\ n \in Nat /\ n # 0
  BY SizeAssumption DEF IsrPop, main, PushInv
<1> DEFINE got == AtMost(n, Used)
<1>3. Used \in 0..Capacity /\ got \in 0..Capacity /\ got <= Used
  BY <1>2, UsedMeaning, CapacityAssumption DEF AtMost
<1>4. IndexInv' /\ CountInv'
  <2>1. CASE got # 0
    <3>1. FALSE \in BOOLEAN /\ Used <= Used
      BY <1>3, CapacityAssumption
    <3> QED BY <1>1, <1>2, <1>3, <2>1, <3>1, PopTakes
  <2>2. CASE got = 0
    <3>1. ~Overwrite
      BY <1>2, <1>3, <2>2, FlagMeaning, CapacityAssumption DEF AtMost
    <3> QED BY <1>1, <1>2, <1>3, <2>2, <3>1, PopOfNothing
  <2> QED BY <2>1, <2>2
<1>5. headIdx' = Wrap(headIdx + got) /\ tailIdx' = tailIdx /\ Used' = Used - got
  <2>1. Used' = Used - got
    BY <1>1, <1>2, PopStep
  <2> QED BY <1>1, <1>2, <2>1 DEF PopMasked, IndexInv, NeverLapped
<1>6. Offered' = Offered
  BY <1>2 DEF Receives, Offered
<1>7. pc = "pushMasked" => \E p \in Nat : PoppedSince(loc.head, p)'
  <2> SUFFICES ASSUME pc = "pushMasked" PROVE \E p \in Nat : PoppedSince(loc.head, p)'
    OBVIOUS
  <2>1. PICK m \in Offered : \E h \in Slots : loc = PushLocals(m, tailIdx, h)
    BY DEF PushInv
  <2>2. PICK h \in Slots : loc = PushLocals(m, tailIdx, h)
    BY <2>1
  <2>3. loc.head = h
    BY <2>2, LocalsRead
  <2>4. PICK p \in Nat : headIdx = Wrap(h + p) /\ p + Used <= Capacity
    BY <2>3 DEF PushInv, PoppedSince
  <2> HIDE DEF got
  <2>5. h + p \in Int /\ got \in Int /\ (h + p) + got = h + (p + got) /\ p + got \in Nat
    BY <1>3, CapacityAssumption DEF Slots
  <2>6. Wrap(Wrap(h + p) + got) = Wrap((h + p) + got)
    BY <2>5, ModAdd
  <2>7. headIdx' = Wrap(h + (p + got)) /\ (p + got) + Used' <= Capacity
    BY <1>3, <1>5, <2>4, <2>5, <2>6, CapacityAssumption
  <2> QED BY <1>2, <2>3, <2>5, <2>7 DEF PoppedSince
<1> QED BY <1>2, <1>4, <1>5, <1>6, <1>7 DEF PushInv

LEMMA StutterPushInv ==
  ASSUME PushInv, UNCHANGED isrVars
  PROVE  PushInv'
<1>1. /\ IndexInv' /\ CountInv' /\ tailIdx' = tailIdx /\ headIdx' = headIdx
      /\ Used' = Used /\ Offered' = Offered /\ pc' = pc /\ loc' = loc
  BY ReadsKeepBuffer DEF PushInv, isrVars, main, history, Offered
<1> QED BY <1>1 DEF PushInv, PoppedSince

(* The main loop pushes, the handler pops: bytes can be lost only where a  *)
(* push takes a buffer for full by an index the handler has moved since,   *)
(* for every capacity, burst and request other than zero.                  *)
THEOREM PushLosesOnlyStale ==
  ASSUME 0 \notin PopSizes
  PROVE  PushSpec /\ []~StaleFill => []NothingLost
<1>1. IsrInit => PushInv
  BY InitCallInv DEF CallInv, PushInv, IsrInit
<1>2. PushInv /\ [PushNext]_isrVars /\ ~StaleFill => PushInv'
  BY CallPushStep, PushHeadStep, PushMaskedStep, IsrPopStep, StutterPushInv DEF PushNext
<1>3. PushInv => NothingLost
  BY CountedIsKept DEF PushInv
<1> QED BY <1>1, <1>2, <1>3, PTL DEF PushSpec

(* And there the buffer breaks: the push accepts less than the room, flags *)
(* a buffer that is not full, and the next reader takes all of the storage *)
(* for stored bytes.                                                       *)
THEOREM StaleFillLaps ==
  ASSUME PushInv, StaleFill, PushInterruptsOff
  PROVE  Lapped' /\ Used' = Capacity /\ Used + ret'.n < Capacity
<1>1. /\ pc = "pushMasked" /\ PushRefusingMasked(loc.tail, loc.head, NextBytes(loc.n))
      /\ IndexInv
  BY DEF PushInterruptsOff, PushInv
<1>2. PICK n \in Offered : \E h \in Slots : loc = PushLocals(n, tailIdx, h)
  BY <1>1 DEF PushInv
<1>3. PICK h \in Slots : loc = PushLocals(n, tailIdx, h)
  BY <1>2
<1>4. loc.n = n /\ loc.tail = tailIdx /\ loc.head = h
  BY <1>3, LocalsRead
<1>5. PICK p \in Nat : PoppedSince(h, p)
  BY <1>1, <1>4 DEF PushInv
<1>6. Len(NextBytes(n)) = n /\ n \in Nat
  BY SizeAssumption DEF Offered, NextBytes
<1>7. Free(tailIdx, h) = Capacity - (p + Used) /\ Used \in 0..Capacity
  BY <1>1, <1>5, StaleRoom, UsedMeaning DEF StaleFill
<1>8. p # 0
  <2>1. Wrap(h + 0) = h
    BY ModOnce, CapacityAssumption DEF Slots
  <2> QED BY <1>4, <1>5, <2>1 DEF StaleFill, PoppedSince
<1>9. p + Used <= Capacity /\ Used < Capacity /\ ~Full
  BY <1>1, <1>5, <1>7, <1>8, UsedMeaning, CapacityAssumption DEF PoppedSince
<1> DEFINE m == Capacity - (p + Used)
<1>10. /\ Overwrite' = TRUE /\ headIdx' = headIdx
       /\ tailIdx' = Wrap(tailIdx + m) /\ ret' = NoBytes(m)
  BY <1>1, <1>4, <1>6, <1>7, <1>9 DEF PushRefusingMasked, StaleFill
<1>11. tailIdx' = h
  <2>1. tailIdx = Wrap(headIdx + Used) /\ headIdx = Wrap(h + p)
    BY <1>1, <1>5, UsedMeaning DEF PoppedSince
  <2>2. /\ h + p \in Int /\ Used \in Int /\ h + p + Used \in Int /\ m \in Int
        /\ h + p + Used + m = h + Capacity
    BY <1>7, CapacityAssumption DEF Slots
  <2>3. tailIdx = Wrap(h + p + Used)
    BY <2>1, <2>2, ModAdd
  <2> HIDE DEF m
  <2>4. Wrap(tailIdx + m) = Wrap(h + Capacity)
    BY <2>2, <2>3, ModAdd
  <2>5. Wrap(h + Capacity) = h
    BY ModOnce, CapacityAssumption DEF Slots
  <2> QED BY <1>10, <2>4, <2>5
<1>12. Lapped'
  BY <1>4, <1>10, <1>11 DEF Lapped, StaleFill
<1>13. Used + ret'.n < Capacity
  BY <1>7, <1>8, <1>10, CapacityAssumption DEF NoBytes
<1> QED BY <1>12, <1>13 DEF Used

(* A buffer sized so that it never fills loses nothing in either pattern:  *)
(* both losses need ui32Overwrite, the flag of a full buffer.              *)
THEOREM NeverFullNeverLost ==
  ASSUME 0 \notin PopSizes
  PROVE  (PopSpec \/ PushSpec) /\ []~Overwrite => []NothingLost
<1>1. ~Overwrite => ~BlindReset
  BY DEF BlindReset
<1>2. PushInv /\ [PushNext]_isrVars /\ ~Overwrite' => PushInv'
  <2> SUFFICES ASSUME PushInv, [PushNext]_isrVars, ~Overwrite' PROVE PushInv'
    OBVIOUS
  <2>1. ASSUME PushInterruptsOff PROVE ~StaleFill
    BY <2>1, StaleFillLaps DEF Lapped
  <2> QED BY <2>1, CallPushStep, PushHeadStep, PushMaskedStep, IsrPopStep, StutterPushInv
          DEF PushNext
<1>3. IsrInit => PushInv
  BY InitCallInv DEF CallInv, PushInv, IsrInit
<1>4. PushInv => NothingLost
  BY CountedIsKept DEF PushInv
<1> QED BY <1>1, <1>2, <1>3, <1>4, PopLosesOnlyBlindly, PTL DEF PushSpec
===========================================================================
