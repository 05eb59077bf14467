------------------------ MODULE NsxRingBufferProofs ------------------------
(***************************************************************************)
(* For every capacity, every set of byte values and every request size.    *)
(***************************************************************************)
EXTENDS NsxRingBuffer, SequenceTheorems, TLAPS

(* ------------------------- remainders ---------------------------------- *)

(* A remainder by the capacity is a slot.                                  *)
LEMMA ModIsSlot ==
  ASSUME NEW a \in Int
  PROVE  Wrap(a) \in Slots
  BY CapacityAssumption DEF Slots, Wrap

(* A multiple of the capacity plus a slot has that slot as its remainder.  *)
LEMMA ModUnique ==
  ASSUME NEW q \in Int, NEW r \in Slots
  PROVE  (Capacity * q + r) % Capacity = r
  <1> DEFINE a == Capacity * q + r
             p == a \div Capacity
             s == a % Capacity
  <1>1. p \in Int /\ s \in 0..Capacity - 1 /\ a = Capacity * p + s /\ a \in Int
    BY CapacityAssumption DEF Slots
  <1>2. Capacity * (p - q) = r - s
    BY <1>1, CapacityAssumption DEF Slots
  <1>3. p - q = 0
    <2>1. CASE p - q >= 1
      BY <2>1, <1>1, <1>2, CapacityAssumption DEF Slots
    <2>2. CASE p - q <= -1
      BY <2>2, <1>1, <1>2, CapacityAssumption DEF Slots
    <2> QED
      BY <2>1, <2>2, <1>1
  <1> QED
    BY <1>1, <1>2, <1>3, CapacityAssumption DEF Slots

(* Below twice the capacity, % subtracts the capacity at most once.        *)
LEMMA ModOnce ==
  ASSUME NEW a \in Nat, a < 2 * Capacity
  PROVE  Wrap(a) = IF a < Capacity THEN a ELSE a - Capacity
  <1> DEFINE q == a \div Capacity
             r == a % Capacity
  <1>1. q \in Int /\ r \in 0..Capacity - 1 /\ a = Capacity * q + r
    BY CapacityAssumption
  <1>2. q = 0 \/ q = 1
    BY <1>1, CapacityAssumption
  <1> QED
    BY <1>1, <1>2, CapacityAssumption DEF Wrap

(* An index can be reduced before or after it is advanced.                 *)
LEMMA ModAdd ==
  ASSUME NEW a \in Int, NEW b \in Int
  PROVE  Wrap(Wrap(a) + b) = Wrap(a + b)
  <1> DEFINE q1 == a \div Capacity
             r1 == a % Capacity
             q2 == (r1 + b) \div Capacity
             r2 == (r1 + b) % Capacity
  <1>1. q1 \in Int /\ r1 \in Int /\ a = Capacity * q1 + r1
    BY CapacityAssumption
  <1>2. q2 \in Int /\ r2 \in Slots /\ r1 + b = Capacity * q2 + r2
    BY <1>1, CapacityAssumption DEF Slots
  <1>3. a + b = Capacity * (q1 + q2) + r2
    BY <1>1, <1>2, CapacityAssumption DEF Slots
  <1>4. (Capacity * (q1 + q2) + r2) % Capacity = r2
    BY <1>1, <1>2, ModUnique
  <1> QED
    BY <1>3, <1>4 DEF Wrap

(* Positions less than a capacity apart are in different slots.            *)
LEMMA ModDistinct ==
  ASSUME NEW a \in Int, NEW b \in Int, Wrap(a) = Wrap(b),
         a <= b, b < a + Capacity
  PROVE  a = b
  <1> DEFINE q1 == a \div Capacity
             q2 == b \div Capacity
             r == a % Capacity
  <1>1. q1 \in Int /\ q2 \in Int /\ r \in Int /\ a = Capacity * q1 + r /\ b = Capacity * q2 + r
    BY CapacityAssumption DEF Wrap
  <1>2. Capacity * (q2 - q1) = b - a
    BY <1>1, CapacityAssumption
  <1>3. q2 - q1 = 0
    <2>1. CASE q2 - q1 >= 1
      BY <2>1, <1>1, <1>2, CapacityAssumption
    <2>2. CASE q2 - q1 <= -1
      BY <2>2, <1>1, <1>2, CapacityAssumption
    <2> QED
      BY <2>1, <2>2, <1>1
  <1> QED
    BY <1>1, <1>2, <1>3, CapacityAssumption

(* A whole turn of the storage leads back to the same slot.                *)
LEMMA ModTurn ==
  ASSUME NEW a \in Int
  PROVE  Wrap(a + Capacity) = Wrap(a)
  <1> DEFINE q == a \div Capacity
             r == a % Capacity
  <1>1. q \in Int /\ r \in Slots /\ a = Capacity * q + r
    BY CapacityAssumption DEF Slots
  <1>2. a + Capacity = Capacity * (q + 1) + r
    BY <1>1, CapacityAssumption DEF Slots
  <1>3. (Capacity * (q + 1) + r) % Capacity = r
    BY <1>1, ModUnique
  <1> QED
    BY <1>2, <1>3 DEF Wrap

(* ------------------------- the fill level ------------------------------ *)

IndexInv == TypeOK /\ NeverLapped

(* The inductive invariant gives the fill level its meaning: it is between *)
(* zero and the capacity, the write index is that far ahead of the read    *)
(* index, and full and empty are its two extremes.                         *)
LEMMA UsedMeaning ==
  ASSUME IndexInv
  PROVE  /\ Used \in 0..Capacity
         /\ Full <=> Used = Capacity
         /\ Empty <=> Used = 0
         /\ tailIdx = Wrap(headIdx + Used)
  <1> USE CapacityAssumption DEF IndexInv, TypeOK, NeverLapped, Lapped, Full, Empty, Slots
  <1>1. CASE Full
    <2>1. Used = Capacity
      BY <1>1 DEF Used
    <2>2. Wrap(headIdx + Capacity) = headIdx
      BY ModOnce
    <2> QED
      BY <1>1, <2>1, <2>2
  <1>2. CASE ~Full
    <2>1. Used = Wrap(tailIdx + Capacity - headIdx)
      BY <1>2 DEF Used
    <2>2. Used = IF tailIdx + Capacity - headIdx < Capacity
                 THEN tailIdx + Capacity - headIdx ELSE tailIdx - headIdx
      BY <2>1, ModOnce
    <2>3. Used \in 0..Capacity - 1 /\ (Used = 0 <=> tailIdx = headIdx)
      BY <2>2
    <2>4. headIdx + Used \in Nat /\ headIdx + Used < 2 * Capacity
      BY <2>3
    <2>5. Wrap(headIdx + Used)
            = IF headIdx + Used < Capacity THEN headIdx + Used ELSE headIdx + Used - Capacity
      BY <2>3, <2>4, ModOnce
    <2>6. tailIdx = Wrap(headIdx + Used)
      BY <2>2, <2>5
    <2> QED
      BY <1>2, <2>3, <2>6
  <1> QED
    BY <1>1, <1>2

(* ui32Free is the room left, except on an empty buffer, where it is 0.    *)
LEMMA FreeIsRoom ==
  ASSUME IndexInv, ~Empty
  PROVE  Free(tailIdx, headIdx) = Capacity - Used
  <1> USE CapacityAssumption DEF IndexInv, TypeOK, NeverLapped, Lapped, Full, Empty, Slots
  <1>1. CASE Full
    <2>1. Wrap(headIdx + Capacity - tailIdx) = 0
      BY <1>1, ModOnce
    <2> QED
      BY <1>1, <2>1 DEF Free, Used
  <1>2. CASE ~Full
    <2>1. tailIdx # headIdx
      BY <1>2
    <2>2. Used = IF tailIdx < headIdx
                 THEN tailIdx + Capacity - headIdx ELSE tailIdx - headIdx
      <3>1. Used = Wrap(tailIdx + Capacity - headIdx)
        BY <1>2 DEF Used
      <3> QED
        BY <3>1, ModOnce
    <2>3. Free(tailIdx, headIdx) = IF headIdx < tailIdx
                 THEN headIdx + Capacity - tailIdx ELSE headIdx - tailIdx
      BY ModOnce DEF Free
    <2> QED
      BY <2>1, <2>2, <2>3
  <1> QED
    BY <1>1, <1>2

(* A push raises the flag exactly when its bytes do not leave room.        *)
LEMMA FillsMeaning ==
  ASSUME IndexInv, NEW n \in Nat
  PROVE  Fills(tailIdx, headIdx, n) <=> n >= Capacity - Used
  BY UsedMeaning, FreeIsRoom, CapacityAssumption DEF Fills

(* The fill level after the indices have changed, for a step that leaves   *)
(* the buffer well-formed.                                                 *)
LEMMA UsedAfter ==
  ASSUME NEW h \in Slots, NEW u \in 0..Capacity,
         headIdx' = h, tailIdx' = Wrap(h + u),
         Overwrite' <=> u = Capacity
  PROVE  Used' = u /\ NeverLapped' /\ tailIdx' \in Slots
  <1> USE CapacityAssumption DEF Slots, NeverLapped, Lapped, Full
  <1>1. Wrap(h + u) = IF h + u < Capacity THEN h + u ELSE h + u - Capacity
    BY ModOnce
  <1>2. CASE u = Capacity
    <2>1. tailIdx' = headIdx'
      BY <1>1, <1>2
    <2>2. Overwrite'
      BY <1>2
    <2> QED
      BY <1>2, <2>1, <2>2 DEF Used
  <1>3. CASE u # Capacity
    <2>1. ~Overwrite'
      BY <1>3
    <2>2. Used' = Wrap(tailIdx' + Capacity - headIdx')
      BY <2>1 DEF Used
    <2>3. tailIdx' + Capacity - headIdx' = IF h + u < Capacity THEN u + Capacity ELSE u
      BY <1>1
    <2>4. Wrap(u + Capacity) = u /\ Wrap(u) = u
      BY <1>3, ModOnce
    <2> QED
      BY <1>1, <2>1, <2>2, <2>3, <2>4
  <1> QED
    BY <1>2, <1>3

(* ------------------- the indices stay well-formed ---------------------- *)

(* What a copy leaves in the storage is bytes.                             *)
LEMMA WrittenType ==
  ASSUME Data \in [Slots -> Byte], NEW t \in Slots, NEW src \in Seq(Byte)
  PROVE  Written(t, src) \in [Slots -> Byte]
  <1>1. ASSUME NEW i \in Slots PROVE Written(t, src)[i] \in Byte
    <2> DEFINE after == Wrap(t + Len(src) + Capacity - 1 - i)
    <2>1. after \in Nat
      <3>1. /\ t + Len(src) + Capacity - 1 - i \in Int
            /\ Slots \subseteq Nat
        BY CapacityAssumption DEF Slots
      <3> QED
        BY <3>1, ModIsSlot
    <2>2. after < Len(src) => Len(src) - after \in 1..Len(src)
      BY <2>1
    <2> HIDE DEF after
    <2>3. after < Len(src) => src[Len(src) - after] \in Byte
      BY <2>2, ElementOfSeq
    <2> QED
      BY <2>3 DEF Written, after
  <1> QED
    BY <1>1 DEF Written

(* Every source of a push is a sequence of bytes.                          *)
LEMMA SourcesAreSeqs ==
  ASSUME NEW src \in Sources
  PROVE  src \in Seq(Byte)
  BY SizeAssumption, SeqDef DEF Sources

(* On a well-formed buffer the flag is the statement that it is full.      *)
LEMMA FlagMeaning ==
  ASSUME IndexInv
  PROVE  Overwrite <=> Used = Capacity
  BY UsedMeaning DEF IndexInv, NeverLapped, Lapped, Full


(* Two reduced positions have the difference of the positions.             *)
LEMMA ModSub ==
  ASSUME NEW a \in Int, NEW b \in Int, NEW c \in Int
  PROVE  Wrap(Wrap(a) + c - Wrap(b)) = Wrap(a + c - b)
  <1> DEFINE q == b \div Capacity
             r == b % Capacity
  <1>1. q \in Int /\ r \in Int /\ b = Capacity * q + r /\ r = Wrap(b)
    BY CapacityAssumption DEF Wrap
  <1>2. Wrap(Wrap(a) + (c - r)) = Wrap(a + (c - r))
    <2>1. c - r \in Int
      BY <1>1
    <2> HIDE DEF q, r
    <2> QED
      BY <2>1, ModAdd
  <1>3. Wrap(a + c - r) = Wrap(a + c - b)
    <2> DEFINE x == a + c - b
               s == x % Capacity
               d == x \div Capacity
    <2>1. d \in Int /\ s \in Slots /\ x = Capacity * d + s /\ x \in Int
      BY CapacityAssumption DEF Slots
    <2>2. a + c - r = Capacity * (d + q) + s
      BY <1>1, <2>1, CapacityAssumption DEF Slots
    <2>3. (Capacity * (d + q) + s) % Capacity = s
      BY <1>1, <2>1, ModUnique
    <2> QED
      BY <2>2, <2>3 DEF Wrap
  <1>4. Wrap(a) \in Int
    BY ModIsSlot, CapacityAssumption DEF Slots
  <1>5. Wrap(a) + c - Wrap(b) = Wrap(a) + (c - r) /\ a + (c - r) = a + c - r
    BY <1>1, <1>4
  <1> QED
    BY <1>2, <1>3, <1>5

(* What a copy that starts at position t leaves in the last Capacity       *)
(* positions up to its end: its own bytes from t on, the old ones before.  *)
LEMMA WrittenSlot ==
  ASSUME NEW t \in Nat, NEW src \in Seq(Byte), NEW m \in Nat,
         t + Len(src) - Capacity <= m, m < t + Len(src)
  PROVE  Written(Wrap(t), src)[Wrap(m)] = IF m < t THEN Data[Wrap(m)] ELSE src[m - t + 1]
  <1> DEFINE after == Wrap(Wrap(t) + Len(src) + Capacity - 1 - Wrap(m))
  <1>1. Len(src) \in Nat /\ Wrap(m) \in Slots /\ Wrap(t) \in Slots
    BY ModIsSlot, LenProperties
  <1>2. after = Wrap(t + (Len(src) + Capacity - 1) - m)
    <2> DEFINE c == Len(src) + Capacity - 1
    <2>1. after = Wrap(Wrap(t) + c - Wrap(m))
      <3>1. Wrap(t) + Len(src) + Capacity - 1 - Wrap(m) = Wrap(t) + c - Wrap(m)
        BY <1>1, CapacityAssumption DEF Slots
      <3> QED
        BY <3>1
    <2>2. c \in Int
      BY <1>1, CapacityAssumption
    <2> HIDE DEF c, after
    <2>3. Wrap(Wrap(t) + c - Wrap(m)) = Wrap(t + c - m)
      BY <2>2, ModSub
    <2> QED
      BY <2>1, <2>3 DEF c
  <1>3. after = t + Len(src) - 1 - m
    <2> DEFINE d == t + Len(src) - 1 - m
    <2>1. d \in 0..Capacity - 1
      BY <1>1, CapacityAssumption
    <2>2. t + (Len(src) + Capacity - 1) - m = d + Capacity
      BY <1>1, CapacityAssumption
    <2> HIDE DEF d, after
    <2>3. d \in Nat /\ d < 2 * Capacity /\ d < Capacity
      BY <2>1, CapacityAssumption
    <2>4. Wrap(d + Capacity) = Wrap(d)
      BY <2>3, ModTurn
    <2>5. Wrap(d) = d
      BY <2>3, ModOnce
    <2> QED
      BY <1>2, <2>2, <2>4, <2>5 DEF d
  <1> HIDE DEF after
  <1>4. Written(Wrap(t), src)[Wrap(m)]
          = IF after < Len(src) THEN src[Len(src) - after] ELSE Data[Wrap(m)]
    BY <1>1 DEF Written, after
  <1>5. (after < Len(src) <=> ~(m < t)) /\ Len(src) - after = m - t + 1
    BY <1>1, <1>3
  <1> QED
    BY <1>4, <1>5

(* ------------------------- one call each ------------------------------- *)

(* A refusing push stores the part of src that fits behind the bytes that  *)
(* are already there.                                                      *)
LEMMA PushRefusingStep ==
  ASSUME IndexInv, NEW src \in Seq(Byte), PushRefusingMasked(tailIdx, headIdx, src),
         NEW n, n = AtMost(Len(src), Capacity - Used)
  PROVE  /\ IndexInv'
         /\ headIdx' = headIdx /\ Used' = Used + n
         /\ ret' = NoBytes(n)
         /\ \A k \in 1..Used + n :
              Data'[Wrap(headIdx + k - 1)]
                = IF k <= Used THEN Data[Wrap(headIdx + k - 1)] ELSE src[k - Used]
  <1>1. /\ Used \in 0..Capacity /\ Len(src) \in Nat /\ n \in Nat
        /\ n <= Len(src) /\ n <= Capacity - Used /\ headIdx \in Slots
        /\ tailIdx = Wrap(headIdx + Used)
        /\ Fills(tailIdx, headIdx, Len(src)) <=> Len(src) >= Capacity - Used
    <2>1. Used \in 0..Capacity /\ tailIdx = Wrap(headIdx + Used)
      BY UsedMeaning
    <2>2. Len(src) \in Nat /\ headIdx \in Slots
      BY LenProperties DEF IndexInv, TypeOK
    <2>3. n \in Nat /\ n <= Len(src) /\ n <= Capacity - Used
      BY <2>1, <2>2, CapacityAssumption DEF AtMost
    <2>4. Fills(tailIdx, headIdx, Len(src)) <=> Len(src) >= Capacity - Used
      BY <2>2, FillsMeaning
    <2> QED
      BY <2>1, <2>2, <2>3, <2>4
  <1>2. CASE Full
    <2>1. Used = Capacity /\ n = 0
      BY <1>1, <1>2, UsedMeaning
    <2>2. UNCHANGED fields /\ ret' = NoBytes(0)
      BY <1>2 DEF PushRefusingMasked
    <2>3. Used' = Used /\ IndexInv' /\ headIdx' = headIdx /\ Data' = Data
      BY <2>2 DEF fields, Used, Full, Lapped, IndexInv, TypeOK, NeverLapped, NoBytes
    <2> QED
      BY <1>1, <2>1, <2>2, <2>3
  <1>3. CASE ~Full
    <2> DEFINE part == SubSeq(src, 1, n)
    <2>1. (IF Empty THEN Capacity ELSE Free(tailIdx, headIdx)) = Capacity - Used
      BY UsedMeaning, FreeIsRoom, CapacityAssumption
    <2>2. (IF Fills(tailIdx, headIdx, Len(src)) THEN Capacity - Used ELSE Len(src)) = n
      BY <1>1, CapacityAssumption DEF AtMost
    <2>3. /\ Overwrite' = (Overwrite \/ Fills(tailIdx, headIdx, Len(src)))
          /\ Data' = Written(tailIdx, part)
          /\ tailIdx' = Wrap(tailIdx + n)
          /\ ret' = NoBytes(n)
          /\ headIdx' = headIdx
      BY <1>3, <2>1, <2>2 DEF PushRefusingMasked
    <2>4. part \in Seq(Byte) /\ Len(part) = n /\ \A j \in 1..n : part[j] = src[j]
      BY <1>1, SubSeqProperties, ElementOfSeq
    <2>5. Overwrite' <=> Used + n = Capacity
      <3>1. Fills(tailIdx, headIdx, Len(src)) <=> Used + n = Capacity
        BY <1>1, CapacityAssumption DEF AtMost
      <3>2. Overwrite => Full
        BY <1>3 DEF IndexInv, NeverLapped, Lapped, Full
      <3> QED
        BY <1>3, <2>3, <3>1, <3>2
    <2>6. tailIdx' = Wrap(headIdx + (Used + n))
      <3>1. Wrap(Wrap(headIdx + Used) + n) = Wrap(headIdx + Used + n)
        BY <1>1, ModAdd DEF Slots
      <3> QED
        BY <1>1, <2>3, <3>1 DEF Slots
    <2>7. Used' = Used + n /\ NeverLapped' /\ tailIdx' \in Slots
      <3>1. Used + n \in 0..Capacity
        BY <1>1, CapacityAssumption
      <3> QED
        BY <1>1, <2>3, <2>5, <2>6, <3>1, UsedAfter
    <2>8. Data' \in [Slots -> Byte]
      BY <2>3, <2>4, WrittenType DEF IndexInv, TypeOK
    <2>9. IndexInv'
      <3>1. Overwrite' \in BOOLEAN
        BY <2>3
      <3>2. ret'.n \in Nat
        BY <1>1, <2>3 DEF NoBytes
      <3> QED
        BY <1>1, <2>3, <2>7, <2>8, <3>1, <3>2 DEF IndexInv, TypeOK
    <2>10. ASSUME NEW k \in 1..Used + n
           PROVE  Data'[Wrap(headIdx + k - 1)]
                    = IF k <= Used THEN Data[Wrap(headIdx + k - 1)] ELSE src[k - Used]
      <3> DEFINE m == headIdx + k - 1
                 t == headIdx + Used
      <3>1. m \in Nat /\ t \in Nat /\ t + n - Capacity <= m /\ m < t + n
        BY <1>1, CapacityAssumption DEF Slots
      <3>2. Written(Wrap(t), part)[Wrap(m)] = IF m < t THEN Data[Wrap(m)] ELSE part[m - t + 1]
        <4> HIDE DEF m, t, part
        <4> QED
          BY <2>4, <3>1, WrittenSlot
      <3>3. (m < t <=> k <= Used) /\ m - t + 1 = k - Used
        BY <1>1 DEF Slots
      <3>4. k > Used => k - Used \in 1..n
        BY <1>1
      <3> HIDE DEF m, t, part
      <3>5. Data'[Wrap(m)] = IF k <= Used THEN Data[Wrap(m)] ELSE src[k - Used]
        BY <1>1, <2>3, <2>4, <3>2, <3>3, <3>4 DEF t
      <3> QED
        BY <3>5 DEF m
    <2> QED
      BY <2>3, <2>7, <2>9, <2>10
  <1> QED
    BY <1>2, <1>3

(* How many bytes an overwriting push leaves, and how many it drops.       *)
LEMMA OverwritingSplit ==
  ASSUME IndexInv, NEW src \in Seq(Byte)
  PROVE  \E u \in Nat, dropped \in Nat :
           /\ u <= Capacity /\ u <= Used + Len(src)
           /\ u = Capacity \/ u = Used + Len(src)
           /\ dropped + u = Used + Len(src)
  <1>1. Len(src) \in Nat /\ Used \in Nat /\ Capacity \in Nat
    BY UsedMeaning, LenProperties, CapacityAssumption
  <1>2. CASE Used + Len(src) <= Capacity
    <2> Used + Len(src) \in Nat
      BY <1>1
    <2> WITNESS Used + Len(src) \in Nat, 0 \in Nat
    <2> QED
      BY <1>1, <1>2
  <1>3. CASE Used + Len(src) > Capacity
    <2> Capacity \in Nat /\ Used + Len(src) - Capacity \in Nat
      BY <1>1, <1>3
    <2> WITNESS Capacity \in Nat, Used + Len(src) - Capacity \in Nat
    <2> QED
      BY <1>1, <1>3
  <1> QED
    BY <1>1, <1>2, <1>3

(* An overwriting push stores all of src and drops the oldest bytes.       *)
LEMMA PushOverwritingStep ==
  ASSUME IndexInv, NEW src \in Seq(Byte), PushOverwritingMasked(tailIdx, headIdx, src),
         NEW u \in Nat, u <= Capacity, u <= Used + Len(src),
         u = Capacity \/ u = Used + Len(src),
         NEW dropped \in Nat, dropped + u = Used + Len(src)
  PROVE  /\ IndexInv'
         /\ Used' = u
         /\ ret' = NoBytes(Len(src))
         /\ \A k \in 1..u :
              Data'[Wrap(headIdx' + k - 1)]
                = IF dropped + k <= Used
                  THEN Data[Wrap(headIdx + (dropped + k) - 1)]
                  ELSE src[(dropped + k) - Used]
  <1> DEFINE n == Len(src)
  <1>1. /\ Used \in 0..Capacity /\ n \in Nat /\ u \in 0..Capacity
        /\ dropped \in Nat /\ dropped + u = Used + n /\ headIdx \in Slots
        /\ tailIdx = Wrap(headIdx + Used) /\ tailIdx \in Slots
        /\ Fills(tailIdx, headIdx, n) <=> n >= Capacity - Used
        /\ Overwrite <=> Used = Capacity
    <2>1. Used \in 0..Capacity /\ tailIdx = Wrap(headIdx + Used)
      BY UsedMeaning
    <2>2. n \in Nat /\ headIdx \in Slots /\ tailIdx \in Slots
      BY LenProperties DEF IndexInv, TypeOK
    <2>3. u \in 0..Capacity
      BY CapacityAssumption
    <2>4. Fills(tailIdx, headIdx, n) <=> n >= Capacity - Used
      BY <2>2, FillsMeaning
    <2> QED
      BY <2>1, <2>2, <2>3, <2>4, FlagMeaning
  <1>2. /\ Overwrite' = (Overwrite \/ Fills(tailIdx, headIdx, n))
        /\ Data' = Written(tailIdx, src)
        /\ tailIdx' = Wrap(tailIdx + n)
        /\ headIdx' = IF Overwrite' THEN tailIdx' ELSE headIdx
        /\ ret' = NoBytes(n)
    BY DEF PushOverwritingMasked
  <1>3. Overwrite' <=> u = Capacity
    <2>1. Fills(tailIdx, headIdx, n) <=> u = Capacity
      BY <1>1, CapacityAssumption
    <2>2. Used = Capacity => u = Capacity
      BY <1>1, CapacityAssumption
    <2> QED
      BY <1>1, <1>2, <2>1, <2>2
  <1>4. tailIdx' = Wrap(headIdx + Used + n)
    BY <1>1, <1>2, ModAdd DEF Slots
  <1>5. headIdx' = Wrap(headIdx + dropped)
    <2>1. CASE u = Capacity
      <3> DEFINE a == headIdx + dropped
      <3>1. headIdx + Used + n = a + Capacity /\ a \in Int
        BY <1>1, <2>1, CapacityAssumption DEF Slots
      <3> HIDE DEF a
      <3>2. Wrap(a + Capacity) = Wrap(a)
        BY <3>1, ModTurn
      <3> QED
        BY <1>2, <1>3, <1>4, <2>1, <3>1, <3>2 DEF a
    <2>2. CASE u # Capacity
      <3>1. dropped = 0
        BY <1>1, <2>2, CapacityAssumption
      <3>2. Wrap(headIdx) = headIdx
        BY <1>1, ModOnce, CapacityAssumption DEF Slots
      <3>3. headIdx' = headIdx
        BY <1>2, <1>3, <2>2
      <3>4. headIdx + 0 = headIdx
        BY <1>1 DEF Slots
      <3> QED
        BY <3>1, <3>2, <3>3, <3>4
    <2> QED
      BY <2>1, <2>2
  <1>6. headIdx' \in Slots /\ tailIdx' = Wrap(headIdx' + u)
    <2> DEFINE a == headIdx + dropped
    <2>1. a \in Int /\ a + u = headIdx + Used + n
      BY <1>1 DEF Slots
    <2> HIDE DEF a
    <2>2. headIdx' \in Slots
      BY <1>5, <2>1, ModIsSlot DEF a
    <2>3. Wrap(Wrap(a) + u) = Wrap(a + u)
      BY <1>1, <2>1, ModAdd
    <2> QED
      BY <1>4, <1>5, <2>1, <2>2, <2>3 DEF a
  <1>7. Used' = u /\ NeverLapped' /\ tailIdx' \in Slots
    BY <1>1, <1>3, <1>6, UsedAfter
  <1>8. IndexInv'
    <2>1. Data' \in [Slots -> Byte]
      BY <1>1, <1>2, WrittenType DEF IndexInv, TypeOK
    <2>2. Overwrite' \in BOOLEAN
      BY <1>2
    <2>3. ret'.n \in Nat
      BY <1>1, <1>2 DEF NoBytes
    <2> QED
      BY <1>6, <1>7, <2>1, <2>2, <2>3 DEF IndexInv, TypeOK
  <1>9. ASSUME NEW k \in 1..u
        PROVE  Data'[Wrap(headIdx' + k - 1)]
                 = IF dropped + k <= Used
                   THEN Data[Wrap(headIdx + (dropped + k) - 1)]
                   ELSE src[(dropped + k) - Used]
    <2> DEFINE m == headIdx + (dropped + k) - 1
               t == headIdx + Used
    <2>1. /\ m \in Nat /\ t \in Nat /\ t + n - Capacity <= m /\ m < t + n
          /\ m < t <=> dropped + k <= Used
          /\ m - t + 1 = (dropped + k) - Used
      <3>1. k \in Nat /\ 1 <= k /\ k <= u
        BY <1>1, CapacityAssumption
      <3>2. headIdx \in Nat /\ Used \in Nat /\ n \in Nat /\ u \in Nat /\ u <= Capacity
        BY <1>1, CapacityAssumption DEF Slots
      <3>3. dropped \in Nat /\ dropped + u = Used + n
        BY <1>1
      <3>4. m \in Nat /\ t \in Nat /\ (m < t <=> dropped + k <= Used)
        BY <3>1, <3>2, <3>3
      <3>5. m - t + 1 = (dropped + k) - Used
        BY <3>1, <3>2, <3>3
      <3>6. t + n - Capacity <= m /\ m < t + n
        BY <3>1, <3>2, <3>3, CapacityAssumption
      <3> QED
        BY <3>4, <3>5, <3>6
    <2>2. Wrap(headIdx' + k - 1) = Wrap(m)
      <3> DEFINE a == headIdx + dropped
                 b == k - 1
      <3>1. a \in Int /\ b \in Int /\ m = a + b
        BY <1>1, CapacityAssumption DEF Slots
      <3>2. headIdx' + k - 1 = headIdx' + b
        BY <1>1, <1>6, CapacityAssumption DEF Slots
      <3> HIDE DEF a, b, m
      <3>3. Wrap(Wrap(a) + b) = Wrap(a + b)
        BY <3>1, ModAdd
      <3> QED
        BY <1>5, <3>1, <3>2, <3>3 DEF a
    <2> HIDE DEF m, t
    <2>3. Written(Wrap(t), src)[Wrap(m)] = IF m < t THEN Data[Wrap(m)] ELSE src[m - t + 1]
      BY <2>1, WrittenSlot
    <2>4. Data'[Wrap(m)]
            = IF dropped + k <= Used THEN Data[Wrap(m)] ELSE src[(dropped + k) - Used]
      BY <1>1, <1>2, <2>1, <2>3 DEF t
    <2> QED
      BY <2>2, <2>4 DEF m
  <1> QED
    BY <1>2, <1>7, <1>8, <1>9

(* A pop of at least one byte removes the oldest bytes and leaves room.    *)
LEMMA PopStep ==
  ASSUME IndexInv, NEW n \in Nat \ {0}, NEW asFrame, PopMasked(Used, headIdx, n, asFrame),
         NEW got, got = AtMost(n, Used)
  PROVE  /\ IndexInv'
         /\ Used' = Used - got
         /\ ret' = [n |-> IF asFrame THEN 1 ELSE got, bytes |-> Stored(headIdx, got)]
         /\ \A k \in 1..Used - got :
              Data'[Wrap(headIdx' + k - 1)] = Data[Wrap(headIdx + (got + k) - 1)]
  <1>1. /\ Used \in 0..Capacity /\ got \in Nat /\ got <= Used
        /\ Used - got # Capacity
        /\ headIdx \in Slots /\ tailIdx = Wrap(headIdx + Used)
    <2>1. Used \in 0..Capacity /\ tailIdx = Wrap(headIdx + Used)
      BY UsedMeaning
    <2>2. got \in Nat /\ got <= Used /\ Used - got # Capacity
      BY <2>1, CapacityAssumption DEF AtMost
    <2> QED
      BY <2>1, <2>2 DEF IndexInv, TypeOK
  <1>2. /\ headIdx' = Wrap(headIdx + got)
        /\ Overwrite' = FALSE
        /\ ret' = [n |-> IF asFrame THEN 1 ELSE got, bytes |-> Stored(headIdx, got)]
        /\ UNCHANGED <<tailIdx, Data>>
    BY DEF PopMasked, IndexInv, NeverLapped
  <1>3. headIdx' \in Slots
    BY <1>1, <1>2, ModIsSlot DEF Slots
  <1>4. tailIdx' = Wrap(headIdx' + (Used - got))
    <2> DEFINE a == headIdx + got
               b == Used - got
    <2>1. a \in Int /\ b \in Int /\ a + b = headIdx + Used
      BY <1>1 DEF Slots
    <2> HIDE DEF a, b
    <2>2. Wrap(Wrap(a) + b) = Wrap(a + b)
      BY <2>1, ModAdd
    <2>3. headIdx' = Wrap(a)
      BY <1>2 DEF a
    <2>4. tailIdx' = Wrap(headIdx' + b)
      BY <1>1, <1>2, <2>1, <2>2, <2>3
    <2> QED
      BY <2>4 DEF b
  <1>5. Used' = Used - got /\ NeverLapped' /\ tailIdx' \in Slots
    <2>1. Used - got \in 0..Capacity
      BY <1>1, CapacityAssumption
    <2>2. Overwrite' <=> Used - got = Capacity
      BY <1>1, <1>2
    <2> QED
      BY <1>3, <1>4, <2>1, <2>2, UsedAfter
  <1>6. IndexInv'
    <2>1. ret'.n \in Nat
      BY <1>1, <1>2
    <2> QED
      BY <1>2, <1>3, <1>5, <2>1 DEF IndexInv, TypeOK
  <1>7. ASSUME NEW k \in 1..Used - got
        PROVE  Wrap(headIdx' + k - 1) = Wrap(headIdx + (got + k) - 1)
    <2> DEFINE a == headIdx + got
               b == k - 1
    <2>1. a \in Int /\ b \in Int /\ headIdx + (got + k) - 1 = a + b
      BY <1>1 DEF Slots
    <2>2. headIdx' + k - 1 = headIdx' + b
      BY <1>3 DEF Slots
    <2> HIDE DEF a, b
    <2>3. Wrap(Wrap(a) + b) = Wrap(a + b)
      BY <2>1, ModAdd
    <2> QED
      BY <1>2, <2>1, <2>2, <2>3 DEF a
  <1> QED
    BY <1>2, <1>5, <1>6, <1>7

(* flush, and a second init, leave an empty buffer.                        *)
LEMMA ClearStep ==
  ASSUME IndexInv, Flush \/ Reinit
  PROVE  IndexInv' /\ Used' = 0 /\ ret' = NoBytes(0)
  <1>1. headIdx' = tailIdx' /\ headIdx' \in Slots /\ ~Overwrite' /\ Data' = Data
    BY CapacityAssumption DEF Flush, Reinit, IndexInv, TypeOK, Slots
  <1>2. ret' = NoBytes(0) /\ Overwrite' \in BOOLEAN
    BY DEF Flush, Reinit
  <1>3. Wrap(headIdx' + 0) = headIdx'
    BY <1>1, ModOnce, CapacityAssumption DEF Slots
  <1>4. Used' = 0 /\ NeverLapped' /\ tailIdx' \in Slots
    BY <1>1, <1>3, CapacityAssumption, UsedAfter
  <1> QED
    BY <1>1, <1>2, <1>4 DEF IndexInv, TypeOK, NoBytes

(* ------------------------- the invariant ------------------------------- *)

LEMMA InitIndexInv == Init => IndexInv
  <1> SUFFICES ASSUME Init PROVE IndexInv
    OBVIOUS
  <1>1. headIdx \in Slots /\ tailIdx \in Slots /\ ret.n \in Nat
    BY CapacityAssumption DEF Init, Slots, NoBytes
  <1>2. Overwrite \in BOOLEAN /\ NeverLapped
    BY DEF Init, NeverLapped, Lapped
  <1>3. Data \in [Slots -> Byte]
    BY DEF Init
  <1> QED
    BY <1>1, <1>2, <1>3 DEF IndexInv, TypeOK

(* A pop clears the flag, whatever its size, and so leaves no lap behind.  *)
LEMMA PopKeepsIndexInv ==
  ASSUME IndexInv, NEW n \in Nat, NEW asFrame, PopMasked(Used, headIdx, n, asFrame)
  PROVE  IndexInv'
  <1>1. Used \in 0..Capacity
    BY UsedMeaning
  <1> DEFINE got == AtMost(n, Used)
  <1>2. got \in Nat
    BY <1>1 DEF AtMost
  <1> HIDE DEF got
  <1>3. headIdx + got \in Int
    BY <1>2, CapacityAssumption DEF IndexInv, TypeOK, Slots
  <1>4. /\ headIdx' = Wrap(headIdx + got)
        /\ ~Overwrite' /\ Overwrite' \in BOOLEAN
        /\ ret' = [n |-> IF asFrame THEN 1 ELSE got, bytes |-> Stored(headIdx, got)]
        /\ UNCHANGED <<tailIdx, Data>>
    BY DEF PopMasked, got, IndexInv, NeverLapped
  <1>5. headIdx' \in Slots
    BY <1>3, <1>4, ModIsSlot
  <1>6. ret'.n \in Nat
    BY <1>2, <1>4
  <1> QED
    BY <1>4, <1>5, <1>6 DEF IndexInv, TypeOK, NeverLapped, Lapped

LEMMA NextIndexInv == IndexInv /\ [Next]_vars => IndexInv'
  <1> SUFFICES ASSUME IndexInv, [Next]_vars PROVE IndexInv'
    OBVIOUS
  <1>1. ASSUME NEW src \in Sources, Push(src, TRUE) PROVE IndexInv'
    <2> DEFINE n == AtMost(Len(src), Capacity - Used)
    <2>1. src \in Seq(Byte) /\ PushRefusingMasked(tailIdx, headIdx, src)
      BY <1>1, SourcesAreSeqs DEF Push
    <2> QED
      BY <2>1, PushRefusingStep
  <1>2. ASSUME NEW src \in Sources, Push(src, FALSE) PROVE IndexInv'
    <2>1. src \in Seq(Byte) /\ PushOverwritingMasked(tailIdx, headIdx, src)
      BY <1>2, SourcesAreSeqs DEF Push
    <2>2. \E u \in Nat, dropped \in Nat :
            /\ u <= Capacity /\ u <= Used + Len(src)
            /\ u = Capacity \/ u = Used + Len(src)
            /\ dropped + u = Used + Len(src)
      BY <2>1, OverwritingSplit
    <2> QED
      BY <2>1, <2>2, PushOverwritingStep
  <1>3. ASSUME NEW n \in PopSizes, Pop(n) PROVE IndexInv'
    BY <1>3, SizeAssumption, PopKeepsIndexInv DEF Pop
  <1>4. ASSUME NEW n \in PopSizes, Drain(n) PROVE IndexInv'
    <2>1. CASE PopMasked(Used, headIdx, n, TRUE)
      BY <2>1, SizeAssumption, PopKeepsIndexInv
    <2>2. CASE ret' = NoBytes(0) /\ UNCHANGED fields
      BY <2>2 DEF fields, IndexInv, TypeOK, NeverLapped, Lapped, NoBytes
    <2> QED
      BY <1>4, <2>1, <2>2 DEF Drain
  <1>5. CASE Flush \/ Reinit
    BY <1>5, ClearStep
  <1>6. CASE UNCHANGED vars
    BY <1>6 DEF vars, IndexInv, TypeOK, NeverLapped, Lapped
  <1> QED
    BY <1>1, <1>2, <1>3, <1>4, <1>5, <1>6 DEF Next

LEMMA AlwaysIndexInv == Spec => []IndexInv
  BY InitIndexInv, NextIndexInv, PTL DEF Spec

(* Type correctness.                                                       *)
THEOREM TypeCorrect == Spec => []TypeOK
  <1>1. IndexInv => TypeOK
    BY DEF IndexInv
  <1> QED
    BY <1>1, AlwaysIndexInv, PTL

(* The "overwrite occurred" branches of pop and used are dead code as long *)
(* as every call comes from one context, for every capacity and request.   *)
THEOREM OverwriteBranchDead == Spec => []NeverLapped
  <1>1. IndexInv => NeverLapped
    BY DEF IndexInv
  <1> QED
    BY <1>1, AlwaysIndexInv, PTL

(* ------------------------- the refinement ------------------------------ *)

StoredBytes ==
  /\ Contents \in Seq(Byte)
  /\ Len(Contents) = Used
  /\ \A k \in 1..Used : Contents[k] = Data[Wrap(headIdx + k - 1)]

(* The stored bytes, as a sequence.                                        *)
LEMMA ContentsMeaning == IndexInv => StoredBytes
  <1> SUFFICES ASSUME IndexInv PROVE StoredBytes
    OBVIOUS
  <1>1. Used \in Nat /\ headIdx \in Int /\ Data \in [Slots -> Byte]
    BY UsedMeaning, CapacityAssumption DEF IndexInv, TypeOK, Slots
  <1>2. ASSUME NEW k \in 1..Used PROVE Data[Wrap(headIdx + k - 1)] \in Byte
    <2>1. headIdx + k - 1 \in Int
      BY <1>1
    <2> QED
      BY <1>1, <2>1, ModIsSlot
  <1>3. Contents = [k \in 1..Used |-> Data[Wrap(headIdx + k - 1)]]
    BY DEF Contents, Stored
  <1>4. Contents \in [1..Used -> Byte]
    BY <1>2, <1>3
  <1>5. Contents \in Seq(Byte)
    BY <1>1, <1>4, SeqDef
  <1> QED
    BY <1>1, <1>3, <1>5 DEF StoredBytes

LEMMA ContentsMeaningAfter == IndexInv' => StoredBytes'
  BY ContentsMeaning, PTL

(* A refusing push appends what fits.                                      *)
LEMMA RefusingRefines ==
  ASSUME IndexInv, NEW src \in Sources, Push(src, TRUE)
  PROVE  Fifo!PushRefusing(src)
  <1> DEFINE n == AtMost(Len(src), Capacity - Used)
             part == SubSeq(src, 1, n)
  <1>1. src \in Seq(Byte) /\ PushRefusingMasked(tailIdx, headIdx, src)
    BY SourcesAreSeqs DEF Push
  <1>2. /\ Contents \in Seq(Byte) /\ Len(Contents) = Used
        /\ \A k \in 1..Used : Contents[k] = Data[Wrap(headIdx + k - 1)]
        /\ Used \in 0..Capacity /\ Len(src) \in Nat
    BY <1>1, ContentsMeaning, UsedMeaning, LenProperties DEF StoredBytes
  <1>3. n \in Nat /\ n <= Len(src)
    BY <1>2, CapacityAssumption DEF AtMost
  <1>4. /\ part \in Seq(Byte) /\ Len(part) = n
        /\ \A j \in 1..n : part[j] = src[j]
    <2> HIDE DEF n
    <2> QED
      BY <1>1, <1>3, SubSeqProperties, ElementOfSeq
  <1>5. /\ IndexInv' /\ headIdx' = headIdx /\ Used' = Used + n /\ ret' = NoBytes(n)
        /\ \A k \in 1..Used + n :
             Data'[Wrap(headIdx + k - 1)]
               = IF k <= Used THEN Data[Wrap(headIdx + k - 1)] ELSE src[k - Used]
    BY <1>1, PushRefusingStep
  <1> HIDE DEF n, part
  <1>6. /\ Contents' \in Seq(Byte) /\ Len(Contents') = Used + n
        /\ \A k \in 1..Used + n : Contents'[k] = Data'[Wrap(headIdx + k - 1)]
    <2>1. /\ Contents' \in Seq(Byte) /\ Len(Contents') = Used'
          /\ \A k \in 1..Used' : Contents'[k] = Data'[Wrap(headIdx' + k - 1)]
      BY <1>5, ContentsMeaningAfter DEF StoredBytes
    <2> QED
      BY <1>5, <2>1
  <1>7. /\ Contents \o part \in Seq(Byte)
        /\ Len(Contents \o part) = Used + n
        /\ \A k \in 1..Used + n :
             (Contents \o part)[k] = IF k <= Used THEN Contents[k] ELSE part[k - Used]
    BY <1>2, <1>4, ConcatProperties
  <1>8. ASSUME NEW k \in 1..Used + n PROVE Contents'[k] = (Contents \o part)[k]
    <2>1. Contents'[k] = IF k <= Used THEN Data[Wrap(headIdx + k - 1)] ELSE src[k - Used]
      BY <1>5, <1>6
    <2>2. (Contents \o part)[k] = IF k <= Used THEN Contents[k] ELSE part[k - Used]
      BY <1>7
    <2>3. ~(k <= Used) => part[k - Used] = src[k - Used]
      <3>1. ~(k <= Used) => k - Used \in 1..n
        BY <1>2, <1>3
      <3> QED
        BY <1>4, <3>1
    <2>4. k <= Used => Contents[k] = Data[Wrap(headIdx + k - 1)]
      <3>1. k <= Used => k \in 1..Used
        BY <1>2, <1>3
      <3> QED
        BY <1>2, <3>1
    <2> QED
      BY <2>1, <2>2, <2>3, <2>4
  <1>9. Contents' = Contents \o part
    BY <1>6, <1>7, <1>8, SeqEqual
  <1> QED
    BY <1>2, <1>5, <1>9 DEF Fifo!PushRefusing, Fifo!AtMost, Fifo!NoBytes, n, part, AtMost, NoBytes

(* An overwriting push appends src and drops from the front.               *)
LEMMA OverwritingRefines ==
  ASSUME IndexInv, NEW src \in Sources, Push(src, FALSE)
  PROVE  Fifo!PushOverwriting(src)
  <1>1. src \in Seq(Byte) /\ PushOverwritingMasked(tailIdx, headIdx, src)
    BY SourcesAreSeqs DEF Push
  <1>2. /\ Contents \in Seq(Byte) /\ Len(Contents) = Used
        /\ \A k \in 1..Used : Contents[k] = Data[Wrap(headIdx + k - 1)]
        /\ Used \in 0..Capacity /\ Len(src) \in Nat
    BY <1>1, ContentsMeaning, UsedMeaning, LenProperties DEF StoredBytes
  <1>3. PICK u \in Nat, dropped \in Nat :
          /\ u <= Capacity /\ u <= Used + Len(src)
          /\ u = Capacity \/ u = Used + Len(src)
          /\ dropped + u = Used + Len(src)
    BY <1>1, OverwritingSplit
  <1>4. /\ IndexInv' /\ Used' = u /\ ret' = NoBytes(Len(src))
        /\ \A k \in 1..u :
             Data'[Wrap(headIdx' + k - 1)]
               = IF dropped + k <= Used
                 THEN Data[Wrap(headIdx + (dropped + k) - 1)]
                 ELSE src[(dropped + k) - Used]
    BY <1>1, <1>3, PushOverwritingStep
  <1> DEFINE all == Contents \o src
             kept == SubSeq(all, dropped + 1, Len(all))
  <1>5. /\ all \in Seq(Byte) /\ Len(all) = Used + Len(src)
        /\ \A i \in 1..Used + Len(src) :
             all[i] = IF i <= Used THEN Contents[i] ELSE src[i - Used]
    BY <1>1, <1>2, ConcatProperties
  <1> HIDE DEF all
  <1>6. /\ kept \in Seq(Byte) /\ Len(kept) = u
        /\ \A k \in 1..u : kept[k] = all[dropped + k]
    <2>1. \A i \in dropped + 1..Len(all) : all[i] \in Byte
      BY <1>2, <1>3, <1>5, ElementOfSeq
    <2>2. dropped + 1 \in Int /\ Len(all) \in Int /\ Len(all) = dropped + u
      BY <1>2, <1>3, <1>5
    <2>3. /\ kept \in Seq(Byte)
          /\ Len(kept) = IF dropped + 1 <= Len(all) THEN Len(all) - (dropped + 1) + 1 ELSE 0
          /\ \A k \in 1..Len(all) - (dropped + 1) + 1 : kept[k] = all[(dropped + 1) + k - 1]
      BY <2>1, <2>2, SubSeqProperties
    <2> HIDE DEF kept
    <2>4. Len(kept) = u
      BY <1>3, <2>2, <2>3
    <2>5. ASSUME NEW k \in 1..u PROVE kept[k] = all[dropped + k]
      <3>1. k \in 1..Len(all) - (dropped + 1) + 1 /\ (dropped + 1) + k - 1 = dropped + k
        BY <1>3, <2>2
      <3> QED
        BY <2>3, <3>1
    <2> QED
      BY <2>3, <2>4, <2>5
  <1> HIDE DEF kept
  <1>7. /\ Contents' \in Seq(Byte) /\ Len(Contents') = u
        /\ \A k \in 1..u : Contents'[k] = Data'[Wrap(headIdx' + k - 1)]
    BY <1>4, ContentsMeaningAfter DEF StoredBytes
  <1>8. ASSUME NEW k \in 1..u PROVE Contents'[k] = kept[k]
    <2>1. Contents'[k] = IF dropped + k <= Used
                         THEN Data[Wrap(headIdx + (dropped + k) - 1)]
                         ELSE src[(dropped + k) - Used]
      BY <1>4, <1>7
    <2>2. kept[k] = IF dropped + k <= Used THEN Contents[dropped + k] ELSE src[(dropped + k) - Used]
      <3>1. dropped + k \in 1..Used + Len(src)
        BY <1>2, <1>3
      <3> QED
        BY <1>5, <1>6, <3>1
    <2>3. dropped + k <= Used => Contents[dropped + k] = Data[Wrap(headIdx + (dropped + k) - 1)]
      <3>1. dropped + k <= Used => dropped + k \in 1..Used
        BY <1>2, <1>3
      <3> QED
        BY <1>2, <3>1
    <2> QED
      BY <2>1, <2>2, <2>3
  <1>9. Contents' = kept
    BY <1>6, <1>7, <1>8, SeqEqual
  <1>10. (IF Len(all) <= Capacity THEN 0 ELSE Len(all) - Capacity) = dropped
    <2>1. CASE u = Capacity
      BY <1>2, <1>3, <1>5, <2>1, CapacityAssumption
    <2>2. CASE u = Used + Len(src)
      BY <1>2, <1>3, <1>5, <2>2, CapacityAssumption
    <2> QED
      BY <1>3, <2>1, <2>2
  <1> QED
    BY <1>4, <1>9, <1>10 DEF Fifo!PushOverwriting, Fifo!NoBytes, NoBytes, kept, all

(* A pop takes the oldest bytes; PopSizes excludes the pop of nothing.     *)
LEMMA PopTakesOldest ==
  ASSUME IndexInv, NEW n \in Nat \ {0}, NEW asFrame, PopMasked(Used, headIdx, n, asFrame),
         NEW got \in Nat, got = AtMost(n, Used)
  PROVE  /\ Contents' = SubSeq(Contents, got + 1, Len(Contents))
         /\ ret' = [n |-> IF asFrame THEN 1 ELSE got, bytes |-> SubSeq(Contents, 1, got)]
  <1>1. /\ Contents \in Seq(Byte) /\ Len(Contents) = Used
        /\ \A k \in 1..Used : Contents[k] = Data[Wrap(headIdx + k - 1)]
        /\ Used \in 0..Capacity /\ Used \in Nat
    BY ContentsMeaning, UsedMeaning, CapacityAssumption DEF StoredBytes
  <1>2. /\ IndexInv' /\ Used' = Used - got
        /\ ret' = [n |-> IF asFrame THEN 1 ELSE got, bytes |-> Stored(headIdx, got)]
        /\ \A k \in 1..Used - got :
             Data'[Wrap(headIdx' + k - 1)] = Data[Wrap(headIdx + (got + k) - 1)]
    BY PopStep
  <1>3. got <= Used
    BY <1>1 DEF AtMost
  <1> DEFINE taken == SubSeq(Contents, 1, got)
             rest == SubSeq(Contents, got + 1, Used)
  <1>4. /\ taken \in Seq(Byte) /\ Len(taken) = got
        /\ \A k \in 1..got : taken[k] = Contents[k]
    <2>1. \A i \in 1..got : Contents[i] \in Byte
      BY <1>1, <1>3, ElementOfSeq
    <2> QED
      BY <2>1, SubSeqProperties
  <1>5. /\ rest \in Seq(Byte) /\ Len(rest) = Used - got
        /\ \A k \in 1..Used - got : rest[k] = Contents[got + k]
    <2>1. \A i \in got + 1..Used : Contents[i] \in Byte
      BY <1>1, ElementOfSeq
    <2>2. /\ rest \in Seq(Byte)
          /\ Len(rest) = IF got + 1 <= Used THEN Used - (got + 1) + 1 ELSE 0
          /\ \A k \in 1..Used - (got + 1) + 1 : rest[k] = Contents[(got + 1) + k - 1]
      BY <1>1, <2>1, SubSeqProperties
    <2> HIDE DEF rest
    <2>3. Len(rest) = Used - got
      BY <1>1, <1>3, <2>2
    <2>4. ASSUME NEW k \in 1..Used - got PROVE rest[k] = Contents[got + k]
      <3>1. k \in 1..Used - (got + 1) + 1 /\ (got + 1) + k - 1 = got + k
        BY <1>1
      <3> QED
        BY <2>2, <3>1
    <2> QED
      BY <2>2, <2>3, <2>4
  <1> HIDE DEF taken, rest
  <1>6. Stored(headIdx, got) = taken
    <2> DEFINE s == [k \in 1..got |-> Data[Wrap(headIdx + k - 1)]]
    <2>1. \A k \in 1..got : k \in 1..Used
      BY <1>1, <1>3
    <2>2. \A k \in 1..got : taken[k] = Data[Wrap(headIdx + k - 1)]
      BY <1>1, <1>4, <2>1
    <2>3. taken = [k \in 1..got |-> taken[k]]
      BY <1>4
    <2> QED
      BY <2>2, <2>3 DEF Stored
  <1>7. Contents' = rest
    <2>1. /\ Contents' \in Seq(Byte) /\ Len(Contents') = Used - got
          /\ \A k \in 1..Used - got : Contents'[k] = Data'[Wrap(headIdx' + k - 1)]
      BY <1>2, ContentsMeaningAfter DEF StoredBytes
    <2>2. ASSUME NEW k \in 1..Used - got PROVE Contents'[k] = rest[k]
      <3>1. got + k \in 1..Used
        BY <1>1
      <3>2. Contents'[k] = Data[Wrap(headIdx + (got + k) - 1)]
        BY <1>2, <2>1
      <3> QED
        BY <1>1, <1>5, <3>1, <3>2
    <2> QED
      BY <1>5, <2>1, <2>2, SeqEqual
  <1> QED
    BY <1>1, <1>2, <1>6, <1>7 DEF taken, rest

(* For every capacity, an implementation step is a step of the FIFO.       *)
LEMMA NextRefines ==
  ASSUME 0 \notin PopSizes
  PROVE  IndexInv /\ [Next]_vars => [Fifo!Next]_<<Contents, ret>>
  <1> SUFFICES ASSUME IndexInv, [Next]_vars PROVE [Fifo!Next]_<<Contents, ret>>
    OBVIOUS
  <1>0. /\ Len(Contents) = Used /\ Used \in 0..Capacity /\ Used \in Nat
        /\ \A n \in PopSizes : n \in Nat \ {0} /\ AtMost(n, Used) \in Nat
    BY ContentsMeaning, UsedMeaning, CapacityAssumption, SizeAssumption DEF StoredBytes, AtMost
  <1>1. ASSUME NEW src \in Sources, NEW fullCheck \in BOOLEAN, Push(src, fullCheck)
        PROVE  Fifo!PushRefusing(src) \/ Fifo!PushOverwriting(src)
    <2>1. CASE fullCheck = TRUE
      BY <1>1, <2>1, RefusingRefines
    <2>2. CASE fullCheck = FALSE
      BY <1>1, <2>2, OverwritingRefines
    <2> QED
      BY <2>1, <2>2
  <1>2. ASSUME NEW n \in PopSizes, Pop(n) PROVE Fifo!Pop(n)
    <2>1. /\ Contents' = SubSeq(Contents, AtMost(n, Used) + 1, Len(Contents))
          /\ ret' = [n |-> AtMost(n, Used), bytes |-> SubSeq(Contents, 1, AtMost(n, Used))]
      <3>1. PopMasked(Used, headIdx, n, FALSE)
        BY <1>2 DEF Pop
      <3> QED
        BY <1>0, <3>1, PopTakesOldest
    <2> QED
      BY <1>0, <2>1 DEF Fifo!Pop, Fifo!AtMost, AtMost
  <1>3. ASSUME NEW n \in PopSizes, Drain(n) PROVE Fifo!Drain(n) \/ Fifo!DrainRefused(n)
    <2>1. CASE Used >= n /\ PopMasked(Used, headIdx, n, TRUE)
      <3>1. AtMost(n, Used) = n
        BY <1>0, <2>1 DEF AtMost
      <3>2. /\ Contents' = SubSeq(Contents, n + 1, Len(Contents))
            /\ ret' = [n |-> 1, bytes |-> SubSeq(Contents, 1, n)]
        BY <1>0, <2>1, <3>1, PopTakesOldest
      <3>3. n <= Len(Contents)
        BY <1>0, <2>1
      <3> QED
        BY <3>2, <3>3 DEF Fifo!Drain
    <2>2. CASE Used < n /\ ret' = NoBytes(0) /\ UNCHANGED fields
      <3>1. Contents' = Contents
        BY <2>2 DEF fields, Contents, Stored, Used, Lapped, Full
      <3>2. n > Len(Contents)
        BY <1>0, <2>2
      <3> QED
        BY <2>2, <3>1, <3>2 DEF Fifo!DrainRefused, Fifo!NoBytes, NoBytes
    <2> QED
      BY <1>3, <2>1, <2>2 DEF Drain
  <1>4. CASE Flush \/ Reinit
    <2>1. Used' = 0 /\ ret' = NoBytes(0)
      BY <1>4, ClearStep
    <2>2. Contents' = <<>>
      BY <2>1 DEF Contents, Stored
    <2> QED
      BY <2>1, <2>2 DEF Fifo!Next, Fifo!Clear, Fifo!NoBytes, NoBytes
  <1>5. CASE UNCHANGED vars
    BY <1>5 DEF vars, Contents, Stored, Used, Lapped, Full
  <1>6. Sources = Fifo!Sources
    BY DEF Sources, Fifo!Sources
  <1> QED
    BY <1>1, <1>2, <1>3, <1>4, <1>5, <1>6 DEF Next, Fifo!Next

LEMMA InitRefines == Init => Fifo!Init
  <1> SUFFICES ASSUME Init PROVE Fifo!Init
    OBVIOUS
  <1>1. Used = 0
    <2>1. IndexInv /\ Empty
      BY InitIndexInv DEF Init, Empty
    <2> QED
      BY <2>1, UsedMeaning
  <1>2. Contents = <<>>
    BY <1>1 DEF Contents, Stored
  <1> QED
    BY <1>2 DEF Init, Fifo!Init, Fifo!NoBytes, NoBytes

(* The ring buffer implements the bounded FIFO of the header, for every    *)
(* capacity and every set of request sizes without zero.                   *)
THEOREM RingBufferIsFifo ==
  ASSUME 0 \notin PopSizes
  PROVE  Spec => ImplementsFifo
  <1>1. IndexInv /\ [Next]_vars => [Fifo!Next]_<<Contents, ret>>
    BY NextRefines
  <1> QED
    BY <1>1, InitRefines, AlwaysIndexInv, PTL DEF Spec, ImplementsFifo, Fifo!Spec
=============================================================================
