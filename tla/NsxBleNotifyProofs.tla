------------------------- MODULE NsxBleNotifyProofs -------------------------
(***************************************************************************)
(* For any number of characteristics and of message buffers: with no news  *)
(* under way the timers are those of the subscriptions.                    *)
(*                                                                         *)
(* While there is news, the stack's table is ahead of the wrapper's        *)
(* timers.  The invariant says that the messages waiting, read to their    *)
(* end, always make up the difference.                                     *)
(***************************************************************************)
EXTENDS NsxBleNotify, SequenceTheorems, FiniteSetTheorems, TLAPS

(* ------------------------- the invariant ------------------------------- *)

Message ==
  [event : {"open", "close", "ccc"}, c : Chars \cup {None}, value : BOOLEAN]

Doing ==
  [kind : {"none", "ccc", "notify"}, c : Chars \cup {None}, value : BOOLEAN,
   conn : BOOLEAN]

(* Only a message about a subscription names a characteristic.             *)
Named(m) == m.event = "ccc" <=> m.c \in Chars

Typed ==
  /\ link \in BOOLEAN /\ current \in BOOLEAN /\ lost \in BOOLEAN
  /\ table \in [Chars -> BOOLEAN] /\ timer \in [Chars -> BOOLEAN]
  /\ phase \in {"messages", "timers", "handlers"} /\ out \in Chars \cup {None}
  /\ queue \in Seq(Message) /\ Len(queue) <= Pool
  /\ \A i \in DOMAIN queue : Named(queue[i])
  /\ doing \in Doing /\ (doing.kind = "none" <=> doing.c = None)

(* Where the dispatcher is when a callback is under way, and what it can   *)
(* still have to deliver when it comes to the timers.                      *)
PhaseInv ==
  /\ doing.kind = "none" => doing = Nothing
  /\ doing.kind = "ccc" => phase = "messages"
  /\ doing.kind = "notify" => phase = "timers" /\ doing.c \notin Async /\ doing.conn
  /\ phase = "timers" /\ link => queue = <<>>
  /\ \A c \in Chars : table[c] => link

(* A message about c that stops its timer, and one that may start it.      *)
Stops(m, c) == m.event = "close" \/ (m.event = "ccc" /\ m.c = c /\ ~m.value)
Starts(m, c) == m.event = "ccc" /\ m.c = c /\ m.value

StopsAfter(i, c) == \E j \in DOMAIN queue : j > i /\ Stops(queue[j], c)
ClosesAfter(i) == \E j \in DOMAIN queue : j > i /\ queue[j].event = "close"

(* The wrapper knows of an open link, or is going to.                      *)
OpenInv ==
  link => \/ current /\ ~ClosesAfter(0)
          \/ \E i \in DOMAIN queue : queue[i].event = "open" /\ ~ClosesAfter(i)

CccOf(c) == doing.kind = "ccc" /\ doing.c = c

(* The timer runs, or the callback under way returns to start it.          *)
Runs(c) ==
  \/ timer[c] /\ ~CccOf(c)
  \/ CccOf(c) /\ doing.value /\ doing.conn = current
  \/ doing.kind = "notify" /\ doing.c = c

WillRun(c) ==
  \/ Runs(c) /\ ~StopsAfter(0, c)
  \/ \E i \in DOMAIN queue : Starts(queue[i], c) /\ ~StopsAfter(i, c)

(* What a subscriber is owed, and what ends a timer without one.           *)
ArmedInv == \A c \in Chars \ Async : table[c] => WillRun(c)
StoppedInv ==
  \A c \in Chars : timer[c] => c \notin Async /\ (table[c] \/ StopsAfter(0, c) \/ CccOf(c))

IInv == Typed /\ PhaseInv /\ (~lost => OpenInv /\ ArmedInv /\ StoppedInv)

(* ------------------------- sequences ----------------------------------- *)

(* A set listed by SetToSeq: every element has a place.                    *)
LEMMA Listed ==
  ASSUME NEW S, IsFiniteSet(S)
  PROVE  /\ Cardinality(S) \in Nat
         /\ SetToSeq(S) \in [1..Cardinality(S) -> S]
         /\ \A x \in S : \E i \in 1..Cardinality(S) : SetToSeq(S)[i] = x
  <1> DEFINE n == Cardinality(S)
             f == SetToSeq(S)
  <1>1. n \in Nat /\ ExistsBijection(1..n, S)
    BY FS_CardinalityType
  <1>2. \E g \in [1..n -> S] : IsInjective(g)
    BY <1>1 DEF ExistsBijection, Bijection, Injection
  <1>3. f \in [1..n -> S] /\ IsInjective(f)
    BY <1>2 DEF SetToSeq
  <1>4. f \in Injection(1..n, S)
    BY <1>3 DEF Injection
  <1>5. IsFiniteSet(1..n) /\ Cardinality(1..n) = n
    BY <1>1, FS_Interval
  <1>6. f \in Surjection(1..n, S)
    BY <1>4, <1>5, FS_Injection
  <1> QED
    BY <1>1, <1>3, <1>6 DEF Surjection

(* What a connection announces: no message that stops a timer or closes,   *)
(* one for each restored subscription, and the opening.                    *)
LEMMA OpeningMessages ==
  ASSUME NEW restored \in [Chars -> BOOLEAN]
  PROVE  /\ Opening(restored) \in Seq(Message)
         /\ \A i \in DOMAIN Opening(restored) :
              /\ Named(Opening(restored)[i])
              /\ Opening(restored)[i].event # "close"
              /\ \A c \in Chars : ~Stops(Opening(restored)[i], c)
         /\ \A c \in Chars : restored[c] =>
              \E i \in DOMAIN Opening(restored) : Starts(Opening(restored)[i], c)
         /\ \E i \in DOMAIN Opening(restored) : Opening(restored)[i].event = "open"
  <1> DEFINE R == {c \in Chars : restored[c]}
             n == Cardinality(R)
             on == SetToSeq(R)
             cccs == [i \in DOMAIN on |-> Msg("ccc", on[i], TRUE)]
             open == <<Msg("open", None, FALSE)>>
             all == cccs \o open
  <1>1. /\ n \in Nat /\ on \in [1..n -> R]
        /\ \A c \in R : \E i \in 1..n : on[i] = c
    <2>1. IsFiniteSet(R)
      BY BleAssumption, FS_Subset
    <2> QED
      BY <2>1, Listed
  <1> HIDE DEF n, on, R
  <1>2. /\ cccs \in Seq(Message) /\ Len(cccs) = n
        /\ \A i \in 1..n : cccs[i] = [event |-> "ccc", c |-> on[i], value |-> TRUE]
    <2>1. \A i \in 1..n : Msg("ccc", on[i], TRUE) \in Message
      BY <1>1 DEF R, Msg, Message
    <2>2. cccs \in [1..n -> Message]
      BY <1>1, <2>1
    <2>3. [1..n -> Message] \subseteq Seq(Message)
      BY <1>1, SeqDef
    <2> QED
      BY <1>1, <2>2, <2>3 DEF Msg
  <1>3. /\ open \in Seq(Message) /\ Len(open) = 1
        /\ open[1] = [event |-> "open", c |-> None, value |-> FALSE]
    BY DEF Msg, Message
  <1> HIDE DEF cccs, open
  <1>4. /\ all \in Seq(Message) /\ DOMAIN all = 1..n + 1
        /\ \A i \in 1..n : all[i] = cccs[i]
        /\ all[n + 1] = open[1]
    <2>1. /\ all \in Seq(Message) /\ Len(all) = n + 1
          /\ \A i \in 1..n + 1 : all[i] = IF i <= n THEN cccs[i] ELSE open[i - n]
      <3>1. /\ all \in Seq(Message) /\ Len(all) = Len(cccs) + Len(open)
            /\ \A i \in 1..Len(cccs) + Len(open) :
                 all[i] = IF i <= Len(cccs) THEN cccs[i] ELSE open[i - Len(cccs)]
        BY <1>2, <1>3, ConcatProperties
      <3> HIDE DEF all
      <3> QED
        BY <3>1, <1>1, <1>2, <1>3
    <2> HIDE DEF all
    <2>2. DOMAIN all = 1..n + 1
      BY <2>1, LenProperties
    <2> QED
      BY <1>1, <2>1, <2>2
  <1>5. Opening(restored) = all
    BY DEF Opening, all, cccs, open, on, R
  <1> HIDE DEF all
  <1>6. ASSUME NEW i \in DOMAIN all
        PROVE  /\ Named(all[i]) /\ all[i].event # "close"
               /\ \A c \in Chars : ~Stops(all[i], c)
    <2>1. CASE i \in 1..n
      BY <2>1, <1>1, <1>2, <1>4 DEF R, Named, Stops
    <2>2. CASE i = n + 1
      BY <2>2, <1>3, <1>4, BleAssumption DEF Named, Stops
    <2> QED
      BY <2>1, <2>2, <1>1, <1>4
  <1>7. ASSUME NEW c \in Chars, restored[c]
        PROVE  \E i \in DOMAIN all : Starts(all[i], c)
    <2>1. PICK i \in 1..n : on[i] = c
      BY <1>1, <1>7 DEF R
    <2>2. i \in DOMAIN all /\ all[i] = [event |-> "ccc", c |-> c, value |-> TRUE]
      <3>1. i \in 1..n + 1
        BY <1>1
      <3>2. cccs[i] = [event |-> "ccc", c |-> c, value |-> TRUE]
        BY <2>1, <1>2
      <3> QED
        BY <3>1, <3>2, <1>4
    <2>3. Starts(all[i], c)
      BY <2>2 DEF Starts
    <2> QED
      BY <2>2, <2>3
  <1>8. \E i \in DOMAIN all : all[i].event = "open"
    BY <1>1, <1>3, <1>4
  <1> QED
    BY <1>4, <1>5, <1>6, <1>7, <1>8

(* Posting leaves a queue of messages that fits, and unless a message is   *)
(* lost the queue has them all.                                            *)
LEMMA Posted ==
  ASSUME Typed, NEW msgs \in Seq(Message), \A i \in DOMAIN msgs : Named(msgs[i]),
         Post(msgs)
  PROVE  /\ queue' \in Seq(Message) /\ Len(queue') <= Pool
         /\ \A i \in DOMAIN queue' : Named(queue'[i])
         /\ lost' \in BOOLEAN
         /\ ~lost' => ~lost /\ queue' = queue \o msgs
  <1>1. ASSUME NEW news \in Seq(Message), \A i \in DOMAIN news : Named(news[i]),
               Fits(Len(news)), queue' = queue \o news
        PROVE  /\ queue' \in Seq(Message) /\ Len(queue') <= Pool
               /\ \A i \in DOMAIN queue' : Named(queue'[i])
    <2>1. /\ queue' \in Seq(Message) /\ Len(queue') = Len(queue) + Len(news)
          /\ \A i \in 1..Len(queue) + Len(news) :
               queue'[i] = IF i <= Len(queue) THEN queue[i] ELSE news[i - Len(queue)]
      BY <1>1, ConcatProperties DEF Typed
    <2>2. Len(queue) \in Nat /\ Len(news) \in Nat /\ DOMAIN queue = 1..Len(queue)
          /\ DOMAIN news = 1..Len(news) /\ DOMAIN queue' = 1..Len(queue')
      BY <1>1, <2>1, LenProperties DEF Typed
    <2>3. Len(queue') <= Pool
      BY <1>1, <2>1 DEF Fits
    <2>4. ASSUME NEW i \in DOMAIN queue' PROVE Named(queue'[i])
      <3>1. CASE i <= Len(queue)
        BY <3>1, <2>1, <2>2 DEF Typed
      <3>2. CASE i > Len(queue)
        BY <3>2, <2>1, <2>2, <1>1
      <3> QED
        BY <3>1, <3>2, <2>1, <2>2
    <2> QED
      BY <2>1, <2>3, <2>4
  <1>2. CASE Fits(Len(msgs)) /\ queue' = queue \o msgs /\ UNCHANGED lost
    BY <1>1, <1>2 DEF Typed
  <1>3. ASSUME NEW kept \in Remnants(msgs), Fits(Len(kept)),
               queue' = queue \o kept, lost' = TRUE
        PROVE  /\ queue' \in Seq(Message) /\ Len(queue') <= Pool
               /\ \A i \in DOMAIN queue' : Named(queue'[i])
    <2>0. PICK n \in 0..Len(msgs) - 1 :
            \E pick \in [1..n -> DOMAIN msgs] : kept = [i \in 1..n |-> msgs[pick[i]]]
      BY <1>3 DEF Remnants
    <2>1. PICK pick \in [1..n -> DOMAIN msgs] : kept = [i \in 1..n |-> msgs[pick[i]]]
      BY <2>0
    <2>2. DOMAIN msgs = 1..Len(msgs) /\ Len(msgs) \in Nat /\ msgs \in [1..Len(msgs) -> Message]
      BY LenProperties
    <2>3. n \in Nat /\ kept \in [1..n -> Message] /\ \A i \in 1..n : Named(kept[i])
      BY <2>1, <2>2
    <2>4. kept \in Seq(Message) /\ DOMAIN kept = 1..n
      BY <2>3, SeqDef
    <2> QED
      BY <2>3, <2>4, <1>1, <1>3
  <1> QED
    BY <1>2, <1>3 DEF Post

(* ------------------------- reading the queue --------------------------- *)

(* Old messages keep their places, new ones follow.                        *)
LEMMA AfterPosting ==
  ASSUME Typed, NEW msgs \in Seq(Message), queue' = queue \o msgs
  PROVE  /\ Len(queue) \in Nat /\ DOMAIN queue = 1..Len(queue)
         /\ DOMAIN msgs \subseteq Nat \ {0}
         /\ \A i \in DOMAIN queue : i \in DOMAIN queue' /\ queue'[i] = queue[i]
         /\ \A k \in DOMAIN msgs :
              Len(queue) + k \in DOMAIN queue' /\ queue'[Len(queue) + k] = msgs[k]
         /\ \A j \in DOMAIN queue' :
              j \in DOMAIN queue \/ \E k \in DOMAIN msgs : j = Len(queue) + k
  <1>1. /\ queue' \in Seq(Message) /\ Len(queue') = Len(queue) + Len(msgs)
        /\ \A i \in 1..Len(queue) + Len(msgs) :
             queue'[i] = IF i <= Len(queue) THEN queue[i] ELSE msgs[i - Len(queue)]
    BY ConcatProperties DEF Typed
  <1>2. /\ Len(queue) \in Nat /\ Len(msgs) \in Nat /\ DOMAIN queue = 1..Len(queue)
        /\ DOMAIN msgs = 1..Len(msgs) /\ DOMAIN queue' = 1..Len(queue')
    BY <1>1, LenProperties DEF Typed
  <1>3. ASSUME NEW k \in DOMAIN msgs
        PROVE  Len(queue) + k \in DOMAIN queue' /\ queue'[Len(queue) + k] = msgs[k]
    BY <1>1, <1>2
  <1>4. ASSUME NEW j \in DOMAIN queue'
        PROVE  j \in DOMAIN queue \/ \E k \in DOMAIN msgs : j = Len(queue) + k
    <2>1. CASE j > Len(queue)
      <3>1. j - Len(queue) \in DOMAIN msgs /\ j = Len(queue) + (j - Len(queue))
        BY <2>1, <1>1, <1>2
      <3> QED
        BY <3>1
    <2> QED
      BY <2>1, <1>1, <1>2
  <1> QED
    BY <1>1, <1>2, <1>3, <1>4

(* What follows in the queue still follows, and more only if it is new.    *)
LEMMA StopsAfterPosting ==
  ASSUME Typed, NEW msgs \in Seq(Message), queue' = queue \o msgs,
         NEW c \in Chars, NEW i \in Nat
  PROVE  /\ StopsAfter(i, c) => StopsAfter(i, c)'
         /\ (\A k \in DOMAIN msgs : ~Stops(msgs[k], c)) =>
              (StopsAfter(i, c)' => StopsAfter(i, c))
  <1>1. \A j \in DOMAIN queue : j \in DOMAIN queue' /\ queue'[j] = queue[j]
    BY AfterPosting
  <1>2. ASSUME NEW j \in DOMAIN queue', \A k \in DOMAIN msgs : ~Stops(msgs[k], c),
               Stops(queue'[j], c)
        PROVE  j \in DOMAIN queue
    BY <1>2, AfterPosting
  <1> QED
    BY <1>1, <1>2 DEF StopsAfter

LEMMA ClosesAfterPosting ==
  ASSUME Typed, NEW msgs \in Seq(Message), queue' = queue \o msgs,
         \A k \in DOMAIN msgs : msgs[k].event # "close", NEW i \in Nat
  PROVE  ClosesAfter(i)' => ClosesAfter(i)
  <1>1. \A j \in DOMAIN queue : queue'[j] = queue[j]
    BY AfterPosting
  <1>2. ASSUME NEW j \in DOMAIN queue', queue'[j].event = "close"
        PROVE  j \in DOMAIN queue
    BY <1>2, AfterPosting
  <1> QED
    BY <1>1, <1>2 DEF ClosesAfter

(* Nothing follows the last message.                                       *)
LEMMA NothingFollows ==
  ASSUME Typed, NEW i \in Nat, i >= Len(queue)
  PROVE  ~ClosesAfter(i) /\ \A c \in Chars : ~StopsAfter(i, c)
  <1>1. Len(queue) \in Nat /\ DOMAIN queue = 1..Len(queue)
    BY LenProperties DEF Typed
  <1> QED
    BY <1>1 DEF ClosesAfter, StopsAfter

(* What starts a timer, or is waiting to, stays if nothing new stops it.   *)
LEMMA WillRunPosting ==
  ASSUME Typed, NEW msgs \in Seq(Message), queue' = queue \o msgs,
         NEW c \in Chars, \A k \in DOMAIN msgs : ~Stops(msgs[k], c),
         WillRun(c), Runs(c) => Runs(c)'
  PROVE  WillRun(c)'
  <1>1. CASE Runs(c) /\ ~StopsAfter(0, c)
    BY <1>1, StopsAfterPosting DEF WillRun
  <1>2. ASSUME NEW i \in DOMAIN queue, Starts(queue[i], c), ~StopsAfter(i, c)
        PROVE  WillRun(c)'
    <2>1. i \in Nat /\ i \in DOMAIN queue' /\ queue'[i] = queue[i]
      BY AfterPosting
    <2>2. ~StopsAfter(i, c)'
      BY <1>2, <2>1, StopsAfterPosting
    <2> QED
      BY <1>2, <2>1, <2>2 DEF WillRun, Starts
  <1> QED
    BY <1>1, <1>2 DEF WillRun

(* A delivery moves every other message one place up.                      *)
LEMMA AfterDelivery ==
  ASSUME Typed, queue # <<>>, queue' = Tail(queue)
  PROVE  /\ queue' \in Seq(Message) /\ Len(queue') <= Pool
         /\ Head(queue) = queue[1] /\ Head(queue) \in Message /\ Named(Head(queue))
         /\ 1 \in DOMAIN queue /\ DOMAIN queue \subseteq Nat
         /\ \A i \in DOMAIN queue' : i + 1 \in DOMAIN queue /\ queue'[i] = queue[i + 1]
         /\ \A i \in DOMAIN queue : i = 1 \/ (i - 1 \in DOMAIN queue' /\ i - 1 \in Nat)
         /\ \A i \in DOMAIN queue' : Named(queue'[i]) /\ i \in Nat
  <1>1. /\ Len(queue) \in Nat \ {0} /\ DOMAIN queue = 1..Len(queue)
    BY LenProperties, EmptySeq DEF Typed
  <1>2. /\ Head(queue) \in Message /\ queue' \in Seq(Message)
        /\ Len(queue') = Len(queue) - 1 /\ Head(queue) = queue[1]
        /\ \A i \in 1..Len(queue') : queue'[i] = queue[i + 1]
    BY HeadTailProperties DEF Typed
  <1>3. DOMAIN queue' = 1..Len(queue')
    BY <1>2, LenProperties
  <1>4. Len(queue') <= Pool
    BY <1>1, <1>2, BleAssumption DEF Typed
  <1>5. ASSUME NEW i \in DOMAIN queue'
        PROVE  /\ i + 1 \in DOMAIN queue /\ queue'[i] = queue[i + 1]
               /\ i \in Nat /\ Named(queue'[i])
    BY <1>1, <1>2, <1>3 DEF Typed
  <1>6. ASSUME NEW i \in DOMAIN queue
        PROVE  i = 1 \/ (i - 1 \in DOMAIN queue' /\ i - 1 \in Nat)
    BY <1>1, <1>2, <1>3
  <1>7. 1 \in DOMAIN queue /\ Named(Head(queue)) /\ DOMAIN queue \subseteq Nat
    BY <1>1, <1>2 DEF Typed
  <1> QED
    BY <1>2, <1>4, <1>5, <1>6, <1>7

LEMMA StopsAfterDelivery ==
  ASSUME Typed, queue # <<>>, queue' = Tail(queue), NEW c \in Chars, NEW i \in Nat
  PROVE  /\ StopsAfter(i, c)' <=> StopsAfter(i + 1, c)
         /\ StopsAfter(0, c) <=> Stops(Head(queue), c) \/ StopsAfter(1, c)
         /\ ClosesAfter(i)' <=> ClosesAfter(i + 1)
         /\ ClosesAfter(0) <=> Head(queue).event = "close" \/ ClosesAfter(1)
  <1>1. ASSUME NEW j \in DOMAIN queue, j > i + 1
        PROVE  j - 1 \in DOMAIN queue' /\ j - 1 > i /\ queue'[j - 1] = queue[j]
    BY <1>1, AfterDelivery
  <1>2. ASSUME NEW j \in DOMAIN queue', j > i
        PROVE  j + 1 \in DOMAIN queue /\ j + 1 > i + 1 /\ queue'[j] = queue[j + 1]
    BY <1>2, AfterDelivery
  <1>3. \A j \in DOMAIN queue : j > 0 /\ (j > 1 \/ queue[j] = Head(queue))
    BY AfterDelivery
  <1>4. 1 \in DOMAIN queue /\ queue[1] = Head(queue)
    BY AfterDelivery
  <1>5. StopsAfter(i, c)' <=> StopsAfter(i + 1, c)
    BY <1>1, <1>2 DEF StopsAfter
  <1>6. ClosesAfter(i)' <=> ClosesAfter(i + 1)
    BY <1>1, <1>2 DEF ClosesAfter
  <1>7. StopsAfter(0, c) <=> Stops(Head(queue), c) \/ StopsAfter(1, c)
    BY <1>3, <1>4, AfterDelivery DEF StopsAfter
  <1>8. ClosesAfter(0) <=> Head(queue).event = "close" \/ ClosesAfter(1)
    BY <1>3, <1>4, AfterDelivery DEF ClosesAfter
  <1> QED
    BY <1>5, <1>6, <1>7, <1>8

(* ------------------------- the stack ----------------------------------- *)

NewsInv == OpenInv /\ ArmedInv /\ StoppedInv

(* The stack's handlers run between callbacks.                             *)
LEMMA IdleHandlers ==
  ASSUME IInv, Handlers
  PROVE  doing = Nothing /\ (\A c \in Chars : ~CccOf(c))
  BY DEF IInv, Typed, Doing, PhaseInv, Handlers, Nothing, CccOf

(* The wrapper's part of the state does not move when the stack acts.      *)
LEMMA StackTyped ==
  ASSUME IInv, StackOnly, NEW msgs \in Seq(Message), \A i \in DOMAIN msgs : Named(msgs[i]),
         Post(msgs), link' \in BOOLEAN, table' \in [Chars -> BOOLEAN]
  PROVE  Typed' /\ (~lost' => ~lost /\ NewsInv /\ queue' = queue \o msgs)
  <1>1. Typed
    BY DEF IInv
  <1>2. /\ queue' \in Seq(Message) /\ Len(queue') <= Pool
        /\ \A i \in DOMAIN queue' : Named(queue'[i])
        /\ lost' \in BOOLEAN
        /\ ~lost' => ~lost /\ queue' = queue \o msgs
    BY <1>1, Posted
  <1>3. Typed'
    BY <1>1, <1>2 DEF Typed, StackOnly
  <1> QED
    BY <1>2, <1>3 DEF IInv, NewsInv

LEMMA StackRuns ==
  ASSUME StackOnly, NEW c \in Chars
  PROVE  (Runs(c)' <=> Runs(c)) /\ (CccOf(c)' <=> CccOf(c))
  BY DEF StackOnly, Runs, CccOf

LEMMA ConnectsStep ==
  ASSUME IInv, NEW restored \in [Chars -> BOOLEAN], PeerConnects(restored)
  PROVE  IInv'
  <1> DEFINE msgs == Opening(restored)
  <1>1. /\ msgs \in Seq(Message)
        /\ \A i \in DOMAIN msgs : /\ Named(msgs[i]) /\ msgs[i].event # "close"
                                  /\ \A c \in Chars : ~Stops(msgs[i], c)
        /\ \A c \in Chars : restored[c] => \E i \in DOMAIN msgs : Starts(msgs[i], c)
        /\ \E i \in DOMAIN msgs : msgs[i].event = "open"
    BY OpeningMessages
  <1> HIDE DEF msgs
  <1>2. /\ Handlers /\ ~link /\ link' = TRUE /\ table' = restored /\ StackOnly /\ Post(msgs)
    BY DEF PeerConnects, msgs
  <1>3. doing = Nothing /\ \A c \in Chars : ~CccOf(c) /\ ~table[c]
    BY <1>2, IdleHandlers DEF IInv, PhaseInv
  <1>4. Typed' /\ (~lost' => ~lost /\ NewsInv /\ queue' = queue \o msgs)
    BY <1>1, <1>2, StackTyped
  <1>5. PhaseInv'
    BY <1>2, <1>3 DEF PhaseInv, Nothing, StackOnly, Handlers
  <1>6. ASSUME ~lost' PROVE NewsInv'
    <2>1. Typed /\ NewsInv /\ queue' = queue \o msgs
      BY <1>4, <1>6 DEF IInv
    <2>0. PICK n \in Nat : n = Len(queue)
      BY <1>1, <2>1, AfterPosting
    <2>2. /\ DOMAIN msgs \subseteq Nat \ {0}
          /\ \A k \in DOMAIN msgs : n + k \in DOMAIN queue' /\ queue'[n + k] = msgs[k]
      BY <1>1, <2>0, <2>1, AfterPosting
    <2>3. ASSUME NEW k \in DOMAIN msgs
          PROVE  /\ ~ClosesAfter(n + k)'
                 /\ \A c \in Chars : ~StopsAfter(n + k, c)'
      <3>1. n + k \in Nat /\ n + k >= Len(queue)
        BY <2>0, <2>2
      <3>2. ~ClosesAfter(n + k) /\ \A c \in Chars : ~StopsAfter(n + k, c)
        BY <2>1, <3>1, NothingFollows
      <3>3. ~ClosesAfter(n + k)'
        BY <1>1, <2>1, <3>1, <3>2, ClosesAfterPosting
      <3>4. ASSUME NEW c \in Chars PROVE ~StopsAfter(n + k, c)'
        BY <1>1, <2>1, <3>1, <3>2, StopsAfterPosting
      <3> QED
        BY <3>3, <3>4
    <2>4. OpenInv'
      <3>1. PICK k \in DOMAIN msgs : msgs[k].event = "open"
        BY <1>1
      <3>2. n + k \in DOMAIN queue' /\ queue'[n + k].event = "open" /\ ~ClosesAfter(n + k)'
        BY <2>2, <2>3, <3>1
      <3> QED
        BY <3>2 DEF OpenInv
    <2>5. ArmedInv'
      <3> SUFFICES ASSUME NEW c \in Chars \ Async, table'[c]
                   PROVE  WillRun(c)'
        BY DEF ArmedInv
      <3>1. PICK k \in DOMAIN msgs : Starts(msgs[k], c)
        BY <1>1, <1>2
      <3>2. n + k \in DOMAIN queue' /\ Starts(queue'[n + k], c) /\ ~StopsAfter(n + k, c)'
        BY <2>2, <2>3, <3>1
      <3> QED
        BY <3>2 DEF WillRun, Starts
    <2>6. StoppedInv'
      <3> SUFFICES ASSUME NEW c \in Chars, timer'[c]
                   PROVE  c \notin Async /\ StopsAfter(0, c)'
        BY DEF StoppedInv
      <3>1. timer[c]
        BY <1>2 DEF StackOnly
      <3>2. c \notin Async /\ StopsAfter(0, c)
        BY <1>3, <2>1, <3>1 DEF NewsInv, StoppedInv
      <3> QED
        BY <1>1, <2>1, <3>2, StopsAfterPosting
    <2> QED
      BY <2>4, <2>5, <2>6 DEF NewsInv
  <1> QED
    BY <1>4, <1>5, <1>6 DEF IInv, NewsInv

LEMMA WritesStep ==
  ASSUME IInv, NEW w \in Chars, PeerWrites(w)
  PROVE  IInv'
  <1> DEFINE m == Msg("ccc", w, ~table[w])
             msgs == <<m>>
  <1>1. /\ Handlers /\ link /\ link' = link /\ StackOnly /\ Post(msgs)
        /\ table' = [table EXCEPT ![w] = ~@]
    BY DEF PeerWrites
  <1>2. table \in [Chars -> BOOLEAN] /\ table' \in [Chars -> BOOLEAN] /\ link' \in BOOLEAN
    BY <1>1 DEF IInv, Typed
  <1>3. /\ m = [event |-> "ccc", c |-> w, value |-> table'[w]]
        /\ m \in Message /\ Named(m) /\ m.event # "close"
        /\ Starts(m, w) <=> table'[w]
        /\ Stops(m, w) <=> ~table'[w]
        /\ \A c \in Chars \ {w} : ~Stops(m, c)
    BY <1>1, <1>2 DEF Msg, Message, Named, Stops, Starts
  <1> HIDE DEF m
  <1>4. msgs \in Seq(Message) /\ DOMAIN msgs = {1} /\ msgs[1] = m
    BY <1>3
  <1> HIDE DEF msgs
  <1>5. doing = Nothing /\ \A c \in Chars : ~CccOf(c)
    BY <1>1, IdleHandlers
  <1>6. Typed' /\ (~lost' => ~lost /\ NewsInv /\ queue' = queue \o msgs)
    BY <1>1, <1>2, <1>3, <1>4, StackTyped
  <1>7. PhaseInv'
    BY <1>1, <1>2, <1>5 DEF IInv, PhaseInv, Nothing, StackOnly, Handlers
  <1>8. ASSUME ~lost' PROVE NewsInv'
    <2>1. Typed /\ NewsInv /\ queue' = queue \o msgs
      BY <1>6, <1>8 DEF IInv
    <2>0. PICK n \in Nat : n = Len(queue) + 1
      BY <1>4, <2>1, AfterPosting
    <2>2. /\ n > 0 /\ n >= Len(queue) /\ DOMAIN queue \subseteq Nat
          /\ n \in DOMAIN queue' /\ queue'[n] = m
          /\ \A i \in DOMAIN queue : i \in DOMAIN queue' /\ queue'[i] = queue[i]
      BY <1>4, <2>0, <2>1, AfterPosting
    <2>3. \A i \in Nat : ClosesAfter(i)' => ClosesAfter(i)
      BY <1>3, <1>4, <2>1, ClosesAfterPosting
    <2>4. \A c \in Chars \ {w}, i \in Nat : StopsAfter(i, c)' => StopsAfter(i, c)
      BY <1>3, <1>4, <2>1, StopsAfterPosting
    <2>5. OpenInv'
      BY <1>1, <2>1, <2>2, <2>3 DEF OpenInv, NewsInv, StackOnly
    <2>6. ASSUME NEW c \in Chars \ Async, table'[c] PROVE WillRun(c)'
      <3>1. CASE c = w
        <4>1. ~StopsAfter(n, c)
          BY <2>1, <2>2, NothingFollows
        <4>2. ~StopsAfter(n, c)'
          BY <1>3, <1>4, <2>1, <2>2, <2>6, <3>1, <4>1, StopsAfterPosting
        <4> QED
          BY <1>3, <2>2, <2>6, <3>1, <4>2 DEF WillRun
      <3>2. CASE c # w
        <4>1. WillRun(c)
          BY <1>1, <1>2, <2>1, <2>6, <3>2 DEF NewsInv, ArmedInv
        <4> QED
          BY <1>1, <1>3, <1>4, <2>1, <3>2, <4>1, StackRuns, WillRunPosting
      <3> QED
        BY <3>1, <3>2
    <2>7. ASSUME NEW c \in Chars, timer'[c]
          PROVE  c \notin Async /\ (table'[c] \/ StopsAfter(0, c)')
      <3>1. timer[c] /\ c \notin Async /\ (table[c] \/ StopsAfter(0, c))
        BY <1>1, <1>5, <2>1, <2>7 DEF StackOnly, NewsInv, StoppedInv
      <3>2. CASE StopsAfter(0, c)
        BY <3>1, <3>2, <2>1, <1>4, StopsAfterPosting
      <3>3. CASE c = w /\ ~table'[c]
        BY <1>3, <2>2, <3>1, <3>3 DEF StopsAfter
      <3> QED
        BY <1>1, <1>2, <3>1, <3>2, <3>3
    <2> QED
      BY <2>5, <2>6, <2>7 DEF NewsInv, ArmedInv, StoppedInv
  <1> QED
    BY <1>6, <1>7, <1>8 DEF IInv, NewsInv

LEMMA ClosesStep ==
  ASSUME IInv, LinkCloses
  PROVE  IInv'
  <1> DEFINE m == Msg("close", None, FALSE)
             msgs == <<m>>
  <1>1. /\ doing = Nothing /\ link' = FALSE /\ table' = NoneOf
        /\ StackOnly /\ Post(msgs)
    BY DEF LinkCloses
  <1>2. m \in Message /\ Named(m) /\ m.event = "close"
    BY BleAssumption DEF Msg, Message, Named
  <1> HIDE DEF m
  <1>3. msgs \in Seq(Message) /\ DOMAIN msgs = {1} /\ msgs[1] = m
    BY <1>2
  <1> HIDE DEF msgs
  <1>4. table' \in [Chars -> BOOLEAN] /\ \A c \in Chars : ~table'[c]
    BY <1>1 DEF NoneOf
  <1>5. Typed' /\ (~lost' => ~lost /\ NewsInv /\ queue' = queue \o msgs)
    BY <1>1, <1>2, <1>3, <1>4, StackTyped
  <1>6. PhaseInv'
    BY <1>1, <1>4 DEF IInv, PhaseInv, Nothing, StackOnly
  <1>7. ASSUME ~lost' PROVE NewsInv'
    <2>1. Typed /\ NewsInv /\ queue' = queue \o msgs
      BY <1>5, <1>7 DEF IInv
    <2>2. ASSUME NEW c \in Chars PROVE StopsAfter(0, c)'
      <3>1. /\ Len(queue) + 1 \in DOMAIN queue' /\ queue'[Len(queue) + 1] = m
            /\ Len(queue) + 1 > 0
        BY <1>3, <2>1, AfterPosting
      <3> QED
        BY <1>2, <3>1 DEF StopsAfter, Stops
    <2> QED
      BY <1>1, <1>4, <2>1, <2>2 DEF NewsInv, OpenInv, ArmedInv, StoppedInv, StackOnly
  <1> QED
    BY <1>5, <1>6, <1>7 DEF IInv, NewsInv

(* ------------------------- the dispatcher ------------------------------ *)

(* With nothing delivered, a subscriber keeps what it is owed.             *)
LEMMA SameQueue ==
  ASSUME UNCHANGED queue, NEW c \in Chars, NEW i \in Nat
  PROVE  /\ StopsAfter(i, c)' <=> StopsAfter(i, c)
         /\ ClosesAfter(i)' <=> ClosesAfter(i)
         /\ WillRun(c) /\ (Runs(c) => Runs(c)') => WillRun(c)'
  BY DEF StopsAfter, ClosesAfter, WillRun

LEMMA OpenSameQueue ==
  ASSUME UNCHANGED queue, OpenInv, link' => link, link' /\ current => current'
  PROVE  OpenInv'
  BY DEF OpenInv, ClosesAfter

(* Among the timers a link is open and known, if no message was lost.      *)
LEMMA TimersSettled ==
  ASSUME IInv, phase = "timers", ~lost, NEW c \in Chars, table[c]
  PROVE  current /\ queue = <<>>
  <1>1. link /\ queue = <<>>
    BY DEF IInv, PhaseInv
  <1> QED
    BY <1>1 DEF IInv, OpenInv

LEMMA EmptyQueue ==
  ASSUME queue = <<>>, NEW i \in Nat
  PROVE  ~ClosesAfter(i) /\ \A c \in Chars : ~StopsAfter(i, c) /\ (WillRun(c) <=> Runs(c))
  BY DEF ClosesAfter, StopsAfter, WillRun

LEMMA DispatchStep ==
  ASSUME IInv, Dispatch
  PROVE  IInv'
  <1>1. /\ doing = Nothing /\ out' = None
        /\ UNCHANGED <<link, table, queue, current, timer, doing, lost>>
        /\ phase' \in {"messages", "timers", "handlers"}
        /\ phase' = "timers" => queue = <<>>
    BY DEF Dispatch, Then
  <1>2. Typed'
    BY <1>1 DEF IInv, Typed, Doing
  <1>3. PhaseInv'
    BY <1>1 DEF IInv, PhaseInv, Nothing
  <1>4. NewsInv => NewsInv'
    BY <1>1 DEF NewsInv, OpenInv, ArmedInv, StoppedInv, WillRun, Runs, CccOf, StopsAfter, ClosesAfter
  <1> QED
    BY <1>1, <1>2, <1>3, <1>4 DEF IInv, NewsInv

(* ------------------------- deliveries ---------------------------------- *)

LEMMA OpenAfterDelivery ==
  ASSUME Typed, queue # <<>>, queue' = Tail(queue), OpenInv, link' => link,
         Head(queue).event = "open" => current',
         Head(queue).event # "close" /\ current => current'
  PROVE  OpenInv'
  <1> SUFFICES ASSUME link'
               PROVE  \/ current' /\ ~ClosesAfter(0)'
                      \/ \E i \in DOMAIN queue' :
                           queue'[i].event = "open" /\ ~ClosesAfter(i)'
    BY DEF OpenInv
  <1>0. /\ ClosesAfter(0)' <=> ClosesAfter(1)
        /\ ClosesAfter(0) <=> Head(queue).event = "close" \/ ClosesAfter(1)
    <2>1. /\ \A j \in DOMAIN queue : j > 1 => j - 1 \in DOMAIN queue' /\ queue'[j - 1] = queue[j]
          /\ \A j \in DOMAIN queue' : j + 1 \in DOMAIN queue /\ queue'[j] = queue[j + 1]
          /\ 1 \in DOMAIN queue /\ queue[1] = Head(queue)
          /\ DOMAIN queue \subseteq Nat /\ \A j \in DOMAIN queue : j = 1 \/ j > 1
          /\ \A j \in DOMAIN queue' : j \in Nat /\ j > 0
      BY AfterDelivery
    <2> QED
      BY <2>1 DEF ClosesAfter
  <1>1. CASE current /\ ~ClosesAfter(0)
    BY <1>0, <1>1
  <1>2. ASSUME NEW i \in DOMAIN queue, queue[i].event = "open", ~ClosesAfter(i)
        PROVE  \/ current' /\ ~ClosesAfter(0)'
               \/ \E k \in DOMAIN queue' : queue'[k].event = "open" /\ ~ClosesAfter(k)'
    <2>1. CASE i = 1
      BY <1>0, <1>2, <2>1, AfterDelivery
    <2>2. CASE i # 1
      <3>1. PICK k \in Nat : k = i - 1 /\ k \in DOMAIN queue' /\ queue'[k] = queue[i] /\ i = k + 1
        <4>1. i - 1 \in DOMAIN queue' /\ i - 1 \in Nat /\ i \in Nat
          BY <2>2, AfterDelivery
        <4>2. queue'[i - 1] = queue[(i - 1) + 1] /\ i = (i - 1) + 1
          BY <4>1, AfterDelivery
        <4> QED
          BY <4>1, <4>2
      <3>2. ~ClosesAfter(k)'
        BY <1>2, <3>1, AfterDelivery DEF ClosesAfter
      <3> QED
        BY <1>2, <3>1, <3>2
    <2> QED
      BY <2>1, <2>2
  <1> QED
    BY <1>1, <1>2 DEF OpenInv

LEMMA WillRunDelivery ==
  ASSUME Typed, queue # <<>>, queue' = Tail(queue), NEW c \in Chars, WillRun(c),
         Runs(c) /\ ~Stops(Head(queue), c) => Runs(c)',
         Starts(Head(queue), c) => Runs(c)'
  PROVE  WillRun(c)'
  <1>1. CASE Runs(c) /\ ~StopsAfter(0, c)
    <2>1. ~Stops(Head(queue), c) /\ ~StopsAfter(0, c)'
      BY <1>1, StopsAfterDelivery
    <2> QED
      BY <1>1, <2>1 DEF WillRun
  <1>2. ASSUME NEW i \in DOMAIN queue, Starts(queue[i], c), ~StopsAfter(i, c)
        PROVE  WillRun(c)'
    <2>1. CASE i = 1
      <3>1. Runs(c)' /\ ~StopsAfter(0, c)'
        BY <1>2, <2>1, AfterDelivery, StopsAfterDelivery
      <3> QED
        BY <3>1 DEF WillRun
    <2>2. CASE i # 1
      <3>1. PICK k \in Nat : k = i - 1 /\ k \in DOMAIN queue' /\ queue'[k] = queue[i] /\ i = k + 1
        <4>1. i - 1 \in DOMAIN queue' /\ i - 1 \in Nat /\ i \in Nat
          BY <2>2, AfterDelivery
        <4>2. queue'[i - 1] = queue[(i - 1) + 1] /\ i = (i - 1) + 1
          BY <4>1, AfterDelivery
        <4> QED
          BY <4>1, <4>2
      <3>2. ~StopsAfter(k, c)'
        BY <1>2, <3>1, StopsAfterDelivery
      <3> QED
        BY <1>2, <3>1, <3>2 DEF WillRun, Starts
    <2> QED
      BY <2>1, <2>2
  <1> QED
    BY <1>1, <1>2 DEF WillRun

(* What a delivery leaves alone, and what it finds.                        *)
LEMMA Delivered ==
  ASSUME IInv, NEW event \in {"open", "close", "ccc"}, Deliver(event)
  PROVE  /\ Typed /\ queue # <<>> /\ queue' = Tail(queue) /\ phase = "messages" /\ phase' = phase
         /\ doing = Nothing /\ (\A c \in Chars : ~CccOf(c) /\ (Runs(c) <=> timer[c]))
         /\ UNCHANGED <<link, table, lost>> /\ out' = None
         /\ Head(queue) \in Message /\ Named(Head(queue)) /\ Head(queue).event = event
         /\ queue' \in Seq(Message) /\ Len(queue') <= Pool
         /\ \A i \in DOMAIN queue' : Named(queue'[i])
  <1>1. /\ Typed /\ queue # <<>> /\ queue' = Tail(queue) /\ phase = "messages" /\ phase' = phase
        /\ doing = Nothing /\ Head(queue).event = event
        /\ UNCHANGED <<link, table, lost>> /\ out' = None
    BY DEF IInv, Deliver
  <1>2. /\ Head(queue) \in Message /\ Named(Head(queue))
        /\ queue' \in Seq(Message) /\ Len(queue') <= Pool
        /\ \A i \in DOMAIN queue' : Named(queue'[i])
    BY <1>1, AfterDelivery
  <1>3. \A c \in Chars : ~CccOf(c) /\ (Runs(c) <=> timer[c])
    BY <1>1 DEF CccOf, Runs, Nothing
  <1> QED
    BY <1>1, <1>2, <1>3

LEMMA ConnOpenStep ==
  ASSUME IInv, ConnOpen
  PROVE  IInv'
  <1>1. Deliver("open") /\ current' = TRUE /\ UNCHANGED <<timer, doing>>
    BY DEF ConnOpen
  <1>2. /\ Typed /\ queue # <<>> /\ queue' = Tail(queue) /\ phase = "messages" /\ phase' = phase
        /\ doing = Nothing /\ (\A c \in Chars : ~CccOf(c) /\ (Runs(c) <=> timer[c]))
        /\ UNCHANGED <<link, table, lost>> /\ out' = None /\ Head(queue).event = "open"
        /\ queue' \in Seq(Message) /\ Len(queue') <= Pool
        /\ \A i \in DOMAIN queue' : Named(queue'[i])
    BY <1>1, Delivered
  <1>3. Typed' /\ PhaseInv'
    BY <1>1, <1>2 DEF IInv, Typed, PhaseInv
  <1>4. \A c \in Chars : (Runs(c)' <=> timer[c]) /\ ~CccOf(c)'
    BY <1>1, <1>2 DEF Runs, CccOf, Nothing
  <1>5. \A c \in Chars : ~Stops(Head(queue), c) /\ ~Starts(Head(queue), c)
    BY <1>2 DEF Stops, Starts
  <1>6. ASSUME NewsInv PROVE NewsInv'
    <2>1. OpenInv'
      BY <1>1, <1>2, <1>6, OpenAfterDelivery DEF NewsInv
    <2>2. ASSUME NEW c \in Chars \ Async, table'[c] PROVE WillRun(c)'
      <3>1. WillRun(c)
        BY <1>2, <1>6, <2>2 DEF NewsInv, ArmedInv
      <3> QED
        BY <1>2, <1>4, <1>5, <3>1, WillRunDelivery
    <2>3. ASSUME NEW c \in Chars, timer'[c]
          PROVE  c \notin Async /\ (table'[c] \/ StopsAfter(0, c)')
      <3>1. c \notin Async /\ (table[c] \/ StopsAfter(0, c))
        BY <1>1, <1>2, <1>6, <2>3 DEF NewsInv, StoppedInv
      <3>2. StopsAfter(0, c) => StopsAfter(0, c)'
        BY <1>2, <1>5, StopsAfterDelivery
      <3> QED
        BY <1>2, <3>1, <3>2
    <2> QED
      BY <2>1, <2>2, <2>3 DEF NewsInv, ArmedInv, StoppedInv
  <1> QED
    BY <1>2, <1>3, <1>6 DEF IInv, NewsInv

LEMMA ConnCloseStep ==
  ASSUME IInv, ConnClose
  PROVE  IInv'
  <1>1. Deliver("close") /\ timer' = NoneOf /\ current' = FALSE /\ UNCHANGED doing
    BY DEF ConnClose
  <1>2. /\ Typed /\ queue # <<>> /\ queue' = Tail(queue) /\ phase = "messages" /\ phase' = phase
        /\ doing = Nothing /\ UNCHANGED <<link, table, lost>> /\ out' = None
        /\ Head(queue).event = "close"
        /\ queue' \in Seq(Message) /\ Len(queue') <= Pool
        /\ \A i \in DOMAIN queue' : Named(queue'[i])
    BY <1>1, Delivered
  <1>3. timer' \in [Chars -> BOOLEAN] /\ \A c \in Chars : ~timer'[c]
    BY <1>1 DEF NoneOf
  <1>4. Typed' /\ PhaseInv'
    BY <1>1, <1>2, <1>3 DEF IInv, Typed, PhaseInv
  <1>5. \A c \in Chars : Stops(Head(queue), c) /\ ~Starts(Head(queue), c)
    BY <1>2 DEF Stops, Starts
  <1>6. ASSUME NewsInv PROVE NewsInv'
    <2>1. OpenInv'
      BY <1>1, <1>2, <1>6, OpenAfterDelivery DEF NewsInv
    <2>2. ASSUME NEW c \in Chars \ Async, table'[c] PROVE WillRun(c)'
      <3>1. WillRun(c)
        BY <1>2, <1>6, <2>2 DEF NewsInv, ArmedInv
      <3> QED
        BY <1>2, <1>5, <3>1, WillRunDelivery
    <2> QED
      BY <1>3, <2>1, <2>2 DEF NewsInv, ArmedInv, StoppedInv
  <1> QED
    BY <1>2, <1>4, <1>6 DEF IInv, NewsInv

LEMMA CccStateStep ==
  ASSUME IInv, CccState
  PROVE  IInv'
  <1> DEFINE m == Head(queue)
  <1>1. /\ Deliver("ccc") /\ UNCHANGED <<current, timer>>
        /\ doing' = [kind |-> "ccc", c |-> m.c, value |-> m.value, conn |-> current]
    BY DEF CccState
  <1>2. /\ Typed /\ queue # <<>> /\ queue' = Tail(queue) /\ phase = "messages" /\ phase' = phase
        /\ (\A c \in Chars : ~CccOf(c) /\ (Runs(c) <=> timer[c]))
        /\ UNCHANGED <<link, table, lost>> /\ out' = None
        /\ m \in Message /\ Named(m) /\ m.event = "ccc"
        /\ queue' \in Seq(Message) /\ Len(queue') <= Pool
        /\ \A i \in DOMAIN queue' : Named(queue'[i])
    BY <1>1, Delivered
  <1>3. m.c \in Chars /\ m.c # None /\ m.value \in BOOLEAN /\ current \in BOOLEAN
    BY <1>2, BleAssumption DEF Named, Message, Typed
  <1>4. doing' \in Doing /\ doing'.kind = "ccc" /\ doing'.c = m.c
        /\ doing'.value = m.value /\ doing'.conn = current'
    BY <1>1, <1>3 DEF Doing
  <1>5. Typed'
    BY <1>1, <1>2, <1>3, <1>4 DEF Typed
  <1>6. PhaseInv'
    BY <1>2, <1>4 DEF IInv, PhaseInv
  <1>7. ASSUME NEW c \in Chars
        PROVE  /\ Runs(c) /\ ~Stops(m, c) => Runs(c)'
               /\ Starts(m, c) => Runs(c)'
               /\ CccOf(c)' <=> m.c = c
               /\ Stops(m, c) => m.c = c
    <2>1. CccOf(c)' <=> m.c = c
      BY <1>4 DEF CccOf
    <2>2. Starts(m, c) => Runs(c)'
      BY <1>4, <2>1 DEF Starts, Runs
    <2>3. Runs(c) /\ ~Stops(m, c) => Runs(c)'
      BY <1>1, <1>2, <2>1, <2>2 DEF Starts, Stops, Runs
    <2> QED
      BY <1>2, <2>1, <2>2, <2>3 DEF Stops
  <1> HIDE DEF m
  <1>8. ASSUME NewsInv PROVE NewsInv'
    <2>1. OpenInv'
      BY <1>1, <1>2, <1>8, OpenAfterDelivery DEF NewsInv, m
    <2>2. ASSUME NEW c \in Chars \ Async, table'[c] PROVE WillRun(c)'
      <3>1. WillRun(c)
        BY <1>2, <1>8, <2>2 DEF NewsInv, ArmedInv
      <3> QED
        BY <1>2, <1>7, <3>1, WillRunDelivery DEF m
    <2>3. ASSUME NEW c \in Chars, timer'[c]
          PROVE  c \notin Async /\ (table'[c] \/ StopsAfter(0, c)' \/ CccOf(c)')
      <3>1. c \notin Async /\ (table[c] \/ StopsAfter(0, c))
        BY <1>1, <1>2, <1>8, <2>3 DEF NewsInv, StoppedInv
      <3>2. StopsAfter(0, c) => StopsAfter(0, c)' \/ m.c = c
        BY <1>2, <1>7, StopsAfterDelivery DEF m
      <3> QED
        BY <1>2, <1>7, <3>1, <3>2
    <2> QED
      BY <2>1, <2>2, <2>3 DEF NewsInv, ArmedInv, StoppedInv
  <1> QED
    BY <1>2, <1>5, <1>6, <1>8 DEF IInv, NewsInv

(* ------------------------- callbacks ----------------------------------- *)

(* A step inside or between callbacks that delivers nothing: what is left  *)
(* to show of it is what it does to each timer.                            *)
LEMMA QuietStep ==
  ASSUME Typed, UNCHANGED queue, NewsInv, link' => link, link' /\ current => current',
         \A c \in Chars : table'[c] => table[c],
         \A c \in Chars \ Async : table'[c] /\ Runs(c) => Runs(c)',
         \A c \in Chars : timer'[c] => /\ c \notin Async
                                      /\ \/ table'[c]
                                         \/ timer[c] /\ ~table[c] /\ (CccOf(c) => CccOf(c)')
  PROVE  NewsInv'
  <1>1. OpenInv'
    BY OpenSameQueue DEF NewsInv
  <1>2. ASSUME NEW c \in Chars \ Async, table'[c] PROVE WillRun(c)'
    <2>1. WillRun(c) /\ (Runs(c) => Runs(c)')
      BY <1>2 DEF NewsInv, ArmedInv
    <2> QED
      BY <2>1, SameQueue
  <1>3. ASSUME NEW c \in Chars, timer'[c]
        PROVE  c \notin Async /\ (table'[c] \/ StopsAfter(0, c)' \/ CccOf(c)')
    <2>1. CASE table'[c]
      BY <1>3, <2>1
    <2>2. CASE ~table'[c]
      <3>1. c \notin Async /\ timer[c] /\ ~table[c] /\ (CccOf(c) => CccOf(c)')
        BY <1>3, <2>2
      <3>2. StopsAfter(0, c) \/ CccOf(c)
        BY <3>1 DEF NewsInv, StoppedInv
      <3> QED
        BY <3>1, <3>2, SameQueue
    <2> QED
      BY <2>1, <2>2
  <1> QED
    BY <1>1, <1>2, <1>3 DEF NewsInv, ArmedInv, StoppedInv

(* Starting or stopping one timer leaves the others.                       *)
LEMMA TimerUpdate ==
  ASSUME Typed, NEW d \in Chars
  PROVE  /\ Started(d) \in [Chars -> BOOLEAN] /\ Stopped(d) \in [Chars -> BOOLEAN]
         /\ Started(d)[d] /\ ~Stopped(d)[d]
         /\ \A c \in Chars \ {d} : Started(d)[c] = timer[c] /\ Stopped(d)[c] = timer[c]
  BY DEF Typed, Started, Stopped

LEMMA CccReturnsStep ==
  ASSUME IInv, CccReturns
  PROVE  IInv'
  <1> DEFINE d == doing.c
  <1>1. /\ doing.kind = "ccc" /\ doing' = Nothing /\ out' = None
        /\ UNCHANGED <<link, table, queue, phase, current, lost>>
        /\ timer' = IF MayArm(doing) THEN Started(d) ELSE Stopped(d)
    BY DEF CccReturns
  <1>2. Typed /\ d \in Chars
    BY <1>1 DEF IInv, Typed, Doing
  <1>3. /\ timer' \in [Chars -> BOOLEAN]
        /\ timer'[d] <=> MayArm(doing)
        /\ \A c \in Chars \ {d} : timer'[c] = timer[c]
    <2>1. CASE MayArm(doing)
      BY <1>1, <1>2, <2>1, TimerUpdate
    <2>2. CASE ~MayArm(doing)
      BY <1>1, <1>2, <2>2, TimerUpdate
    <2> QED
      BY <2>1, <2>2
  <1>4. Typed' /\ PhaseInv'
    BY <1>1, <1>3 DEF IInv, Typed, PhaseInv, Doing, Nothing
  <1>5. \A c \in Chars : (Runs(c)' <=> timer'[c]) /\ (c # d => ~CccOf(c))
    BY <1>1 DEF Runs, CccOf, Nothing
  <1>6. ASSUME NewsInv PROVE NewsInv'
    <2>1. ASSUME NEW c \in Chars \ Async, table'[c], Runs(c) PROVE Runs(c)'
      <3>1. CASE c = d
        <4>1. doing.value /\ doing.conn = current
          BY <1>1, <2>1, <3>1 DEF Runs, CccOf
        <4>2. MayArm(doing)
          BY <1>1, <2>1, <3>1, <4>1 DEF MayArm
        <4> QED
          BY <1>3, <1>5, <3>1, <4>2
      <3>2. CASE c # d
        BY <1>1, <1>3, <1>5, <2>1, <3>2 DEF Runs
      <3> QED
        BY <3>1, <3>2
    <2>2. ASSUME NEW c \in Chars, timer'[c]
          PROVE  /\ c \notin Async
                 /\ \/ table'[c]
                    \/ timer[c] /\ ~table[c] /\ (CccOf(c) => CccOf(c)')
      <3>1. CASE c = d
        BY <1>1, <1>3, <2>2, <3>1 DEF MayArm
      <3>2. CASE c # d
        BY <1>1, <1>2, <1>3, <1>5, <1>6, <2>2, <3>2 DEF NewsInv, StoppedInv, Typed
      <3> QED
        BY <3>1, <3>2
    <2> QED
      BY <1>1, <1>2, <1>6, <2>1, <2>2, QuietStep
  <1> QED
    BY <1>1, <1>4, <1>6 DEF IInv, NewsInv

LEMMA NotifyReturnsStep ==
  ASSUME IInv, NotifyReturns
  PROVE  IInv'
  <1> DEFINE d == doing.c
  <1>1. /\ doing.kind = "notify" /\ doing' = Nothing
        /\ UNCHANGED <<link, table, queue, phase, current, lost>>
        /\ StillWanted(doing) => Sends(d) /\ timer' = Started(d)
        /\ ~StillWanted(doing) => out' = None /\ timer' = Stopped(d)
    BY DEF NotifyReturns, Restarted
  <1>2. Typed /\ d \in Chars /\ d \notin Async /\ doing.conn /\ phase = "timers"
    BY <1>1 DEF IInv, Typed, Doing, PhaseInv
  <1>3. /\ timer' \in [Chars -> BOOLEAN]
        /\ timer'[d] <=> StillWanted(doing)
        /\ \A c \in Chars \ {d} : timer'[c] = timer[c]
    <2>1. CASE StillWanted(doing)
      BY <1>1, <1>2, <2>1, TimerUpdate
    <2>2. CASE ~StillWanted(doing)
      BY <1>1, <1>2, <2>2, TimerUpdate
    <2> QED
      BY <2>1, <2>2
  <1>4. out' \in Chars \cup {None}
    BY <1>1, <1>2 DEF Sends
  <1>5. Typed' /\ PhaseInv'
    BY <1>1, <1>3, <1>4 DEF IInv, Typed, PhaseInv, Doing, Nothing
  <1>6. \A c \in Chars : (Runs(c)' <=> timer'[c]) /\ ~CccOf(c)
    BY <1>1 DEF Runs, CccOf, Nothing
  <1>7. ASSUME ~lost PROVE NewsInv'
    <2>0. NewsInv
      BY <1>7 DEF IInv, NewsInv
    <2>1. ASSUME NEW c \in Chars \ Async, table'[c], Runs(c) PROVE Runs(c)'
      <3>1. CASE c = d
        <4>1. current /\ table[d]
          BY <1>1, <1>2, <1>7, <2>1, <3>1, TimersSettled
        <4>2. StillWanted(doing)
          BY <1>2, <4>1 DEF StillWanted, Subscribed, IInv, Typed, Doing
        <4> QED
          BY <1>3, <1>6, <3>1, <4>2
      <3>2. CASE c # d
        BY <1>1, <1>3, <1>6, <2>1, <3>2 DEF Runs
      <3> QED
        BY <3>1, <3>2
    <2>2. ASSUME NEW c \in Chars, timer'[c]
          PROVE  /\ c \notin Async
                 /\ \/ table'[c]
                    \/ timer[c] /\ ~table[c] /\ (CccOf(c) => CccOf(c)')
      <3>1. CASE c = d
        BY <1>1, <1>2, <1>3, <2>2, <3>1 DEF StillWanted, Subscribed
      <3>2. CASE c # d
        BY <1>1, <1>2, <1>3, <1>6, <2>0, <2>2, <3>2 DEF NewsInv, StoppedInv, Typed
      <3> QED
        BY <3>1, <3>2
    <2> QED
      BY <1>1, <1>2, <2>0, <2>1, <2>2, QuietStep
  <1> QED
    BY <1>1, <1>5, <1>7 DEF IInv, NewsInv

LEMMA ExpireStep ==
  ASSUME IInv, NEW d \in Chars, Expire(d)
  PROVE  IInv'
  <1>1. /\ phase = "timers" /\ doing = Nothing /\ timer[d] /\ timer' = Stopped(d) /\ out' = None
        /\ UNCHANGED <<link, table, queue, phase, current, lost>>
    BY DEF Expire
  <1>2. \/ (d \in Async \/ ~Subscribed(d)) /\ doing' = Nothing
        \/ /\ d \notin Async /\ Subscribed(d)
           /\ doing' = [kind |-> "notify", c |-> d, value |-> FALSE, conn |-> current]
    BY DEF Expire, Nothing
  <1>3. Typed /\ timer' \in [Chars -> BOOLEAN] /\ ~timer'[d]
        /\ \A c \in Chars \ {d} : timer'[c] = timer[c]
    BY <1>1, TimerUpdate DEF IInv
  <1>4. doing' \in Doing /\ (doing'.kind = "none" <=> doing'.c = None) /\ doing'.kind # "ccc"
        /\ (doing'.kind = "none" => doing' = Nothing)
        /\ (doing'.kind = "notify" => doing'.c = d /\ doing'.conn /\ d \notin Async)
    <2>1. d # None /\ current \in BOOLEAN
      BY <1>3, BleAssumption DEF Typed
    <2>2. CASE doing' = Nothing
      BY <2>2 DEF Doing, Nothing
    <2>3. CASE /\ d \notin Async /\ current
               /\ doing' = [kind |-> "notify", c |-> d, value |-> FALSE, conn |-> current]
      BY <2>1, <2>3 DEF Doing
    <2> QED
      BY <1>2, <2>2, <2>3 DEF Subscribed
  <1>5. Typed' /\ PhaseInv'
    BY <1>1, <1>3, <1>4 DEF IInv, Typed, PhaseInv
  <1>6. ASSUME ~lost PROVE NewsInv'
    <2>1. NewsInv
      BY <1>6 DEF IInv, NewsInv
    <2>2. ASSUME NEW c \in Chars \ Async, table'[c], Runs(c) PROVE Runs(c)'
      <3>1. CASE c = d
        <4>1. Subscribed(d)
          BY <1>1, <1>6, <2>2, <3>1, TimersSettled DEF Subscribed
        <4>2. doing' = [kind |-> "notify", c |-> d, value |-> FALSE, conn |-> current]
          BY <1>2, <2>2, <3>1, <4>1
        <4> QED
          BY <3>1, <4>2 DEF Runs
      <3>2. CASE c # d
        BY <1>1, <1>3, <1>4, <2>2, <3>2 DEF Runs, CccOf, Nothing
      <3> QED
        BY <3>1, <3>2
    <2>3. ASSUME NEW c \in Chars, timer'[c]
          PROVE  /\ c \notin Async
                 /\ \/ table'[c]
                    \/ timer[c] /\ ~table[c] /\ (CccOf(c) => CccOf(c)')
      <3>1. c # d /\ timer[c] /\ ~CccOf(c)
        BY <1>1, <1>3, <2>3 DEF CccOf, Nothing
      <3> QED
        BY <1>1, <1>3, <2>1, <3>1 DEF NewsInv, StoppedInv, Typed
    <2> QED
      BY <1>1, <1>3, <2>1, <2>2, <2>3, QuietStep
  <1> QED
    BY <1>1, <1>5, <1>6 DEF IInv, NewsInv

LEMMA UnsubscribesStep ==
  ASSUME IInv, NEW d \in Chars, CallbackUnsubscribes(d)
  PROVE  IInv'
  <1>1. /\ table' = [table EXCEPT ![d] = FALSE] /\ timer' = Stopped(d) /\ out' = None
        /\ UNCHANGED <<link, queue, phase, current, doing, lost>>
    BY DEF CallbackUnsubscribes
  <1>2. Typed /\ timer' \in [Chars -> BOOLEAN] /\ ~timer'[d]
        /\ (\A c \in Chars \ {d} : timer'[c] = timer[c])
        /\ table' \in [Chars -> BOOLEAN] /\ ~table'[d]
        /\ \A c \in Chars \ {d} : table'[c] = table[c]
    BY <1>1, TimerUpdate DEF IInv, Typed
  <1>3. Typed' /\ PhaseInv'
    BY <1>1, <1>2 DEF IInv, Typed, PhaseInv, Nothing
  <1>4. \A c \in Chars : (CccOf(c)' <=> CccOf(c)) /\ (c # d => (Runs(c)' <=> Runs(c)))
    BY <1>1, <1>2 DEF CccOf, Runs
  <1>5. ASSUME NewsInv PROVE NewsInv'
    <2>1. ASSUME NEW c \in Chars, timer'[c]
          PROVE  /\ c \notin Async
                 /\ \/ table'[c]
                    \/ timer[c] /\ ~table[c] /\ (CccOf(c) => CccOf(c)')
      BY <1>2, <1>4, <1>5, <2>1 DEF NewsInv, StoppedInv, Typed
    <2> QED
      BY <1>1, <1>2, <1>4, <1>5, <2>1, QuietStep
  <1> QED
    BY <1>1, <1>3, <1>5 DEF IInv, NewsInv

LEMMA DisconnectsStep ==
  ASSUME IInv, CallbackDisconnects
  PROVE  IInv'
  <1>1. /\ link' = FALSE /\ table' = NoneOf /\ timer' = NoneOf /\ current' = FALSE /\ out' = None
        /\ UNCHANGED <<queue, phase, doing, lost>>
    BY DEF CallbackDisconnects
  <1>2. NoneOf \in [Chars -> BOOLEAN] /\ \A c \in Chars : ~NoneOf[c]
    BY DEF NoneOf
  <1>3. Typed' /\ PhaseInv'
    BY <1>1, <1>2 DEF IInv, Typed, PhaseInv, Nothing
  <1>4. NewsInv'
    BY <1>1, <1>2 DEF NewsInv, OpenInv, ArmedInv, StoppedInv
  <1> QED
    BY <1>3, <1>4 DEF IInv, NewsInv

LEMMA SendsStep ==
  ASSUME IInv, UNCHANGED <<link, table, queue, phase, current, timer, doing, lost>>,
         out' \in Chars \cup {None}
  PROVE  IInv'
  <1>1. Typed' /\ PhaseInv'
    BY DEF IInv, Typed, PhaseInv, Nothing
  <1>2. NewsInv => NewsInv'
    BY DEF NewsInv, OpenInv, ArmedInv, StoppedInv, WillRun, Runs, CccOf, StopsAfter, ClosesAfter
  <1> QED
    BY <1>1, <1>2 DEF IInv, NewsInv

(* ------------------------- theorems ------------------------------------ *)

LEMMA InvInit ==
  ASSUME BleInit
  PROVE  IInv
  <1>1. Typed
    <2>1. NoneOf \in [Chars -> BOOLEAN] /\ Nothing \in Doing
      BY DEF NoneOf, Nothing, Doing
    <2>2. queue \in Seq(Message) /\ Len(queue) <= Pool /\ \A i \in DOMAIN queue : Named(queue[i])
      <3>1. queue = <<>>
        BY DEF BleInit
      <3> QED
        BY <3>1, BleAssumption
    <2> QED
      BY <2>1, <2>2 DEF BleInit, Typed, Nothing
  <1>2. PhaseInv
    BY DEF BleInit, PhaseInv, Nothing, NoneOf
  <1>3. NewsInv
    BY DEF BleInit, NewsInv, OpenInv, ArmedInv, StoppedInv, NoneOf
  <1> QED
    BY <1>1, <1>2, <1>3 DEF IInv, NewsInv

LEMMA InvStep ==
  ASSUME IInv, [Next]_vars
  PROVE  IInv'
  <1>1. CASE Stack
    BY <1>1, ConnectsStep, WritesStep, ClosesStep DEF Stack
  <1>2. CASE Dispatch
    BY <1>2, DispatchStep
  <1>3. CASE Wrapper
    BY <1>3, ConnOpenStep, ConnCloseStep, CccStateStep, CccReturnsStep, NotifyReturnsStep
       DEF Wrapper
  <1>4. CASE Callbacks
    BY <1>4, UnsubscribesStep, DisconnectsStep DEF Callbacks
  <1>5. ASSUME NEW c \in Chars, Expire(c) PROVE IInv'
    BY <1>5, ExpireStep
  <1>6. ASSUME NEW c \in Chars, AppSends(c) PROVE IInv'
    <2>1. out' \in Chars \cup {None}
      BY <1>6 DEF AppSends, Sends
    <2> QED
      BY <1>6, <2>1, SendsStep DEF AppSends
  <1>7. CASE UNCHANGED vars
    <2>1. out' \in Chars \cup {None}
      BY <1>7 DEF vars, IInv, Typed
    <2> QED
      BY <1>7, <2>1, SendsStep DEF vars
  <1> QED
    BY <1>1, <1>2, <1>3, <1>4, <1>5, <1>6, <1>7 DEF Next

(* The invariant holds: read to its end, the queue makes up for every      *)
(* difference between the stack's table and the wrapper's timers.          *)
THEOREM NewsMakesUp == BleSpec => []IInv
  <1>1. BleInit => IInv
    BY InvInit
  <1>2. IInv /\ [Next]_vars => IInv'
    BY InvStep
  <1> QED
    BY <1>1, <1>2, PTL DEF BleSpec

(* The queue never exceeds the buffers WSF has, and a callback is under    *)
(* way for a characteristic exactly when there is one.                     *)
THEOREM TypeCorrect == BleSpec => []TypeOK
  <1>1. IInv => TypeOK
    <2> SUFFICES ASSUME Typed PROVE TypeOK
      BY DEF IInv
    <2>1. ASSUME NEW i \in DOMAIN queue
          PROVE  /\ queue[i].event \in {"open", "close", "ccc"}
                 /\ queue[i].event = "ccc" <=> queue[i].c \in Chars
      <3>1. queue[i] \in Message
        BY LenProperties, ElementOfSeq DEF Typed
      <3> QED
        BY <3>1 DEF Typed, Named, Message
    <2>2. doing.kind \in {"none", "ccc", "notify"}
      BY DEF Typed, Doing
    <2> QED
      BY <2>1, <2>2 DEF Typed, TypeOK
  <1> QED
    BY <1>1, NewsMakesUp, PTL

(* For any characteristics and any number of buffers: once all news is     *)
(* delivered, a timer runs exactly for each periodic characteristic the    *)
(* connected client is subscribed to (ns_ble.c:1081-1085, 1103-1127).      *)
THEOREM TimersMatch == BleSpec => []TimerMatchesSubscription
  <1>1. ASSUME IInv PROVE TimerMatchesSubscription
    <2> SUFFICES ASSUME queue = <<>>, doing = Nothing, ~lost, NEW c \in Chars
                 PROVE  timer[c] <=> Subscribed(c) /\ c \notin Async
      BY DEF TimerMatchesSubscription
    <2>1. OpenInv /\ ArmedInv /\ StoppedInv /\ PhaseInv
      BY <1>1 DEF IInv
    <2>2. ~CccOf(c) /\ (Runs(c) <=> timer[c])
      BY DEF CccOf, Runs, Nothing
    <2>3. ~StopsAfter(0, c) /\ ~ClosesAfter(0) /\ (WillRun(c) <=> Runs(c))
      BY EmptyQueue
    <2>4. Subscribed(c) /\ c \notin Async => timer[c]
      BY <2>1, <2>2, <2>3 DEF ArmedInv, Subscribed
    <2>5. ASSUME timer[c] PROVE Subscribed(c) /\ c \notin Async
      <3>1. c \notin Async /\ table[c]
        BY <2>1, <2>2, <2>3, <2>5 DEF StoppedInv
      <3>2. link
        BY <2>1, <3>1 DEF PhaseInv
      <3>3. current
        BY <2>1, <3>2 DEF OpenInv
      <3> QED
        BY <3>1, <3>3 DEF Subscribed
    <2> QED
      BY <2>4, <2>5, <1>1 DEF IInv, Typed, Subscribed
  <1> QED
    BY <1>1, NewsMakesUp, PTL
=============================================================================
