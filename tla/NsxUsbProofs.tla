---------------------------- MODULE NsxUsbProofs ----------------------------
(***************************************************************************)
(* The safety properties of NsxUsb, for any FIFO sizes, timeout and        *)
(* transfer length.                                                        *)
(*                                                                         *)
(* GuardInv is why a counter that is no lock keeps TinyUSB's users apart:  *)
(* the depth is the number of its holders, and the value the task has      *)
(* loaded is still right when it stores it, because a timer interrupt that *)
(* splits its ++ finds the guard free and has left it so, and one that     *)
(* splits its -- finds it held and does nothing.  JobInv is the account of *)
(* a transfer at each place of its loop.                                   *)
(***************************************************************************)
EXTENDS NsxUsb, TLAPS

TaskPlaces == {"idle", "loop", "load", "store", "guarded", "service", "tud_task",
               "after", "unload", "unstore", "return"}
IsrPlaces == {"idle", "service", "tud_task", "after", "vendor", "leave"}
Callbacks == Itf \cup {"none", "nested", "tud_task", "reading"}

RunTyped ==
  /\ run \in [Contexts -> [place : TaskPlaces \cup IsrPlaces, cb : Callbacks]]
  /\ run["task"].place \in TaskPlaces /\ run["isr"].place \in IsrPlaces
  /\ depth \in Nat /\ reg \in Nat /\ up \in BOOLEAN

Nested(x) == IF run[x].cb \in {"nested", "reading"} THEN 1 ELSE 0

GuardInv ==
  /\ run["task"].cb # "none" => run["task"].place = "tud_task"
  /\ run["isr"].cb # "none" => run["isr"].place \in {"tud_task", "vendor", "leave"}
  /\ run["task"].cb # "tud_task" /\ run["isr"].cb # "tud_task"
  /\ run["isr"].place = "idle" => depth = (IF TaskHolds THEN 1 ELSE 0) + Nested("task")
  /\ run["isr"].place # "idle" =>
       depth = 1 + Nested("isr") /\ ~TaskHolds /\ run["task"].cb = "none"
  /\ reg = IF run["task"].place = "unstore" THEN 1 ELSE 0

JobSet == [call : {"none", "send", "receive", "read_nb", "flush_rx", "write_available"},
           itf : Itf, section : {"none", "write", "ask", "read", "flush", "discard", "room"},
           len : Nat, done : Nat, want : Nat, waits : Nat]

Blocking == job.call \in {"send", "receive"}

(* The places of a section up to where it moves bytes. *)
Unmoved ==
  IF job.section = "read"
    THEN {"load", "store", "guarded", "service", "tud_task", "after"}
    ELSE {"load", "store", "guarded"}

JobInv ==
  /\ job \in JobSet /\ took \in Nat
  /\ job.len <= MaxLen /\ job.want <= job.len /\ job.done <= job.len
  /\ job.waits <= Timeout /\ took <= MaxLen
  /\ run["task"].place \in {"loop", "return"} => Blocking
  /\ run["task"].place = "loop" => job.section \in {"write", "ask"}
  /\ job.call = "none" => job.section = "none"
  /\ job.call = "send" => job.section \in {"write", "flush"}
  /\ job.call = "receive" => job.section \in {"ask", "read"}
  /\ job.call = "read_nb" => job.section = "read" /\ job.done = 0
  /\ job.call = "flush_rx" => job.section = "discard"
  /\ job.call = "write_available" => job.section = "room"
  /\ ~Blocking /\ run["task"].place \in Unmoved => took = 0
  /\ Blocking => job.len > 0
  /\ Blocking /\ run["task"].place \in {"loop", "return"} => took = job.done
  /\ Blocking /\ job.section = "flush" => took = job.done /\ Over
  /\ run["task"].place = "return" => Over
  /\ Blocking /\ run["task"].place \notin {"idle", "loop", "return"} /\ job.section # "flush" =>
       /\ job.done < job.len /\ job.waits < Timeout
       /\ took = IF run["task"].place \in Unmoved \/ job.section = "ask"
                   THEN job.done ELSE job.done + job.want
       /\ ~(job.section \in {"write", "ask"} /\ run["task"].place \in {"load", "store", "guarded"})
            => job.want <= job.len - job.done

FifoInv ==
  /\ ready \in [Itf -> BOOLEAN] /\ rx \in [Itf -> Nat] /\ tx \in [Itf -> Nat]
  /\ \A i \in Itf : rx[i] <= Room[i] /\ tx[i] <= Room[i]

IInv == RunTyped /\ GuardInv /\ JobInv /\ FifoInv

-----------------------------------------------------------------------------
USE UsbAssumption

LEMMA RoomTyped == \A i \in Itf : Room[i] \in Nat \ {0}
  BY DEF Itf

LEMMA ServiceIInv ==
  ASSUME NEW x \in Contexts, IInv, Service(x) PROVE IInv'
<1> USE DEF IInv, Service, At, Running, Goto, Outermost, caller, fifos
<1>1. RunTyped'
  BY DEF RunTyped, TaskPlaces, IsrPlaces, Callbacks, Contexts, Itf
<1>2. GuardInv'
  BY <1>1 DEF GuardInv, TaskHolds, Nested, RunTyped, TaskPlaces, IsrPlaces, Callbacks, Contexts, Itf
<1>3. JobInv'
  BY <1>1 DEF JobInv, JobSet, Blocking, Unmoved, Over, RunTyped, TaskPlaces, IsrPlaces, Callbacks, Contexts, Itf
<1>4. FifoInv'
  BY DEF FifoInv, Itf
<1>5. QED
  BY <1>1, <1>2, <1>3, <1>4

LEMMA DispatchIInv ==
  ASSUME NEW x \in Contexts, NEW i \in Itf, IInv, Dispatch(x, i) PROVE IInv'
<1> USE DEF IInv, Dispatch, At, Running, caller, fifos
<1>1. RunTyped'
  BY DEF RunTyped, TaskPlaces, IsrPlaces, Callbacks, Contexts, Itf
<1>2. GuardInv'
  BY <1>1 DEF GuardInv, TaskHolds, Nested, RunTyped, TaskPlaces, IsrPlaces, Callbacks, Contexts, Itf
<1>3. JobInv'
  BY <1>1 DEF JobInv, JobSet, Blocking, Unmoved, Over, RunTyped, TaskPlaces, IsrPlaces, Callbacks, Contexts, Itf
<1>4. FifoInv'
  <2>1. rx[i] \in Nat /\ Room[i] \in Nat /\ rx'[i] \in Nat /\ rx'[i] <= Room[i]
    BY RoomTyped DEF FifoInv
  <2>2. rx' \in [Itf -> Nat] /\ \A k \in Itf \ {i} : rx'[k] = rx[k]
    BY <2>1 DEF FifoInv
  <2>3. QED
    BY <2>1, <2>2 DEF FifoInv
<1>5. QED
  BY <1>1, <1>2, <1>3, <1>4

LEMMA TaskReturnsIInv ==
  ASSUME NEW x \in Contexts, IInv, TaskReturns(x) PROVE IInv'
<1> USE DEF IInv, TaskReturns, At, Running, Goto, caller, fifos
<1>1. RunTyped'
  BY DEF RunTyped, TaskPlaces, IsrPlaces, Callbacks, Contexts, Itf
<1>2. GuardInv'
  BY <1>1 DEF GuardInv, TaskHolds, Nested, RunTyped, TaskPlaces, IsrPlaces, Callbacks, Contexts, Itf
<1>3. JobInv'
  BY <1>1 DEF JobInv, JobSet, Blocking, Unmoved, Over, RunTyped, TaskPlaces, IsrPlaces, Callbacks, Contexts, Itf
<1>4. FifoInv'
  <2>1. PICK c \in 0..tx["cdc"], v \in 0..tx["vendor"] :
               tx' = [tx EXCEPT !["cdc"] = c, !["vendor"] = v]
    OBVIOUS
  <2>2. tx["cdc"] \in Nat /\ tx["vendor"] \in Nat
    BY DEF FifoInv, Itf
  <2>3. QED
    BY <2>1, <2>2, RoomTyped DEF FifoInv, Itf
<1>5. QED
  BY <1>1, <1>2, <1>3, <1>4

LEMMA CallbackIInv ==
  ASSUME NEW x \in Contexts, NEW i \in Itf, IInv, Callback(x, i) PROVE IInv'
<1> USE DEF IInv, Callback, In, Running, caller, fifos
<1>1. RunTyped'
  BY DEF RunTyped, TaskPlaces, IsrPlaces, Callbacks, Contexts, Itf
<1>2. GuardInv'
  BY <1>1 DEF GuardInv, TaskHolds, Nested, RunTyped, TaskPlaces, IsrPlaces, Callbacks, Contexts, Itf
<1>3. JobInv'
  BY <1>1 DEF JobInv, JobSet, Blocking, Unmoved, Over, RunTyped, TaskPlaces, IsrPlaces, Callbacks, Contexts, Itf
<1>4. FifoInv'
  BY DEF FifoInv, Itf
<1>5. QED
  BY <1>1, <1>2, <1>3, <1>4

LEMMA NestedServiceIInv ==
  ASSUME NEW x \in Contexts, IInv, NestedService(x) PROVE IInv'
<1> USE DEF IInv, NestedService, In, Running, Outermost, caller, fifos
<1>1. RunTyped'
  BY DEF RunTyped, TaskPlaces, IsrPlaces, Callbacks, Contexts, Itf
<1>2. GuardInv'
  BY <1>1 DEF GuardInv, TaskHolds, Nested, RunTyped, TaskPlaces, IsrPlaces, Callbacks, Contexts, Itf
<1>3. JobInv'
  BY <1>1 DEF JobInv, JobSet, Blocking, Unmoved, Over, RunTyped, TaskPlaces, IsrPlaces, Callbacks, Contexts, Itf
<1>4. FifoInv'
  BY DEF FifoInv, Itf
<1>5. QED
  BY <1>1, <1>2, <1>3, <1>4

LEMMA NestedReadIInv ==
  ASSUME NEW x \in Contexts, NEW i \in Itf, IInv, NestedRead(x, i) PROVE IInv'
<1> USE DEF IInv, NestedRead, In, Running, Released, caller, fifos
<1>1. RunTyped'
  BY DEF RunTyped, TaskPlaces, IsrPlaces, Callbacks, Contexts, Itf, GuardInv, TaskHolds, Nested
<1>2. GuardInv'
  BY <1>1 DEF GuardInv, TaskHolds, Nested, RunTyped, TaskPlaces, IsrPlaces, Callbacks, Contexts, Itf
<1>3. JobInv'
  BY <1>1 DEF JobInv, JobSet, Blocking, Unmoved, Over, RunTyped, TaskPlaces, IsrPlaces, Callbacks, Contexts, Itf
<1>4. FifoInv'
  <2>1. rx[i] \in Nat /\ Room[i] \in Nat /\ rx'[i] \in Nat /\ rx'[i] <= Room[i]
    BY RoomTyped DEF FifoInv
  <2>2. rx' \in [Itf -> Nat] /\ \A k \in Itf \ {i} : rx'[k] = rx[k]
    BY <2>1 DEF FifoInv
  <2>3. QED
    BY <2>1, <2>2 DEF FifoInv
<1>5. QED
  BY <1>1, <1>2, <1>3, <1>4

LEMMA TickIInv ==
  ASSUME IInv, Tick PROVE IInv'
<1> USE DEF IInv, Tick, Goto, GuardFree, caller, fifos
<1>1. RunTyped'
  BY DEF RunTyped, TaskPlaces, IsrPlaces, Callbacks, Contexts, Itf
<1>2. GuardInv'
  BY <1>1 DEF GuardInv, TaskHolds, Nested, RunTyped, TaskPlaces, IsrPlaces, Callbacks, Contexts, Itf
<1>3. JobInv'
  BY <1>1 DEF JobInv, JobSet, Blocking, Unmoved, Over, RunTyped, TaskPlaces, IsrPlaces, Callbacks, Contexts, Itf
<1>4. FifoInv'
  BY DEF FifoInv, Itf
<1>5. QED
  BY <1>1, <1>2, <1>3, <1>4

LEMMA AnnounceIInv ==
  ASSUME NEW i \in Itf, NEW place \in {"after", "vendor"}, NEW next \in {"vendor", "leave"},
         IInv, Announce(place, i, next) PROVE IInv'
<1> USE DEF IInv, Announce, At, Running, Goto, ToAnnounce, caller, fifos
<1>1. RunTyped'
  BY DEF RunTyped, TaskPlaces, IsrPlaces, Callbacks, Contexts, Itf
<1>2. GuardInv'
  BY <1>1 DEF GuardInv, TaskHolds, Nested, RunTyped, TaskPlaces, IsrPlaces, Callbacks, Contexts, Itf
<1>3. JobInv'
  BY <1>1 DEF JobInv, JobSet, Blocking, Unmoved, Over, RunTyped, TaskPlaces, IsrPlaces, Callbacks, Contexts, Itf
<1>4. FifoInv'
  BY DEF FifoInv, Itf
<1>5. QED
  BY <1>1, <1>2, <1>3, <1>4

LEMMA TickEndsIInv ==
  ASSUME IInv, TickEnds PROVE IInv'
<1> USE DEF IInv, TickEnds, At, Running, Goto, Released, caller, fifos
<1>1. RunTyped'
  BY DEF RunTyped, TaskPlaces, IsrPlaces, Callbacks, Contexts, Itf, GuardInv, TaskHolds, Nested
<1>2. GuardInv'
  BY <1>1 DEF GuardInv, TaskHolds, Nested, RunTyped, TaskPlaces, IsrPlaces, Callbacks, Contexts, Itf
<1>3. JobInv'
  BY <1>1 DEF JobInv, JobSet, Blocking, Unmoved, Over, RunTyped, TaskPlaces, IsrPlaces, Callbacks, Contexts, Itf
<1>4. FifoInv'
  BY DEF FifoInv, Itf
<1>5. QED
  BY <1>1, <1>2, <1>3, <1>4

LEMMA SetupIInv ==
  ASSUME IInv, Setup PROVE IInv'
<1> USE DEF IInv, Setup
<1>1. RunTyped'
  BY DEF RunTyped, TaskPlaces, IsrPlaces, Callbacks, Contexts, Itf
<1>2. GuardInv'
  BY <1>1 DEF GuardInv, TaskHolds, Nested, RunTyped, TaskPlaces, IsrPlaces, Callbacks, Contexts, Itf
<1>3. JobInv'
  BY <1>1 DEF JobInv, JobSet, Blocking, Unmoved, Over, RunTyped, TaskPlaces, IsrPlaces, Callbacks, Contexts, Itf
<1>4. FifoInv'
  BY DEF FifoInv, Itf
<1>5. QED
  BY <1>1, <1>2, <1>3, <1>4

LEMMA CallSendIInv ==
  ASSUME IInv, CallSend PROVE IInv'
<1> USE DEF IInv, CallSend, Begin, At, Running, Goto, fifos
<1>1. RunTyped'
  BY DEF RunTyped, TaskPlaces, IsrPlaces, Callbacks, Contexts, Itf
<1>2. GuardInv'
  BY <1>1 DEF GuardInv, TaskHolds, Nested, RunTyped, TaskPlaces, IsrPlaces, Callbacks, Contexts, Itf
<1>3. JobInv'
  BY <1>1 DEF JobInv, JobSet, Blocking, Unmoved, Over, RunTyped, TaskPlaces, IsrPlaces, Callbacks, Contexts, Itf
<1>4. FifoInv'
  BY DEF FifoInv, Itf
<1>5. QED
  BY <1>1, <1>2, <1>3, <1>4

LEMMA CallReceiveIInv ==
  ASSUME IInv, CallReceive PROVE IInv'
<1> USE DEF IInv, CallReceive, Begin, At, Running, Goto, fifos
<1>1. RunTyped'
  BY DEF RunTyped, TaskPlaces, IsrPlaces, Callbacks, Contexts, Itf
<1>2. GuardInv'
  BY <1>1 DEF GuardInv, TaskHolds, Nested, RunTyped, TaskPlaces, IsrPlaces, Callbacks, Contexts, Itf
<1>3. JobInv'
  BY <1>1 DEF JobInv, JobSet, Blocking, Unmoved, Over, RunTyped, TaskPlaces, IsrPlaces, Callbacks, Contexts, Itf
<1>4. FifoInv'
  BY DEF FifoInv, Itf
<1>5. QED
  BY <1>1, <1>2, <1>3, <1>4

LEMMA CallReadIInv ==
  ASSUME IInv, CallRead PROVE IInv'
<1> USE DEF IInv, CallRead, Begin, At, Running, Goto, fifos
<1>1. RunTyped'
  BY DEF RunTyped, TaskPlaces, IsrPlaces, Callbacks, Contexts, Itf
<1>2. GuardInv'
  BY <1>1 DEF GuardInv, TaskHolds, Nested, RunTyped, TaskPlaces, IsrPlaces, Callbacks, Contexts, Itf
<1>3. JobInv'
  BY <1>1 DEF JobInv, JobSet, Blocking, Unmoved, Over, RunTyped, TaskPlaces, IsrPlaces, Callbacks, Contexts, Itf
<1>4. FifoInv'
  BY DEF FifoInv, Itf
<1>5. QED
  BY <1>1, <1>2, <1>3, <1>4

LEMMA CallOtherIInv ==
  ASSUME IInv, CallFlushRx \/ CallRoom PROVE IInv'
<1> USE DEF IInv, CallFlushRx, CallRoom, Begin, At, Running, Goto, fifos
<1>1. RunTyped'
  BY DEF RunTyped, TaskPlaces, IsrPlaces, Callbacks, Contexts, Itf
<1>2. GuardInv'
  BY <1>1 DEF GuardInv, TaskHolds, Nested, RunTyped, TaskPlaces, IsrPlaces, Callbacks, Contexts, Itf
<1>3. JobInv'
  BY <1>1 DEF JobInv, JobSet, Blocking, Unmoved, Over, RunTyped, TaskPlaces, IsrPlaces, Callbacks, Contexts, Itf
<1>4. FifoInv'
  BY DEF FifoInv, Itf
<1>5. QED
  BY <1>1, <1>2, <1>3, <1>4

LEMMA LoadEnterIInv ==
  ASSUME IInv, Load("load", "store") PROVE IInv'
<1> USE DEF IInv, Load, At, Running, Goto, fifos
<1>1. RunTyped'
  BY DEF RunTyped, TaskPlaces, IsrPlaces, Callbacks, Contexts, Itf
<1>2. GuardInv'
  BY <1>1 DEF GuardInv, TaskHolds, Nested, RunTyped, TaskPlaces, IsrPlaces, Callbacks, Contexts, Itf
<1>3. JobInv'
  BY <1>1 DEF JobInv, JobSet, Blocking, Unmoved, Over, RunTyped, TaskPlaces, IsrPlaces, Callbacks, Contexts, Itf
<1>4. FifoInv'
  BY DEF FifoInv, Itf
<1>5. QED
  BY <1>1, <1>2, <1>3, <1>4

LEMMA LoadExitIInv ==
  ASSUME IInv, Load("unload", "unstore") PROVE IInv'
<1> USE DEF IInv, Load, At, Running, Goto, fifos
<1>1. RunTyped'
  BY DEF RunTyped, TaskPlaces, IsrPlaces, Callbacks, Contexts, Itf
<1>2. GuardInv'
  BY <1>1 DEF GuardInv, TaskHolds, Nested, RunTyped, TaskPlaces, IsrPlaces, Callbacks, Contexts, Itf
<1>3. JobInv'
  BY <1>1 DEF JobInv, JobSet, Blocking, Unmoved, Over, RunTyped, TaskPlaces, IsrPlaces, Callbacks, Contexts, Itf
<1>4. FifoInv'
  BY DEF FifoInv, Itf
<1>5. QED
  BY <1>1, <1>2, <1>3, <1>4

LEMMA EnterStoreIInv ==
  ASSUME IInv, EnterStore PROVE IInv'
<1> USE DEF IInv, EnterStore, At, Running, Goto, fifos
<1>1. RunTyped'
  BY DEF RunTyped, TaskPlaces, IsrPlaces, Callbacks, Contexts, Itf
<1>2. GuardInv'
  BY <1>1 DEF GuardInv, TaskHolds, Nested, RunTyped, TaskPlaces, IsrPlaces, Callbacks, Contexts, Itf
<1>3. JobInv'
  BY <1>1 DEF JobInv, JobSet, Blocking, Unmoved, Over, RunTyped, TaskPlaces, IsrPlaces, Callbacks, Contexts, Itf
<1>4. FifoInv'
  BY DEF FifoInv, Itf
<1>5. QED
  BY <1>1, <1>2, <1>3, <1>4

LEMMA GuardedIInv ==
  ASSUME IInv, Guarded PROVE IInv'
<1> USE DEF IInv, Guarded, At, Running, Goto
<1>1. RunTyped'
  BY DEF RunTyped, TaskPlaces, IsrPlaces, Callbacks, Contexts, Itf
<1>2. GuardInv'
  BY <1>1 DEF GuardInv, TaskHolds, Nested, RunTyped, TaskPlaces, IsrPlaces, Callbacks, Contexts, Itf
<1>3. JobInv'
  <2> DEFINE i == job.itf
             chunk == Least(job.len - job.done, Room[i] - tx[i])
             ahead == Least(job.len - job.done, rx[i])
  <2>1. /\ run["task"].place = "guarded"
        /\ run'["task"].place = IF job.section \in {"write", "read", "room"} THEN "service" ELSE "unload"
    BY DEF RunTyped, Contexts
  <2>2. i \in Itf /\ Room[i] \in Nat /\ tx[i] \in Nat /\ rx[i] \in Nat /\ tx[i] <= Room[i]
    BY RoomTyped DEF FifoInv, JobInv, JobSet
  <2>3. job.len \in Nat /\ job.done \in Nat /\ job.done <= job.len
    BY DEF JobInv, JobSet
  <2>4. /\ chunk \in Nat /\ chunk <= job.len - job.done
        /\ ahead \in Nat /\ ahead <= job.len - job.done
    BY <2>2, <2>3 DEF Least
  <2> HIDE DEF chunk, ahead
  <2>5. CASE job.section = "write"
    <3>1. job' = [job EXCEPT !.want = chunk] /\ took' = took + chunk
      BY <2>5 DEF chunk
    <3>2. QED
      BY <2>1, <2>4, <2>5, <3>1 DEF JobInv, JobSet, Blocking, Unmoved, Over
  <2>6. CASE job.section = "ask"
    <3>1. job' = [job EXCEPT !.want = ahead] /\ took' = took
      BY <2>6 DEF ahead
    <3>2. QED
      BY <2>1, <2>4, <2>6, <3>1 DEF JobInv, JobSet, Blocking, Unmoved, Over
  <2>7. CASE job.section \notin {"write", "ask"}
    <3>1. job' = job /\ took' = took
      BY <2>7
    <3>2. QED
      BY <2>1, <2>7, <3>1 DEF JobInv, JobSet, Blocking, Unmoved, Over
  <2>8. QED
    BY <2>5, <2>6, <2>7
<1>4. FifoInv'
  <2> DEFINE i == job.itf
             chunk == Least(job.len - job.done, Room[i] - tx[i])
  <2>1. i \in Itf /\ Room[i] \in Nat /\ tx[i] \in Nat /\ tx[i] <= Room[i]
    BY RoomTyped DEF FifoInv, JobInv, JobSet
  <2>2. job.len \in Nat /\ job.done \in Nat /\ job.done <= job.len
    BY DEF JobInv, JobSet
  <2>3. chunk \in Nat /\ tx[i] + chunk <= Room[i]
    BY <2>1, <2>2 DEF Least
  <2> HIDE DEF chunk, i
  <2>4. tx' = tx \/ \E n \in 0..Room[i] : tx' = [tx EXCEPT ![i] = n]
    <3>1. CASE job.section = "write"
      <4>1. PICK n \in 0..(tx[i] + chunk) : tx' = [tx EXCEPT ![i] = n]
        BY <3>1 DEF chunk, i
      <4>2. n \in 0..Room[i]
        BY <2>1, <2>3
      <4>3. QED
        BY Zenon, <4>1, <4>2
    <3>2. CASE job.section = "flush"
      <4>1. PICK n \in 0..tx[i] : tx' = [tx EXCEPT ![i] = n]
        BY <3>2 DEF i
      <4>2. n \in 0..Room[i]
        BY <2>1
      <4>3. QED
        BY Zenon, <4>1, <4>2
    <3>3. CASE job.section \notin {"write", "flush"}
      BY <3>3
    <3>4. QED
      BY <3>1, <3>2, <3>3
  <2>5. rx' = rx \/ rx' = [rx EXCEPT ![i] = 0]
    BY DEF i
  <2>6. ready' = ready \/ ready' = [ready EXCEPT ![i] = FALSE]
    BY DEF i
  <2>7. tx' \in [Itf -> Nat] /\ \A k \in Itf : tx'[k] <= Room[k]
    BY <2>1, <2>4, RoomTyped DEF FifoInv
  <2>8. rx' \in [Itf -> Nat] /\ \A k \in Itf : rx'[k] <= Room[k]
    BY <2>1, <2>5, RoomTyped DEF FifoInv
  <2>9. ready' \in [Itf -> BOOLEAN]
    BY <2>1, <2>6 DEF FifoInv
  <2>10. QED
    BY <2>7, <2>8, <2>9 DEF FifoInv
<1>5. QED
  BY <1>1, <1>2, <1>3, <1>4

LEMMA AfterServiceIInv ==
  ASSUME IInv, AfterService PROVE IInv'
<1> USE DEF IInv, AfterService, At, Running, Goto, Counted
<1>1. RunTyped'
  BY DEF RunTyped, TaskPlaces, IsrPlaces, Callbacks, Contexts, Itf
<1>2. GuardInv'
  BY <1>1 DEF GuardInv, TaskHolds, Nested, RunTyped, TaskPlaces, IsrPlaces, Callbacks, Contexts, Itf
<1>3. JobInv'
  <2> DEFINE got == Least(job.want, rx[job.itf])
  <2>1. run["task"].place = "after" /\ run'["task"].place = "unload"
    BY DEF RunTyped, Contexts
  <2>2. got \in Nat /\ got <= job.want
    BY DEF FifoInv, JobInv, JobSet, Least
  <2> HIDE DEF got
  <2>3. CASE job.section = "read"
    <3>1. job' = [job EXCEPT !.want = got] /\ took' = took + got
      BY <2>3 DEF got
    <3>2. QED
      BY <2>1, <2>2, <2>3, <3>1 DEF JobInv, JobSet, Blocking, Unmoved, Over
  <2>4. CASE job.section # "read"
    BY <2>1, <2>4 DEF JobInv, JobSet, Blocking, Unmoved, Over
  <2>5. QED
    BY <2>3, <2>4
<1>4. FifoInv'
  <2> DEFINE i == job.itf
             got == Least(job.want, rx[i])
  <2>1. i \in Itf /\ Room[i] \in Nat /\ rx[i] \in Nat /\ rx[i] <= Room[i]
    BY RoomTyped DEF FifoInv, JobInv, JobSet
  <2>2. rx[i] - got \in Nat /\ rx[i] - got <= Room[i]
    BY <2>1 DEF FifoInv, JobInv, JobSet, Least
  <2>3. UNCHANGED <<rx, ready>> \/ (rx' = [rx EXCEPT ![i] = rx[i] - got] /\ ready' = [ready EXCEPT ![i] = FALSE])
    OBVIOUS
  <2> HIDE DEF i, got
  <2>4. QED
    BY <2>1, <2>2, <2>3 DEF FifoInv
<1>5. QED
  BY <1>1, <1>2, <1>3, <1>4

LEMMA ExitStoreIInv ==
  ASSUME IInv, ExitStore PROVE IInv'
<1> USE DEF IInv, ExitStore, At, Running, Goto, Waited, NoJob, fifos
<1>1. RunTyped'
  BY DEF RunTyped, TaskPlaces, IsrPlaces, Callbacks, Contexts, Itf, GuardInv, TaskHolds, Nested
<1>2. GuardInv'
  BY <1>1 DEF GuardInv, TaskHolds, Nested, RunTyped, TaskPlaces, IsrPlaces, Callbacks, Contexts, Itf
<1>3. JobInv'
  <2>1. /\ run["task"].place = "unstore" /\ took' = took
        /\ job \in JobSet /\ job.want <= job.len /\ job.done <= job.len
    BY DEF JobInv
  <2>2. CASE job.section \in {"write", "ask"} /\ ~(job.want > 0)
    <3>1. job' = [job EXCEPT !.waits = @ + 1] /\ run'["task"].place = "loop"
      BY <2>2 DEF RunTyped, Contexts
    <3>2. job.waits < Timeout /\ took = job.done /\ Blocking
      BY <2>1, <2>2 DEF JobInv, JobSet, Blocking, Unmoved, Over
    <3>3. QED
      BY <2>1, <2>2, <3>1, <3>2 DEF JobInv, JobSet, Blocking, Unmoved, Over
  <2>3. CASE job.section = "write" /\ job.want > 0
    <3>1. job' = [job EXCEPT !.done = @ + job.want, !.want = 0] /\ run'["task"].place = "loop"
      BY <2>3 DEF RunTyped, Contexts
    <3>2. took = job.done + job.want /\ Blocking /\ job.want <= job.len - job.done
      BY <2>1, <2>3 DEF JobInv, JobSet, Blocking, Unmoved, Over
    <3> DEFINE sum == job.done + job.want
    <3>3. sum \in Nat /\ sum <= job.len /\ sum = took' /\ job' = [job EXCEPT !.done = sum, !.want = 0]
      BY <2>1, <3>1, <3>2 DEF JobSet
    <3> HIDE DEF sum
    <3>4. /\ job' \in JobSet /\ job'.done = took' /\ job'.done <= job.len /\ job'.want = 0
          /\ job'.section = "write" /\ job'.call = job.call /\ job'.len = job.len
          /\ job'.waits = job.waits
      BY <2>1, <3>3, <2>3 DEF JobSet
    <3>5. took' <= MaxLen /\ took' \in Nat /\ job.len <= MaxLen
      BY <2>1 DEF JobInv
    <3>6. /\ job.len > 0 /\ job.waits <= Timeout /\ job.call \in {"send", "receive"}
          /\ job.call = "send" => job.section = "write"
          /\ job.call = "receive" => job.section = "read"
      BY <2>1, <3>2, <2>3 DEF JobInv, Blocking
    <3>7. QED
      BY <2>3, <3>1, <3>4, <3>5, <3>6 DEF JobInv, Blocking, JobSet
  <2>4. CASE job.section = "ask" /\ job.want > 0
    <3>1. job' = [job EXCEPT !.section = "read"] /\ run'["task"].place = "load"
      BY <2>4 DEF RunTyped, Contexts
    <3>2. took = job.done /\ Blocking /\ job.want <= job.len - job.done
      BY <2>1, <2>4 DEF JobInv, JobSet, Blocking, Unmoved, Over
    <3>3. QED
      BY <2>1, <2>4, <3>1, <3>2 DEF JobInv, JobSet, Blocking, Unmoved, Over
  <2>5. CASE job.section = "read" /\ job.call = "receive"
    <3>1. /\ job' = [job EXCEPT !.done = @ + job.want, !.want = 0, !.section = "ask"]
          /\ run'["task"].place = "loop"
      BY <2>5 DEF RunTyped, Contexts
    <3>2. took = job.done + job.want /\ Blocking /\ job.want <= job.len - job.done
      BY <2>1, <2>5 DEF JobInv, JobSet, Blocking, Unmoved, Over
    <3> DEFINE sum == job.done + job.want
    <3>3. sum \in Nat /\ sum <= job.len /\ sum = took' /\ job' = [job EXCEPT !.done = sum, !.want = 0, !.section = "ask"]
      BY <2>1, <3>1, <3>2 DEF JobSet
    <3> HIDE DEF sum
    <3>4. /\ job' \in JobSet /\ job'.done = took' /\ job'.done <= job.len /\ job'.want = 0
          /\ job'.section = "ask" /\ job'.call = job.call /\ job'.len = job.len
          /\ job'.waits = job.waits
      BY <2>1, <3>3, <2>5 DEF JobSet
    <3>5. took' <= MaxLen /\ took' \in Nat /\ job.len <= MaxLen
      BY <2>1 DEF JobInv
    <3>6. /\ job.len > 0 /\ job.waits <= Timeout /\ job.call \in {"send", "receive"}
          /\ job.call = "send" => job.section = "write"
          /\ job.call = "receive" => job.section = "read"
      BY <2>1, <3>2, <2>5 DEF JobInv, Blocking
    <3>7. QED
      BY <2>5, <3>1, <3>4, <3>5, <3>6 DEF JobInv, Blocking, JobSet
  <2>6. CASE job.section = "flush"
    <3>1. job' = job /\ run'["task"].place = "return"
      BY <2>6 DEF RunTyped, Contexts
    <3>2. job.call = "send"
      BY <2>6 DEF JobInv, JobSet, Blocking
    <3>3. QED
      BY <2>1, <2>6, <3>1, <3>2 DEF JobInv, JobSet, Blocking, Unmoved, Over
  <2>7. CASE job' = NoJob /\ run'["task"].place = "idle"
    BY <2>1, <2>7 DEF JobInv, JobSet, Blocking, Unmoved, Over, Itf
  <2>8. QED
    BY <2>2, <2>3, <2>4, <2>5, <2>6, <2>7 DEF RunTyped, Contexts
<1>4. FifoInv'
  BY DEF FifoInv, Itf
<1>5. QED
  BY <1>1, <1>2, <1>3, <1>4

LEMMA LoopIInv ==
  ASSUME IInv, Loop PROVE IInv'
<1> USE DEF IInv, Loop, At, Running, Goto, fifos
<1>1. RunTyped'
  BY DEF RunTyped, TaskPlaces, IsrPlaces, Callbacks, Contexts, Itf
<1>2. GuardInv'
  BY <1>1 DEF GuardInv, TaskHolds, Nested, RunTyped, TaskPlaces, IsrPlaces, Callbacks, Contexts, Itf
<1>3. JobInv'
  <2>1. run["task"].place = "loop" /\ Blocking /\ took = job.done /\ took' = took
    BY DEF JobInv, JobSet, Blocking, Unmoved, Over
  <2>2. CASE ~Over /\ job' = job /\ run'["task"].place = "load"
    BY <2>1, <2>2 DEF JobInv, JobSet, Blocking, Unmoved, Over
  <2>3. CASE Over /\ job' = [job EXCEPT !.section = "flush"] /\ job.call = "send"
             /\ run'["task"].place = "load"
    BY <2>1, <2>3 DEF JobInv, JobSet, Blocking, Unmoved, Over
  <2>4. CASE Over /\ job' = job /\ run'["task"].place = "return"
    BY <2>1, <2>4 DEF JobInv, JobSet, Blocking, Unmoved, Over
  <2>5. QED
    BY <2>2, <2>3, <2>4 DEF RunTyped, Contexts
<1>4. FifoInv'
  BY DEF FifoInv, Itf
<1>5. QED
  BY <1>1, <1>2, <1>3, <1>4

LEMMA ReturnIInv ==
  ASSUME IInv, Return PROVE IInv'
<1> USE DEF IInv, Return, At, Running, Goto, NoJob, fifos
<1>1. RunTyped'
  BY DEF RunTyped, TaskPlaces, IsrPlaces, Callbacks, Contexts, Itf
<1>2. GuardInv'
  BY <1>1 DEF GuardInv, TaskHolds, Nested, RunTyped, TaskPlaces, IsrPlaces, Callbacks, Contexts, Itf
<1>3. JobInv'
  BY <1>1 DEF JobInv, JobSet, Blocking, Unmoved, Over, RunTyped, TaskPlaces, IsrPlaces, Callbacks, Contexts, Itf
<1>4. FifoInv'
  BY DEF FifoInv, Itf
<1>5. QED
  BY <1>1, <1>2, <1>3, <1>4

-----------------------------------------------------------------------------
LEMMA InitIInv == UsbInit => IInv
<1> SUFFICES ASSUME UsbInit PROVE IInv
  OBVIOUS
<1>1. RunTyped
  BY DEF UsbInit, RunTyped, TaskPlaces, IsrPlaces, Callbacks, Contexts
<1>2. GuardInv
  BY DEF UsbInit, GuardInv, TaskHolds, Nested, Contexts
<1>3. JobInv
  BY DEF UsbInit, JobInv, JobSet, NoJob, Itf, Blocking, Unmoved, Over, Contexts
<1>4. FifoInv
  BY RoomTyped DEF UsbInit, FifoInv
<1>5. QED
  BY <1>1, <1>2, <1>3, <1>4 DEF IInv

LEMMA StutterIInv == IInv /\ UNCHANGED vars => IInv'
  BY DEF vars, IInv, RunTyped, GuardInv, TaskHolds, Nested, JobInv, Blocking, Unmoved, Over, FifoInv

LEMMA TinyUsbIInv == ASSUME NEW x \in Contexts, IInv, TinyUsb(x) PROVE IInv'
  BY ServiceIInv, TaskReturnsIInv, NestedServiceIInv, DispatchIInv, CallbackIInv, NestedReadIInv
     DEF TinyUsb

LEMMA NextIInv == IInv /\ [Next]_vars => IInv'
<1> SUFFICES ASSUME IInv, [Next]_vars PROVE IInv'
  OBVIOUS
<1>1. CASE Setup
  BY <1>1, SetupIInv
<1>2. CASE Calls
  BY <1>2, CallSendIInv, CallReceiveIInv, CallReadIInv, CallOtherIInv DEF Calls
<1>3. CASE CallStep
  BY <1>3, LoadEnterIInv, LoadExitIInv, EnterStoreIInv, GuardedIInv, AfterServiceIInv,
     ExitStoreIInv, LoopIInv, ReturnIInv DEF CallStep
<1>4. CASE TinyUsb("task") \/ TinyUsb("isr")
  BY <1>4, TinyUsbIInv DEF Contexts
<1>5. CASE Tick
  BY <1>5, TickIInv
<1>6. CASE TickStep
  <2>1. CASE TickEnds
    BY <2>1, TickEndsIInv
  <2>2. CASE Announce("after", "cdc", "vendor") \/ Announce("vendor", "vendor", "leave")
    BY <2>2, AnnounceIInv DEF Itf
  <2>3. QED
    BY <1>6, <2>1, <2>2 DEF TickStep
<1>7. CASE UNCHANGED vars
  BY <1>7, StutterIInv
<1>8. QED
  BY <1>1, <1>2, <1>3, <1>4, <1>5, <1>6, <1>7 DEF Next, TaskRuns, InterruptRuns

LEMMA Inductive == UsbSpec => []IInv
  BY InitIInv, NextIInv, PTL DEF UsbSpec

(* The types of the driver's state: the guard's depth never passes what    *)
(* its holders account for, and no FIFO or transfer its bound.             *)
THEOREM TypeCorrect == UsbSpec => []TypeOK
<1>1. IInv => TypeOK
  <2> SUFFICES ASSUME IInv PROVE TypeOK
    OBVIOUS
  <2>1. /\ up \in BOOLEAN /\ run["task"].place \in TaskPlaces /\ run["isr"].place \in IsrPlaces
        /\ \A x \in Contexts : run[x].cb \in Itf \cup {"none", "nested", "tud_task", "reading"}
    BY DEF IInv, RunTyped, Callbacks
  <2>2. depth \in 0..3 /\ reg \in 0..3
    BY DEF IInv, GuardInv, RunTyped, Nested, IsrPlaces
  <2>3. /\ took \in 0..MaxLen /\ job.itf \in Itf /\ job.len \in 0..MaxLen /\ job.waits \in 0..Timeout
        /\ job.want \in 0..MaxLen /\ job.done \in 0..job.len
    BY DEF IInv, JobInv, JobSet
  <2>4. /\ ready \in [Itf -> BOOLEAN]
        /\ \A i \in Itf : rx[i] \in 0..Room[i] /\ tx[i] \in 0..Room[i]
    BY RoomTyped DEF IInv, FifoInv
  <2>5. QED
    BY <2>1, <2>2, <2>3, <2>4 DEF TypeOK, TaskPlaces, IsrPlaces
<1>2. QED
  BY <1>1, Inductive, PTL

(* One user of TinyUSB at a time although the guard is a plain counter     *)
(* (nsx_usb.c:16-63).                                                      *)
THEOREM Exclusive == UsbSpec => []CoreExclusive
<1>1. IInv => CoreExclusive
  BY DEF IInv, GuardInv, CoreExclusive, Contexts
<1>2. QED
  BY <1>1, Inductive, PTL

(* A blocking call reports what TinyUSB moved for it, whatever callbacks   *)
(* and timer ticks did meanwhile (nsx_usb.c:144-237).                      *)
THEOREM Truthful == UsbSpec => []ResultTruthful
<1>1. IInv => ResultTruthful
  <2> SUFFICES ASSUME IInv, run["task"].place = "return" PROVE ResultTruthful
    BY DEF ResultTruthful
  <2>1. /\ took = job.done /\ job.len \in Nat /\ job.done \in Nat /\ job.waits \in Nat
        /\ job.done <= job.len /\ job.len > 0 /\ job.waits <= Timeout
        /\ job.call \in {"send", "receive"} /\ (job.done >= job.len \/ job.waits >= Timeout)
    BY DEF IInv, JobInv, JobSet, Blocking, Over
  <2>2. QED
    BY <2>1 DEF ResultTruthful, Status, SendStatus, ReceiveStatus
<1>2. QED
  BY <1>1, Inductive, PTL
===============================================================================
