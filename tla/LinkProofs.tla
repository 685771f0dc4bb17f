------------------------------- MODULE LinkProofs -------------------------------
(* Safety of the commands pipe for any dispatches, queue size, breaker     *)
(* threshold, number of attempts and number of messages.                   *)
EXTENDS PipeLink, SequenceTheorems, TLAPS

(* A message is in hand exactly while its write is under way, and a closed *)
(* breaker has seen fewer failures in a row than the threshold.            *)
WriterState ==
  /\ in_hand # 0 <=> writer \in {"locking", "writing"}
  /\ ~breaker_open => failures < Threshold

(* The chain of WriterConserves, its two parts apart: what is written is   *)
(* in order, and the message in hand and those waiting come after it.      *)
WrittenInOrder ==
  /\ \A i, j \in 1..Len(written) : i < j => written[i] < written[j]
  /\ \A i \in 1..Len(written) : written[i] <= metrics.enqueued - Len(queue)
  /\ in_hand # 0 =>
       /\ in_hand <= metrics.enqueued - Len(queue)
       /\ \A i \in 1..Len(written) : written[i] < in_hand

(* Every accepted message is in one place, and the queue holds the newest. *)
Counted ==
  /\ metrics.enqueued = Len(queue) + (IF in_hand = 0 THEN 0 ELSE 1)
                        + metrics.written + metrics.failed + metrics.overflows
  /\ metrics.written = Len(written)
  /\ \A i \in 1..Len(queue) : queue[i] = metrics.enqueued - Len(queue) + i

WriterInv == WriterOK /\ WriterState /\ Counted /\ WrittenInOrder

LinkInv == ClientOK /\ ManagerOK /\ WriterInv

-----------------------------------------------------------------------------
(* The client has no connection, or main.py has made one.                  *)
LEMMA LinkInit == Init => LinkInv
<1> SUFFICES ASSUME Init PROVE LinkInv
  OBVIOUS
<1> USE LinkAssumption DEF LinkAssumption, Init
<1>1. ClientOK
  BY DEF ClientOK, Writers
<1>2. ManagerOK
  <2>1. last_was_connected \in BOOLEAN
    BY Zenon
  <2>2. manager \in {"sleeping", "backoff", "connecting"} /\ attempt \in 0..MaxAttempts + 1
    OBVIOUS
  <2>3. pause_flag \in BOOLEAN
    OBVIOUS
  <2> QED
    BY <2>1, <2>2, <2>3 DEF ManagerOK
<1>3. WriterOK
  <2>1. <<>> \in Seq(1..MaxMessages) /\ Len(<<>>) = 0
    BY EmptySeq
  <2>2. metrics \in [{"enqueued", "written", "failed", "overflows"} -> 0..MaxMessages]
    OBVIOUS
  <2>3. queue \in Seq(1..MaxMessages) /\ Len(queue) <= QueueMax /\ written \in Seq(1..MaxMessages)
    BY <2>1
  <2>4. failures \in 0..Threshold /\ in_hand \in 0..MaxMessages
    OBVIOUS
  <2> QED
    BY <2>2, <2>3, <2>4 DEF WriterOK
<1>4. WriterState /\ Counted /\ WrittenInOrder
  BY DEF WriterState, Counted, WrittenInOrder
<1> QED
  BY <1>1, <1>2, <1>3, <1>4 DEF LinkInv, WriterInv

(* The writer's part depends on the writer's variables alone.              *)
LEMMA WriterFrame ==
  WriterInv /\ UNCHANGED <<queued, writing>> => WriterInv'
BY DEF WriterInv, WriterOK, WriterState, Counted, WrittenInOrder, queued, writing

(* So does the manager's part.                                             *)
LEMMA ManagerFrame ==
  ManagerOK /\ UNCHANGED reconnect => ManagerOK'
BY DEF ManagerOK, reconnect

(* Whatever becomes of an open, the flag is set only with a handle there.  *)
LEMMA ConnectedTypes ==
  ASSUME ClientOK, NEW outcome \in BOOLEAN, Connected(outcome)
  PROVE  /\ connected' \in BOOLEAN /\ handle' \in {"none", "live", "dead"}
         /\ connected' => handle' # "none"
         /\ using' \in [Writers -> {"current", "old", "dead"}]
BY DEF ClientOK, Connected

(* The end of a transfer can only clear the flag.                          *)
LEMMA OutcomeTypes ==
  ASSUME ClientOK, NEW w \in Writers, NEW ok \in BOOLEAN, Outcome(w, ok)
  PROVE  /\ connected' \in BOOLEAN /\ handle' \in {"none", "live", "dead"}
         /\ connected' => handle' # "none"
         /\ using' \in [Writers -> {"current", "old", "dead"}]
BY DEF ClientOK, Outcome

(* The beginning of one only looks at the handle.                          *)
LEMMA TakeHandleTypes ==
  ASSUME ClientOK, NEW w \in Writers, TakeHandle(w)
  PROVE  /\ connected' \in BOOLEAN /\ handle' \in {"none", "live", "dead"}
         /\ connected' => handle' # "none"
         /\ using' \in [Writers -> {"current", "old", "dead"}]
BY DEF ClientOK, TakeHandle

(* From its top the loop reaches an await with its counter in range.       *)
LEMMA LoopTopTypes ==
  ASSUME NEW is_connected \in BOOLEAN, NEW counted \in 0..MaxAttempts + 1,
         NEW was_connected \in BOOLEAN, LoopTop(is_connected, counted, was_connected)
  PROVE  /\ manager' \in {"sleeping", "backoff", "connecting"}
         /\ attempt' \in 0..MaxAttempts + 1
         /\ last_was_connected' \in BOOLEAN
<1> DEFINE begun == IF was_connected THEN 0 ELSE counted
<1>1. MaxAttempts \in Nat /\ begun \in 0..MaxAttempts + 1
  BY LinkAssumption DEF LinkAssumption
<1> HIDE DEF begun
<1>2. CASE is_connected
  BY <1>1, <1>2 DEF LoopTop
<1>3. CASE ~is_connected
  <2>1. /\ attempt' = IF begun > MaxAttempts THEN begun ELSE begun + 1
        /\ manager' = IF begun >= MaxAttempts THEN "sleeping" ELSE "backoff"
        /\ last_was_connected' = FALSE
    BY <1>3 DEF LoopTop, begun
  <2>2. attempt' \in 0..MaxAttempts + 1
    BY <1>1, <2>1
  <2>3. manager' \in {"sleeping", "backoff", "connecting"}
    BY <2>1
  <2>4. last_was_connected' \in BOOLEAN
    BY <2>1
  <2> QED
    BY <2>2, <2>3, <2>4
<1> QED
  BY <1>2, <1>3

-----------------------------------------------------------------------------
(* The manager and the other end. *)

(* The manager keeps the invariant: it neither takes the lock nor touches  *)
(* the queue.                                                              *)
LEMMA ManagerStep ==
  ASSUME LinkInv, Manager
  PROVE  LinkInv'
<1> USE DEF LinkInv
<1>1. ASSUME ManagerWakes PROVE LinkInv'
  <2>1. UNCHANGED <<client, phase, queued, writing>> /\ pause_flag' \in BOOLEAN
    BY <1>1 DEF ManagerWakes
  <2>2. ManagerOK'
    <3>1. /\ connected \in BOOLEAN /\ attempt \in 0..MaxAttempts + 1
          /\ last_was_connected \in BOOLEAN
      BY DEF ClientOK, ManagerOK
    <3>2. LoopTop(connected, attempt, last_was_connected)
      BY <1>1 DEF ManagerWakes
    <3> QED
      BY <2>1, <3>1, <3>2, LoopTopTypes DEF ManagerOK
  <2>3. ClientOK'
    BY <2>1 DEF ClientOK, client, writing
  <2> QED
    BY <2>1, <2>2, <2>3, WriterFrame
<1>2. ASSUME BackoffEnds PROVE LinkInv'
  <2>1. UNCHANGED <<client, phase, queued, writing>>
    BY <1>2 DEF BackoffEnds
  <2>2. ManagerOK'
    BY <1>2 DEF BackoffEnds, ManagerOK
  <2>3. ClientOK'
    BY <2>1 DEF ClientOK, client, writing
  <2> QED
    BY <2>1, <2>2, <2>3, WriterFrame
<1>3. ASSUME NEW outcome \in BOOLEAN, ManagerConnects(outcome) PROVE LinkInv'
  <2>1. /\ UNCHANGED <<lock, phase, queued, writing>> /\ pause_flag' \in BOOLEAN
        /\ Connected(outcome)
    BY <1>3 DEF ManagerConnects
  <2>2. ManagerOK'
    <3>1. (IF outcome THEN 0 ELSE attempt) \in 0..MaxAttempts + 1
      BY LinkAssumption DEF LinkAssumption, ManagerOK
    <3>2. LoopTop(outcome, IF outcome THEN 0 ELSE attempt, FALSE)
      BY <1>3 DEF ManagerConnects
    <3> QED
      BY <2>1, <3>1, <3>2, LoopTopTypes DEF ManagerOK
  <2>3. ClientOK'
    BY <2>1, ConnectedTypes DEF ClientOK, writing
  <2> QED
    BY <2>1, <2>2, <2>3, WriterFrame
<1> QED
  BY <1>1, <1>2, <1>3 DEF Manager

(* The other end may go away at any time.                                  *)
LEMMA ServerStep ==
  ASSUME LinkInv, ServerDrops
  PROVE  LinkInv'
<1>1. ClientOK'
  BY DEF LinkInv, ServerDrops, ClientOK, writing
<1> QED
  BY <1>1, WriterFrame, ManagerFrame DEF LinkInv, ServerDrops

-----------------------------------------------------------------------------
(* The dispatches. *)

(* A dispatch keeps the invariant when it keeps the client's part of it.   *)
LEMMA DispatchFrame ==
  ASSUME LinkInv, UNCHANGED <<reconnect, queued, writing>>, ClientOK'
  PROVE  LinkInv'
BY WriterFrame, ManagerFrame DEF LinkInv

(* No dispatch is the writer, and none is the free lock.                   *)
LEMMA DispatchIsNoOther ==
  ASSUME NEW d \in Dispatches
  PROVE  d # "writer" /\ d # "free" /\ "writer" # "free" /\ d \in Writers
BY LinkAssumption DEF LinkAssumption, Writers

(* One call of dispatch, from its first await to its answer or its         *)
(* timeout: it holds the lock in writeline and at no other moment.         *)
LEMMA DispatchStep ==
  ASSUME LinkInv, NEW d \in Dispatches, DispatchBegins(d) \/ Dispatch(d)
  PROVE  LinkInv'
<1> USE DispatchIsNoOther DEF LinkInv
<1>1. ASSUME DispatchBegins(d) PROVE LinkInv'
  <2>1. ClientOK'
    BY <1>1 DEF DispatchBegins, ClientOK, client, writing
  <2> QED
    BY <1>1, <2>1, DispatchFrame DEF DispatchBegins
<1>2. ASSUME NEW ok \in BOOLEAN, DispatchConnects(d, ok) PROVE LinkInv'
  <2>1. ClientOK'
    BY <1>2, ConnectedTypes DEF DispatchConnects, ClientOK, writing
  <2> QED
    BY <1>2, <2>1, DispatchFrame DEF DispatchConnects
<1>3. ASSUME NEW ok \in BOOLEAN, DispatchEnds(d, ok) PROVE LinkInv'
  <2>1. /\ phase[d] = "writing" /\ lock = d /\ lock' = "free" /\ Outcome(d, ok)
        /\ phase' = [phase EXCEPT ![d] = IF ok THEN "written" ELSE "idle"]
        /\ UNCHANGED <<reconnect, queued, writing>>
    BY <1>3 DEF DispatchEnds, WriteOutcome, ClientOK
  <2>2. ClientOK'
    BY <2>1, OutcomeTypes DEF ClientOK, writing
  <2> QED
    BY <2>1, <2>2, DispatchFrame
<1>4. ASSUME NEW ok \in BOOLEAN, DispatchHears(d, ok) PROVE LinkInv'
  <2>1. /\ phase[d] = "reading" /\ UNCHANGED lock /\ Outcome(d, ok)
        /\ phase' = [phase EXCEPT ![d] = "idle"]
        /\ UNCHANGED <<reconnect, queued, writing>>
    BY <1>4 DEF DispatchHears
  <2>2. ClientOK'
    BY <2>1, OutcomeTypes DEF ClientOK, writing
  <2> QED
    BY <2>1, <2>2, DispatchFrame
<1>5. ASSUME DispatchWrites(d) PROVE LinkInv'
  <2>1. /\ lock = "free" /\ lock' = d /\ TakeHandle(d)
        /\ phase' = [phase EXCEPT ![d] = "writing"]
        /\ UNCHANGED <<reconnect, queued, writing>>
    BY <1>5 DEF DispatchWrites, TakeLock
  <2>2. ClientOK'
    BY <2>1, TakeHandleTypes DEF ClientOK, writing
  <2> QED
    BY <2>1, <2>2, DispatchFrame
<1>6. ASSUME DispatchListens(d) PROVE LinkInv'
  <2>1. ClientOK'
    BY <1>6 DEF DispatchListens, ClientOK, client, writing
  <2> QED
    BY <1>6, <2>1, DispatchFrame DEF DispatchListens
<1>7. ASSUME DispatchReads(d) PROVE LinkInv'
  <2>1. /\ phase[d] = "waiting" /\ UNCHANGED lock /\ TakeHandle(d)
        /\ phase' = [phase EXCEPT ![d] = "reading"]
        /\ UNCHANGED <<reconnect, queued, writing>>
    BY <1>7 DEF DispatchReads
  <2>2. ClientOK'
    BY <2>1, TakeHandleTypes DEF ClientOK, writing
  <2> QED
    BY <2>1, <2>2, DispatchFrame
<1>8. ASSUME DispatchTimesOut(d) PROVE LinkInv'
  <2>1. /\ phase' = [phase EXCEPT ![d] = "idle"]
        /\ lock' = IF lock = d THEN "free" ELSE lock
        /\ UNCHANGED <<connected, handle, using, reconnect, queued, writing>>
    BY <1>8 DEF DispatchTimesOut
  <2>2. ClientOK'
    BY <2>1 DEF ClientOK, writing
  <2> QED
    BY <2>1, <2>2, DispatchFrame
<1> QED
  BY <1>1, <1>2, <1>3, <1>4, <1>5, <1>6, <1>7, <1>8 DEF Dispatch

-----------------------------------------------------------------------------
(* The queue and the writer. *)

(* The counters are numbers, and none exceeds what was accepted.           *)
LEMMA CounterRanges ==
  ASSUME WriterInv
  PROVE  /\ metrics.enqueued \in 0..MaxMessages /\ metrics.written \in Nat
         /\ metrics.failed \in Nat /\ metrics.overflows \in Nat
         /\ MaxMessages \in Nat /\ QueueMax \in Nat /\ QueueMax >= 1
         /\ Len(queue) \in Nat /\ Len(queue) <= QueueMax /\ Len(written) \in Nat
         /\ in_hand \in 0..MaxMessages
         /\ metrics.enqueued >= Len(queue) + (IF in_hand = 0 THEN 0 ELSE 1)
BY LinkAssumption DEF LinkAssumption, WriterInv, WriterOK, Counted

(* The oldest waiting message, and the queue without it: what waits is     *)
(* numbered without a gap up to the newest.                                *)
LEMMA QueueTail ==
  ASSUME WriterInv, queue # <<>>
  PROVE  /\ Tail(queue) \in Seq(1..MaxMessages)
         /\ Len(queue) >= 1 /\ Len(Tail(queue)) = Len(queue) - 1
         /\ \A i \in 1..Len(Tail(queue)) :
              Tail(queue)[i] = metrics.enqueued - Len(Tail(queue)) + i
         /\ Head(queue) = metrics.enqueued - Len(queue) + 1
<1>1. queue \in Seq(1..MaxMessages)
  BY DEF WriterInv, WriterOK
<1>2. /\ Tail(queue) \in Seq(1..MaxMessages) /\ Len(Tail(queue)) = Len(queue) - 1
      /\ \A i \in 1..Len(Tail(queue)) : Tail(queue)[i] = queue[i + 1]
  BY <1>1, HeadTailProperties
<1>3. Len(queue) >= 1 /\ Len(queue) \in Nat
  BY <1>1, EmptySeq
<1>4. Head(queue) = queue[1]
  BY <1>1
<1>5. metrics.enqueued \in Int
  BY CounterRanges
<1>6. \A i \in 1..Len(queue) : queue[i] = metrics.enqueued - Len(queue) + i
  BY DEF WriterInv, Counted
<1>7. ASSUME NEW i \in 1..Len(Tail(queue))
      PROVE  Tail(queue)[i] = metrics.enqueued - Len(Tail(queue)) + i
  <2>1. i + 1 \in 1..Len(queue) /\ i \in Nat
    BY <1>2, <1>3
  <2>2. Tail(queue)[i] = metrics.enqueued - Len(queue) + (i + 1)
    BY <1>2, <1>6, <2>1
  <2> QED
    BY <1>2, <1>3, <1>5, <2>1, <2>2
<1> QED
  BY <1>2, <1>3, <1>4, <1>5, <1>6, <1>7

(* A message put behind others that are numbered up to the newest is the   *)
(* newest.                                                                 *)
LEMMA QueueAppend ==
  ASSUME NEW n \in 0..MaxMessages, NEW q \in Seq(1..MaxMessages), n < MaxMessages,
         \A i \in 1..Len(q) : q[i] = n - Len(q) + i, MaxMessages \in Nat
  PROVE  /\ Append(q, n + 1) \in Seq(1..MaxMessages)
         /\ Len(Append(q, n + 1)) = Len(q) + 1
         /\ \A i \in 1..Len(Append(q, n + 1)) :
              Append(q, n + 1)[i] = (n + 1) - Len(Append(q, n + 1)) + i
<1>1. n + 1 \in 1..MaxMessages
  OBVIOUS
<1>2. /\ Append(q, n + 1) \in Seq(1..MaxMessages)
      /\ Len(Append(q, n + 1)) = Len(q) + 1
      /\ \A i \in 1..Len(q) : Append(q, n + 1)[i] = q[i]
      /\ Append(q, n + 1)[Len(q) + 1] = n + 1
  BY <1>1, AppendProperties
<1>3. Len(q) \in Nat
  OBVIOUS
<1>4. ASSUME NEW i \in 1..Len(Append(q, n + 1))
      PROVE  Append(q, n + 1)[i] = (n + 1) - Len(Append(q, n + 1)) + i
  <2>1. CASE i <= Len(q)
    <3>1. i \in 1..Len(q)
      BY <1>2, <1>3, <2>1
    <3> QED
      BY <1>2, <1>3, <3>1
  <2>2. CASE i = Len(q) + 1
    BY <1>2, <1>3, <2>2
  <2> QED
    BY <1>2, <1>3, <2>1, <2>2
<1> QED
  BY <1>2, <1>4

(* enqueue, whether or not the queue is full: the number of the newest and *)
(* what leaves at the front change together.                               *)
LEMMA EnqueueStep ==
  ASSUME LinkInv, Enqueue
  PROVE  LinkInv'
<1> DEFINE n == metrics.enqueued
<1>1. /\ n < MaxMessages /\ ~breaker_open
      /\ UNCHANGED <<client, phase, reconnect, writing>>
      /\ WriterInv /\ ClientOK /\ ManagerOK
  BY DEF Enqueue, LinkInv
<1>2. ClientOK' /\ ManagerOK'
  BY <1>1, ManagerFrame DEF ClientOK, client, writing
<1>3. UNCHANGED <<writer, in_hand, breaker_open, failures, written>>
  BY <1>1 DEF writing
<1>4. metrics \in [{"enqueued", "written", "failed", "overflows"} -> 0..MaxMessages]
  BY <1>1 DEF WriterInv, WriterOK
<1>5. ASSUME queue' \in Seq(1..MaxMessages), Len(queue') <= QueueMax,
             metrics'.enqueued = n + 1, metrics'.written = metrics.written,
             metrics'.failed = metrics.failed,
             metrics'.overflows + Len(queue') = metrics.overflows + Len(queue) + 1,
             Len(queue') <= Len(queue) + 1, Len(queue') \in Nat, metrics'.overflows \in Nat,
             metrics' \in [{"enqueued", "written", "failed", "overflows"} -> Nat],
             \A i \in 1..Len(queue') : queue'[i] = (n + 1) - Len(queue') + i
      PROVE  WriterInv'
  <2> DEFINE held == IF in_hand = 0 THEN 0 ELSE 1
             waits  == Len(queue)          waits1  == Len(queue')
             done   == metrics.written     done1   == metrics'.written
             failed == metrics.failed      failed1 == metrics'.failed
             lost   == metrics.overflows   lost1   == metrics'.overflows
             n1     == metrics'.enqueued
  <2>1. /\ n \in Nat /\ waits \in Nat /\ done \in Nat /\ failed \in Nat /\ lost \in Nat
        /\ held \in Nat /\ n = waits + held + done + failed + lost
        /\ in_hand \in Int /\ \A i \in 1..Len(written) : written[i] \in Int
    BY <1>1, CounterRanges DEF WriterInv, WriterOK, Counted
  <2>2. /\ waits1 \in Nat /\ lost1 \in Nat /\ n1 = n + 1 /\ done1 = done
        /\ failed1 = failed /\ lost1 + waits1 = lost + waits + 1 /\ waits1 <= waits + 1
    BY <1>5
  <2> HIDE DEF held, waits, done, failed, lost, waits1, done1, failed1, lost1, n1
  <2>3. /\ n1 = waits1 + held + done1 + failed1 + lost1
        /\ lost1 <= n1 /\ n1 - waits1 >= n - waits
        /\ n - waits \in Int /\ n1 - waits1 \in Int
    BY <2>1, <2>2 DEF n
  <2>4. Counted'
    <3>1. held = IF in_hand' = 0 THEN 0 ELSE 1
      BY <1>3 DEF held
    <3>2. metrics'.written = Len(written')
      BY <1>1, <1>3, <1>5 DEF Counted, WriterInv
    <3>3. metrics'.enqueued = Len(queue') + (IF in_hand' = 0 THEN 0 ELSE 1)
                              + metrics'.written + metrics'.failed + metrics'.overflows
      BY <2>3, <3>1, Zenon DEF n1, waits1, done1, failed1, lost1
    <3>4. \A i \in 1..Len(queue') : queue'[i] = metrics'.enqueued - Len(queue') + i
      BY <1>5
    <3> QED
      BY <3>2, <3>3, <3>4, Zenon DEF Counted
  <2>5. metrics' \in [{"enqueued", "written", "failed", "overflows"} -> 0..MaxMessages]
    <3>1. metrics'.written \in 0..MaxMessages /\ metrics'.failed \in 0..MaxMessages
      BY <1>4, <1>5
    <3>2. metrics'.enqueued \in 0..MaxMessages /\ metrics'.overflows \in 0..MaxMessages
      <4>1. n + 1 \in 0..MaxMessages /\ MaxMessages \in Nat
        BY <1>1, <2>1, CounterRanges
      <4>2. n1 \in 0..MaxMessages /\ lost1 \in 0..MaxMessages
        BY <2>2, <2>3, <4>1
      <4> QED
        BY <4>2 DEF n1, lost1
    <3>3. metrics' \in [{"enqueued", "written", "failed", "overflows"} -> Nat]
      BY <1>5
    <3> QED
      BY <3>1, <3>2, <3>3
  <2>6. WriterOK'
    BY <1>1, <1>3, <1>5, <2>5 DEF WriterOK, WriterInv
  <2>7. WriterState'
    BY <1>1, <1>3 DEF WriterState, WriterInv
  <2>8. WrittenInOrder'
    <3>1. /\ metrics'.enqueued - Len(queue') >= metrics.enqueued - Len(queue)
          /\ metrics'.enqueued - Len(queue') \in Int /\ metrics.enqueued - Len(queue) \in Int
      BY <2>3 DEF n1, n, waits1, waits
    <3>2. WrittenInOrder
      BY <1>1 DEF WriterInv
    <3> QED
      BY <1>3, <2>1, <3>1, <3>2 DEF WrittenInOrder
  <2> QED
    BY <2>4, <2>6, <2>7, <2>8 DEF WriterInv
<1>6. /\ n \in 0..MaxMessages /\ MaxMessages \in Nat /\ Len(queue) \in Nat
      /\ QueueMax \in Nat \ {0} /\ metrics.overflows \in Nat /\ Len(queue) <= QueueMax
  BY <1>1, CounterRanges DEF WriterInv, WriterOK
<1>7. /\ queue \in Seq(1..MaxMessages)
      /\ \A i \in 1..Len(queue) : queue[i] = n - Len(queue) + i
  BY <1>1 DEF WriterInv, WriterOK, Counted
<1>8. CASE Len(queue) < QueueMax
  <2>1. queue' = Append(queue, n + 1) /\ metrics' = [metrics EXCEPT !["enqueued"] = @ + 1]
    BY <1>8 DEF Enqueue, Count
  <2>2. /\ queue' \in Seq(1..MaxMessages)
        /\ \A i \in 1..Len(queue') : queue'[i] = (n + 1) - Len(queue') + i
    BY <1>1, <1>6, <1>7, <2>1, QueueAppend
  <2>3. Len(queue') = Len(queue) + 1
    BY <1>1, <1>6, <1>7, <2>1, QueueAppend
  <2>4. /\ metrics'.enqueued = n + 1 /\ metrics'.written = metrics.written
        /\ metrics'.failed = metrics.failed
        /\ metrics' \in [{"enqueued", "written", "failed", "overflows"} -> Nat]
    BY <1>4, <1>6, <2>1
  <2>5. metrics'.overflows = metrics.overflows
    BY <1>4, <2>1
  <2>6. /\ Len(queue') <= QueueMax /\ Len(queue') <= Len(queue) + 1 /\ Len(queue') \in Nat
        /\ metrics'.overflows + Len(queue') = metrics.overflows + Len(queue) + 1
        /\ metrics'.overflows \in Nat
    BY <1>6, <1>8, <2>3, <2>5
  <2> QED
    BY <1>2, <1>5, <2>2, <2>4, <2>6, Zenon DEF LinkInv
<1>9. CASE ~(Len(queue) < QueueMax)
  <2>1. /\ queue' = Append(Tail(queue), n + 1)
        /\ metrics' = [metrics EXCEPT !["enqueued"] = @ + 1, !["overflows"] = @ + 1]
    BY <1>9 DEF Enqueue
  <2>2. queue # <<>>
    BY <1>6, <1>9
  <2>3. /\ Tail(queue) \in Seq(1..MaxMessages) /\ Len(Tail(queue)) = Len(queue) - 1
        /\ \A i \in 1..Len(Tail(queue)) : Tail(queue)[i] = n - Len(Tail(queue)) + i
    BY <1>1, <2>2, QueueTail
  <2>4. /\ queue' \in Seq(1..MaxMessages)
        /\ \A i \in 1..Len(queue') : queue'[i] = (n + 1) - Len(queue') + i
    BY <1>1, <1>6, <2>1, <2>3, QueueAppend
  <2>5. Len(queue') = Len(Tail(queue)) + 1
    BY <1>1, <1>6, <2>1, <2>3, QueueAppend
  <2>6. /\ metrics'.enqueued = n + 1 /\ metrics'.written = metrics.written
        /\ metrics'.failed = metrics.failed
        /\ metrics' \in [{"enqueued", "written", "failed", "overflows"} -> Nat]
    BY <1>4, <1>6, <2>1
  <2>7. metrics'.overflows = metrics.overflows + 1
    BY <1>4, <2>1
  <2>8. Len(Tail(queue)) = Len(queue) - 1
    BY <2>3
  <2>9. /\ Len(queue') <= QueueMax /\ Len(queue') <= Len(queue) + 1 /\ Len(queue') \in Nat
        /\ metrics'.overflows + Len(queue') = metrics.overflows + Len(queue) + 1
        /\ metrics'.overflows \in Nat
    <3>1. Len(queue') = Len(queue)
      BY <1>6, <2>5, <2>8
    <3> QED
      BY <1>6, <2>7, <3>1
  <2> QED
    BY <1>2, <1>5, <2>4, <2>6, <2>9, Zenon DEF LinkInv
<1> QED
  BY <1>8, <1>9

(* A counter of a message that left is counted up, and stays in range: the *)
(* message was accepted and is counted nowhere else.                       *)
LEMMA CountTypes ==
  ASSUME WriterInv, NEW field \in {"written", "failed"}, Count(field),
         metrics[field] < metrics.enqueued
  PROVE  /\ metrics' \in [{"enqueued", "written", "failed", "overflows"} -> 0..MaxMessages]
         /\ metrics'[field] = metrics[field] + 1
         /\ \A f \in {"enqueued", "written", "failed", "overflows"} :
              f # field => metrics'[f] = metrics[f]
<1>1. metrics \in [{"enqueued", "written", "failed", "overflows"} -> 0..MaxMessages]
  BY DEF WriterInv, WriterOK
<1>2. metrics[field] + 1 \in 0..MaxMessages
  BY <1>1, CounterRanges
<1> QED
  BY <1>1, <1>2 DEF Count

(* A write that does not succeed, of the message in hand or of the oldest  *)
(* waiting one: it is counted as failed, and the breaker opens in time.    *)
LEMMA FailedKeeps ==
  ASSUME WriterInv, writer \in {"getting", "writing"}, WriteFailed,
         queue' \in Seq(1..MaxMessages), Len(queue') \in Nat,
         Len(queue') + 1 = Len(queue) + (IF in_hand = 0 THEN 0 ELSE 1),
         \A i \in 1..Len(queue') : queue'[i] = metrics.enqueued - Len(queue') + i
  PROVE  WriterInv' /\ writer' \in {"getting", "cooling"}
<1> DEFINE held  == IF in_hand = 0 THEN 0 ELSE 1
           waits == Len(queue)
           waits1 == Len(queue')
           n == metrics.enqueued
           done == metrics.written
           failed == metrics.failed
           lost == metrics.overflows
<1>1. /\ in_hand' = 0 /\ Count("failed") /\ failures' = failures + 1
      /\ breaker_open' = (failures + 1 >= Threshold)
      /\ writer' = IF breaker_open' THEN "cooling" ELSE "getting"
      /\ written' = written
  BY DEF WriteFailed
<1>2. /\ n \in Nat /\ waits \in Nat /\ waits1 \in Nat /\ held \in {0, 1}
      /\ done \in Nat /\ failed \in Nat /\ lost \in Nat
      /\ n = waits + held + done + failed + lost
      /\ waits1 + 1 = waits + held /\ waits <= QueueMax /\ QueueMax \in Nat
  BY CounterRanges DEF WriterInv, Counted
<1> HIDE DEF held, waits, waits1, n, done, failed, lost
<1>3. /\ failed < n /\ waits1 <= waits
      /\ n = waits1 + 0 + done + (failed + 1) + lost
      /\ waits1 <= QueueMax /\ n - waits <= n - waits1
      /\ n - waits \in Int /\ n - waits1 \in Int
  BY <1>2
<1>4. /\ metrics' \in [{"enqueued", "written", "failed", "overflows"} -> 0..MaxMessages]
      /\ metrics'.failed = failed + 1 /\ metrics'.written = done
      /\ metrics'.overflows = lost /\ metrics'.enqueued = n
  <2>1. metrics["failed"] < metrics.enqueued
    BY <1>3 DEF failed, n
  <2>2. /\ metrics' \in [{"enqueued", "written", "failed", "overflows"} -> 0..MaxMessages]
        /\ metrics'["failed"] = metrics["failed"] + 1
        /\ \A f \in {"enqueued", "written", "failed", "overflows"} :
              f # "failed" => metrics'[f] = metrics[f]
    BY <1>1, <2>1, CountTypes
  <2> QED
    BY <2>2 DEF failed, done, lost, n
<1>5. /\ failures \in 0..Threshold /\ failures < Threshold /\ Threshold \in Nat \ {0}
      /\ ~breaker_open
  BY LinkAssumption DEF LinkAssumption, WriterInv, WriterOK, WriterState
<1>6. /\ failures' \in 0..Threshold /\ breaker_open' \in BOOLEAN
      /\ ~breaker_open' => failures' < Threshold
  <2>1. failures' \in 0..Threshold
    BY <1>1, <1>5
  <2>2. breaker_open' \in BOOLEAN
    <3>1. breaker_open' = (failures + 1 >= Threshold)
      BY <1>1
    <3>2. (failures + 1 >= Threshold) \in BOOLEAN
      BY <1>5
    <3> QED
      BY <3>1, <3>2, Zenon
  <2>3. ~breaker_open' => ~(failures + 1 >= Threshold)
    BY <1>1, Zenon
  <2>4. ~(failures + 1 >= Threshold) => failures' < Threshold
    BY <1>1, <1>5
  <2> QED
    BY <2>1, <2>2, <2>3, <2>4, Zenon
<1>7. Counted'
  <2>1. metrics'.enqueued = Len(queue') + (IF in_hand' = 0 THEN 0 ELSE 1)
                            + metrics'.written + metrics'.failed + metrics'.overflows
    BY <1>1, <1>3, <1>4 DEF waits1
  <2>2. metrics'.written = Len(written')
    BY <1>1, <1>4 DEF WriterInv, Counted, done
  <2>3. \A i \in 1..Len(queue') : queue'[i] = metrics'.enqueued - Len(queue') + i
    BY <1>4 DEF n
  <2> QED
    BY <2>1, <2>2, <2>3, Zenon DEF Counted
<1>8. WriterOK'
  <2>1. Len(queue') <= QueueMax
    BY <1>3 DEF waits1
  <2>2. in_hand' \in 0..MaxMessages
    BY <1>1, LinkAssumption DEF LinkAssumption
  <2>3. /\ writer' \in {"getting", "locking", "writing", "cooling"}
        /\ breaker_open' <=> writer' = "cooling"
    BY <1>1
  <2>4. written' \in Seq(1..MaxMessages)
    BY <1>1 DEF WriterInv, WriterOK
  <2> QED
    BY <1>4, <1>6, <2>1, <2>2, <2>3, <2>4, Zenon DEF WriterOK
<1>9. WriterState'
  BY <1>1, <1>6 DEF WriterState
<1>10. WrittenInOrder'
  <2>1. /\ \A i, j \in 1..Len(written) : i < j => written[i] < written[j]
        /\ \A i \in 1..Len(written) : written[i] \in Int /\ written[i] <= n - waits
    <3>1. written \in Seq(1..MaxMessages) /\ WrittenInOrder
      BY DEF WriterInv, WriterOK
    <3>2. \A i \in 1..Len(written) : written[i] \in 1..MaxMessages
      BY <3>1, ElementOfSeq
    <3> QED
      BY <3>1, <3>2 DEF WrittenInOrder, waits, n
  <2>2. \A i \in 1..Len(written) : written[i] <= n - waits1
    BY <1>3, <2>1
  <2>3. \A i \in 1..Len(written) : written[i] <= metrics'.enqueued - Len(queue')
    BY <1>4, <2>2, Zenon DEF waits1
  <2> QED
    BY <1>1, <2>1, <2>3, Zenon DEF WrittenInOrder
<1> QED
  BY <1>1, <1>7, <1>8, <1>9, <1>10 DEF WriterInv

(* The loop takes the oldest message; without a connection it is lost and  *)
(* counted.                                                                *)
LEMMA WriterGetsStep ==
  ASSUME LinkInv, WriterGets
  PROVE  LinkInv'
<1>1. /\ WriterInv /\ ClientOK /\ ManagerOK /\ UNCHANGED <<client, phase, reconnect>>
      /\ writer = "getting" /\ in_hand = 0 /\ queue # <<>> /\ queue' = Tail(queue)
  BY DEF LinkInv, WriterGets, WriterInv, WriterState
<1>2. /\ queue' \in Seq(1..MaxMessages)
      /\ \A i \in 1..Len(queue') : queue'[i] = metrics.enqueued - Len(queue') + i
  BY <1>1, QueueTail
<1>3. /\ Len(queue) >= 1 /\ Len(queue') = Len(queue) - 1 /\ Len(queue) \in Nat
      /\ Head(queue) = metrics.enqueued - Len(queue) + 1
  BY <1>1, QueueTail, CounterRanges
<1>4. WriterInv' /\ writer' # "writing"
  <2>1. CASE ~Usable
    <3>1. WriteFailed
      BY <2>1 DEF WriterGets
    <3>2. /\ Len(queue') \in Nat
          /\ Len(queue') + 1 = Len(queue) + (IF in_hand = 0 THEN 0 ELSE 1)
      BY <1>1, <1>3
    <3>3. writer \in {"getting", "writing"}
      BY <1>1
    <3>4. WriterInv' /\ writer' \in {"getting", "cooling"}
      BY <1>1, <1>2, <3>1, <3>2, <3>3, FailedKeeps
    <3> QED
      BY <3>4
  <2>2. CASE Usable
    <3> DEFINE n      == metrics.enqueued
               waits  == Len(queue)
               waits1 == Len(queue')
               head   == Head(queue)
               done   == metrics.written
               failed == metrics.failed
               lost   == metrics.overflows
    <3>1. /\ in_hand' = head /\ writer' = "locking"
          /\ UNCHANGED <<metrics, failures, breaker_open, written>>
      BY <2>2 DEF WriterGets
    <3>2. /\ n \in 0..MaxMessages /\ waits \in Nat /\ waits >= 1 /\ waits <= n
          /\ waits <= QueueMax /\ QueueMax \in Nat /\ MaxMessages \in Nat
          /\ waits1 = waits - 1 /\ head = n - waits + 1
          /\ done \in Nat /\ failed \in Nat /\ lost \in Nat
          /\ n = waits + 0 + done + failed + lost
      BY <1>1, <1>3, CounterRanges DEF WriterInv, Counted
    <3> HIDE DEF n, waits, waits1, head, done, failed, lost
    <3>3. /\ head \in 1..MaxMessages /\ head <= n - waits1 /\ n - waits < head
          /\ n - waits \in Int /\ n - waits1 \in Int /\ head # 0
          /\ n = waits1 + 1 + done + failed + lost /\ waits1 <= QueueMax
      BY <3>2
    <3>4. /\ \A i, j \in 1..Len(written) : i < j => written[i] < written[j]
          /\ \A i \in 1..Len(written) : written[i] \in Int /\ written[i] <= n - waits
      <4>1. written \in Seq(1..MaxMessages) /\ WrittenInOrder
        BY <1>1 DEF WriterInv, WriterOK
      <4>2. \A i \in 1..Len(written) : written[i] \in 1..MaxMessages
        BY <4>1, ElementOfSeq
      <4> QED
        BY <4>1, <4>2 DEF WrittenInOrder, waits, n
    <3>5. \A i \in 1..Len(written) : written[i] <= n - waits1 /\ written[i] < head
      BY <3>2, <3>3, <3>4
    <3>6. WrittenInOrder'
      BY <3>1, <3>3, <3>4, <3>5, Zenon DEF WrittenInOrder, n, waits1
    <3>7. Counted'
      <4>1. metrics'.enqueued = Len(queue') + 1 + metrics'.written + metrics'.failed
                                + metrics'.overflows
        BY <3>1, <3>3, Zenon DEF n, waits1, done, failed, lost
      <4>2. in_hand' # 0 /\ metrics' = metrics /\ written' = written
        BY <3>1, <3>3
      <4> QED
        BY <1>1, <1>2, <4>1, <4>2, Zenon DEF Counted, WriterInv
    <3>8. WriterState'
      BY <1>1, <3>1, <3>3 DEF WriterState, WriterInv
    <3>9. WriterOK'
      <4>1. in_hand' \in 0..MaxMessages /\ Len(queue') <= QueueMax
        BY <3>1, <3>2, <3>3 DEF waits1
      <4> QED
        BY <1>1, <1>2, <3>1, <4>1, Zenon DEF WriterOK, WriterInv
    <3> QED
      BY <3>1, <3>6, <3>7, <3>8, <3>9 DEF WriterInv
  <2> QED
    BY <2>1, <2>2
<1>5. ClientOK'
  BY <1>1, <1>4 DEF ClientOK, client
<1> QED
  BY <1>1, <1>4, <1>5, ManagerFrame DEF LinkInv

(* The writer holds the lock from here to the end of its write.            *)
LEMMA WriterLocksStep ==
  ASSUME LinkInv, WriterLocks
  PROVE  LinkInv'
<1>1. /\ WriterInv /\ ClientOK /\ ManagerOK /\ writer = "locking" /\ writer' = "writing"
      /\ lock = "free" /\ lock' = "writer" /\ TakeHandle("writer")
      /\ UNCHANGED <<phase, reconnect, queued, in_hand, breaker_open, failures, written>>
  BY DEF LinkInv, WriterLocks, TakeLock
<1>2. "writer" \in Writers /\ \A d \in Dispatches : d # "writer" /\ d # "free"
  BY DispatchIsNoOther DEF Writers
<1>3. ClientOK'
  BY <1>1, <1>2, TakeHandleTypes DEF ClientOK
<1>4. WriterInv'
  BY <1>1 DEF WriterInv, WriterOK, WriterState, Counted, WrittenInOrder, queued
<1> QED
  BY <1>1, <1>3, <1>4, ManagerFrame DEF LinkInv

(* A write ends: what is written comes after all that was, or the message  *)
(* is lost and counted.                                                    *)
LEMMA WriterEndsStep ==
  ASSUME LinkInv, NEW ok \in BOOLEAN, WriterEnds(ok)
  PROVE  LinkInv'
<1>1. /\ WriterInv /\ ClientOK /\ ManagerOK /\ writer = "writing" /\ in_hand # 0
      /\ lock = "writer" /\ lock' = "free" /\ Outcome("writer", ok)
      /\ UNCHANGED <<phase, reconnect, queue>>
  BY DEF LinkInv, WriterEnds, WriteOutcome, WriterInv, WriterState, ClientOK
<1>2. WriterInv' /\ writer' # "writing"
  <2>1. CASE ~ok
    <3>1. WriteFailed
      BY <2>1 DEF WriterEnds
    <3>2. /\ queue' \in Seq(1..MaxMessages) /\ Len(queue') \in Nat
          /\ Len(queue') + 1 = Len(queue) + (IF in_hand = 0 THEN 0 ELSE 1)
      BY <1>1, CounterRanges DEF WriterInv, WriterOK
    <3>3. \A i \in 1..Len(queue') : queue'[i] = metrics.enqueued - Len(queue') + i
      BY <1>1 DEF WriterInv, Counted
    <3>4. writer \in {"getting", "writing"}
      BY <1>1
    <3>5. WriterInv' /\ writer' \in {"getting", "cooling"}
      BY <1>1, <3>1, <3>2, <3>3, <3>4, FailedKeeps
    <3> QED
      BY <3>5
  <2>2. CASE ok
    <3> DEFINE n      == metrics.enqueued
               waits  == Len(queue)
               done   == metrics.written
               failed == metrics.failed
               lost   == metrics.overflows
    <3>1. /\ in_hand' = 0 /\ Count("written") /\ failures' = 0 /\ writer' = "getting"
          /\ written' = Append(written, in_hand) /\ UNCHANGED breaker_open
      BY <2>2 DEF WriterEnds
    <3>2. /\ n \in 0..MaxMessages /\ waits \in Nat /\ MaxMessages \in Nat
          /\ done \in Nat /\ failed \in Nat /\ lost \in Nat
          /\ n = waits + 1 + done + failed + lost
      BY <1>1, CounterRanges DEF WriterInv, Counted
    <3> HIDE DEF n, waits, done, failed, lost
    <3>3. n = waits + 0 + (done + 1) + failed + lost /\ done < n
      BY <3>2
    <3>4. /\ metrics' \in [{"enqueued", "written", "failed", "overflows"} -> 0..MaxMessages]
          /\ metrics'.written = done + 1 /\ metrics'.failed = failed
          /\ metrics'.overflows = lost /\ metrics'.enqueued = n
      <4>1. metrics["written"] < metrics.enqueued
        BY <3>3 DEF done, n
      <4>2. /\ metrics' \in [{"enqueued", "written", "failed", "overflows"} -> 0..MaxMessages]
            /\ metrics'["written"] = metrics["written"] + 1
            /\ \A f \in {"enqueued", "written", "failed", "overflows"} :
                  f # "written" => metrics'[f] = metrics[f]
        BY <1>1, <3>1, <4>1, CountTypes
      <4> QED
        BY <4>2 DEF failed, done, lost, n
    <3>5. /\ written \in Seq(1..MaxMessages) /\ in_hand \in 1..MaxMessages
      BY <1>1, CounterRanges DEF WriterInv, WriterOK
    <3>6. /\ written' \in Seq(1..MaxMessages) /\ Len(written') = Len(written) + 1
          /\ \A i \in 1..Len(written) : written'[i] = written[i]
          /\ written'[Len(written) + 1] = in_hand /\ Len(written) \in Nat
      BY <3>1, <3>5, AppendProperties, LenProperties
    <3>7. WrittenInOrder'
      <4>1. /\ \A i, j \in 1..Len(written) : i < j => written[i] < written[j]
            /\ \A i \in 1..Len(written) : written[i] <= n - waits /\ written[i] < in_hand
            /\ in_hand <= n - waits
        BY <1>1 DEF WriterInv, WrittenInOrder, n, waits
      <4>2. ASSUME NEW i \in 1..Len(written')
            PROVE  \/ i \in 1..Len(written) /\ written'[i] = written[i]
                   \/ i = Len(written) + 1 /\ written'[i] = in_hand
        BY <3>6
      <4>3. \A i \in 1..Len(written') : written'[i] <= n - waits
        BY <4>1, <4>2
      <4>4. ASSUME NEW i \in 1..Len(written'), NEW j \in 1..Len(written'), i < j
            PROVE  written'[i] < written'[j]
        <5>1. i \in 1..Len(written) /\ written'[i] = written[i]
          BY <3>6, <4>4
        <5> QED
          BY <4>1, <4>2, <4>4, <5>1
      <4>5. metrics'.enqueued - Len(queue') = n - waits
        BY <1>1, <3>4 DEF waits
      <4> QED
        BY <3>1, <4>3, <4>4, <4>5, Zenon DEF WrittenInOrder
    <3>8. Counted'
      <4>1. metrics'.enqueued = Len(queue') + 0 + metrics'.written + metrics'.failed
                                + metrics'.overflows
        BY <1>1, <3>3, <3>4, Zenon DEF waits
      <4>2. metrics'.written = Len(written')
        BY <1>1, <3>4, <3>6 DEF WriterInv, Counted, done
      <4>3. \A i \in 1..Len(queue') : queue'[i] = metrics'.enqueued - Len(queue') + i
        BY <1>1, <3>4 DEF WriterInv, Counted, n
      <4> QED
        BY <3>1, <4>1, <4>2, <4>3, Zenon DEF Counted
    <3>9. WriterState' /\ WriterOK'
      <4>1. /\ failures' \in 0..Threshold /\ failures' < Threshold
            /\ in_hand' \in 0..MaxMessages
        BY <3>1, <3>2, LinkAssumption DEF LinkAssumption
      <4>2. ~breaker_open /\ breaker_open \in BOOLEAN
        BY <1>1 DEF WriterInv, WriterOK
      <4>3. WriterState'
        BY <3>1, <4>1 DEF WriterState
      <4>4. Len(queue') <= QueueMax /\ queue' \in Seq(1..MaxMessages)
        BY <1>1 DEF WriterInv, WriterOK
      <4>5. WriterOK'
        BY <3>1, <3>4, <3>6, <4>1, <4>2, <4>4 DEF WriterOK
      <4> QED
        BY <4>3, <4>5
    <3> QED
      BY <3>1, <3>7, <3>8, <3>9 DEF WriterInv
  <2> QED
    BY <2>1, <2>2
<1>3. "writer" \in Writers /\ \A d \in Dispatches : d # "writer" /\ d # "free"
  BY DispatchIsNoOther DEF Writers
<1>4. ClientOK'
  BY <1>1, <1>2, <1>3, OutcomeTypes DEF ClientOK
<1> QED
  BY <1>1, <1>2, <1>4, ManagerFrame DEF LinkInv

(* The end of the cooldown closes the breaker.                             *)
LEMMA BreakerStep ==
  ASSUME LinkInv, BreakerResets
  PROVE  LinkInv'
<1>1. /\ WriterInv /\ ClientOK /\ ManagerOK /\ writer = "cooling" /\ writer' = "getting"
      /\ breaker_open' = FALSE /\ failures' = 0
      /\ UNCHANGED <<client, phase, reconnect, queued, in_hand, written>>
  BY DEF LinkInv, BreakerResets
<1>2. ClientOK'
  BY <1>1 DEF ClientOK, client
<1>3. 0 \in 0..Threshold /\ 0 < Threshold
  BY LinkAssumption DEF LinkAssumption
<1>4. WriterInv'
  <2>1. WriterOK' /\ WriterState'
    BY <1>1, <1>3 DEF WriterInv, WriterOK, WriterState, queued
  <2>2. Counted' /\ WrittenInOrder'
    BY <1>1 DEF WriterInv, Counted, WrittenInOrder, queued
  <2> QED
    BY <2>1, <2>2 DEF WriterInv
<1> QED
  BY <1>1, <1>2, <1>4, ManagerFrame DEF LinkInv

(* The invariant holds throughout: every step of the manager, a dispatch,  *)
(* the writer and the other end keeps it.                                  *)
THEOREM LinkSafe == Spec => []LinkInv
<1>1. LinkInv /\ [Next]_vars => LinkInv'
  <2> SUFFICES ASSUME LinkInv, [Next]_vars
               PROVE  LinkInv'
    OBVIOUS
  <2>1. CASE UNCHANGED vars
    <3>1. ClientOK'
      BY <2>1 DEF LinkInv, ClientOK, vars, client, writing
    <3> QED
      BY <2>1, <3>1, ManagerFrame, WriterFrame DEF LinkInv, vars
  <2>2. ASSUME Writer PROVE LinkInv'
    BY <2>2, WriterGetsStep, WriterLocksStep, WriterEndsStep, BreakerStep DEF Writer
  <2> QED
    BY <2>1, <2>2, ManagerStep, ServerStep, DispatchStep, EnqueueStep DEF Next
<1> QED
  BY <1>1, LinkInit, PTL DEF Spec

-----------------------------------------------------------------------------
(* What the run checks, for every value of the constants. *)

(* pipe_client.py, writer.py: only who is in a write holds the lock, and   *)
(* the breaker is open exactly while the writer sleeps.                    *)
THEOREM LinkTyped == Spec => []TypeOK
BY LinkSafe, PTL DEF LinkInv, WriterInv, TypeOK

(* The chain of WriterConserves is ordered when its parts are.             *)
LEMMA ChainInOrder ==
  ASSUME WriterInv
  PROVE  WriterConserves
<1> DEFINE hand  == IF in_hand = 0 THEN <<>> ELSE <<in_hand>>
           chain == written \o hand
<1>1. written \in Seq(1..MaxMessages) /\ queue \in Seq(1..MaxMessages)
  BY DEF WriterInv, WriterOK
<1>2. /\ hand \in Seq(1..MaxMessages)
      /\ Len(hand) = IF in_hand = 0 THEN 0 ELSE 1
      /\ in_hand # 0 => hand[1] = in_hand
  <2>1. in_hand # 0 => in_hand \in 1..MaxMessages
    BY DEF WriterInv, WriterOK
  <2>2. CASE in_hand = 0
    BY <2>2, EmptySeq
  <2>3. CASE in_hand # 0
    BY <2>1, <2>3
  <2> QED
    BY <2>2, <2>3
<1> HIDE DEF hand
<1>3. /\ chain \in Seq(1..MaxMessages) /\ Len(chain) = Len(written) + Len(hand)
      /\ \A i \in 1..Len(written) + Len(hand) :
           chain[i] = IF i <= Len(written) THEN written[i] ELSE hand[i - Len(written)]
  BY <1>1, <1>2, ConcatProperties
<1>4. Len(written) \in Nat /\ Len(queue) \in Nat /\ metrics.enqueued \in Nat
  BY <1>1, CounterRanges
<1>5. ASSUME NEW i \in 1..Len(chain)
      PROVE  \/ i \in 1..Len(written) /\ chain[i] = written[i]
             \/ i = Len(written) + 1 /\ in_hand # 0 /\ chain[i] = in_hand
  <2>1. CASE i <= Len(written)
    BY <1>3, <1>4, <2>1
  <2>2. CASE ~(i <= Len(written))
    <3>1. in_hand # 0 /\ i - Len(written) = 1
      BY <1>2, <1>3, <1>4, <2>2
    <3> QED
      BY <1>2, <1>3, <1>4, <2>2, <3>1
  <2> QED
    BY <2>1, <2>2
<1>6. DOMAIN chain = 1..Len(chain) /\ DOMAIN queue = 1..Len(queue)
  BY <1>1, <1>3, LenProperties
<1> HIDE DEF chain
<1>7. WrittenInOrder /\ Counted
  BY DEF WriterInv
<1>8. \A i \in 1..Len(chain) : chain[i] <= metrics.enqueued - Len(queue)
  BY <1>5, <1>7 DEF WrittenInOrder
<1>9. ASSUME NEW i \in 1..Len(chain), NEW j \in 1..Len(chain), i < j
      PROVE  chain[i] < chain[j]
  <2>1. i \in 1..Len(written) /\ chain[i] = written[i]
    <3>1. i # Len(written) + 1
      BY <1>4, <1>5, <1>9
    <3> QED
      BY <1>5, <3>1
  <2> QED
    BY <1>5, <1>7, <1>9, <2>1 DEF WrittenInOrder
<1> QED
  BY <1>6, <1>7, <1>8, <1>9, Zenon DEF WriterConserves, Counted, chain, hand

(* writer.py: every accepted message is in exactly one place, the queue    *)
(* holds the newest, and messages are written in the order of acceptance.  *)
THEOREM WriterAlwaysConserves == Spec => []WriterConserves
<1>1. LinkInv => WriterConserves
  BY ChainInOrder DEF LinkInv
<1> QED
  BY <1>1, LinkSafe, PTL

=============================================================================
