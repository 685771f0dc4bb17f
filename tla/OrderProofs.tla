------------------------------ MODULE OrderProofs ------------------------------
(* Safety of the live commander for any calls, any number of attempts and  *)
(* any queue, and its safety as an implementation of ExecutionPort.        *)
EXTENDS OrderExecution, SequenceTheorems, TLAPS

Allowed(c) == IF c \in Opens THEN MaxAttempts ELSE 1

(* How the await p, the attempt a and the tracker r of a call agree with    *)
(* its orders: n have reached the pipe and l may still do so.              *)
Consistent(c, p, a, r, n, l) ==
  /\ p \notin Waits => r = 0
  /\ r <= IF p = "backoff" THEN a + 1 ELSE a
  /\ p \in Waits => 1 <= a /\ n + l <= a
  /\ p = "writing" => n + l < a
  /\ p = "idle" => n + l = 0
  /\ n + l <= Allowed(c)
  /\ paper_mode => n + l = 0
  /\ ~paper_mode /\ p \in {"reading", "waiting", "done"} => n > 0
  /\ c \in Closes => a <= 1 /\ p \notin {"waiting", "backoff"}

CallInv ==
  \A c \in Calls : Consistent(c, pc[c], attempt[c], retries[c], sent[c], late[c])

(* The messages whose fill, if they report one, did happen.                *)
Known == {m \in Answers : m.kind = "FILL" => m.call \in filled}

(* No fill is made up on the way: what lies in the queue, on the pipe or    *)
(* in last_response was sent.                                              *)
MessagesInv ==
  /\ last_response \in Known \union {NoReply}
  /\ fill_queue \in Seq(Known)
  /\ replies \in Seq(Known)

ExecInv == TypeOK /\ CallInv /\ MessagesInv /\ OpenedIsFilled

-----------------------------------------------------------------------------
(* What one step does to the call c. *)
Moved(c, p, a, r, w) ==
  /\ pc' = [pc EXCEPT ![c] = p]
  /\ attempt' = [attempt EXCEPT ![c] = a]
  /\ retries' = [retries EXCEPT ![c] = r]
  /\ confirmed_by' = [confirmed_by EXCEPT ![c] = w]

Delivered(c, n, l) ==
  /\ sent' = [sent EXCEPT ![c] = n]
  /\ late' = [late EXCEPT ![c] = l]

CallTypes ==
  /\ pc \in [Calls -> {"idle"} \union Waits \union Ended]
  /\ attempt \in [Calls -> 0..MaxAttempts]
  /\ retries \in [Calls -> 0..MaxAttempts]
  /\ late \in [Calls -> Nat]
  /\ sent \in [Calls -> Nat]
  /\ confirmed_by \in [Calls -> Calls \union {NoReply}]

(* The constants as numbers. *)
LEMMA Bounds ==
  /\ MaxAttempts \in Nat /\ MaxAttempts >= 1
  /\ QueueMax \in Nat /\ QueueMax >= 1
  /\ \A c \in Closes : c \notin Opens
BY ExecutionAssumption DEF ExecutionAssumption

(* The state of one call. *)
LEMMA OfCall ==
  ASSUME TypeOK, CallInv, NEW c \in Calls
  PROVE  /\ pc[c] \in {"idle"} \union Waits \union Ended
         /\ attempt[c] \in Nat /\ attempt[c] <= MaxAttempts
         /\ retries[c] \in Nat /\ retries[c] <= MaxAttempts
         /\ late[c] \in Nat
         /\ sent[c] \in Nat
         /\ unanswered[c] \in Nat
         /\ confirmed_by[c] \in Calls \union {NoReply}
         /\ Consistent(c, pc[c], attempt[c], retries[c], sent[c], late[c])
BY Bounds DEF TypeOK, CallInv

(* A step that moves one call keeps CallInv if the new values agree.       *)
LEMMA MovedKeeps ==
  ASSUME TypeOK, CallInv, UNCHANGED paper_mode,
         NEW c \in Calls,
         NEW p \in {"idle"} \union Waits \union Ended,
         NEW a \in 0..MaxAttempts, NEW r \in 0..MaxAttempts,
         NEW w \in Calls \union {NoReply},
         NEW n \in Nat, NEW l \in Nat,
         Moved(c, p, a, r, w), Delivered(c, n, l),
         Consistent(c, p, a, r, n, l)
  PROVE  CallTypes' /\ CallInv'
<1>1. CallTypes'
  BY DEF TypeOK, CallTypes, Moved, Delivered
<1>2. ASSUME NEW d \in Calls
      PROVE  Consistent(d, pc[d], attempt[d], retries[d], sent[d], late[d])'
  <2>1. CASE d = c
    <3>1. pc'[d] = p /\ attempt'[d] = a /\ retries'[d] = r /\ sent'[d] = n /\ late'[d] = l
      BY <2>1 DEF TypeOK, Moved, Delivered
    <3> QED
      BY <2>1, <3>1 DEF Consistent, Allowed
  <2>2. CASE d # c
    <3>1. /\ pc'[d] = pc[d] /\ attempt'[d] = attempt[d] /\ retries'[d] = retries[d]
          /\ sent'[d] = sent[d] /\ late'[d] = late[d]
      BY <2>2 DEF TypeOK, Moved, Delivered
    <3> QED
      BY <3>1 DEF CallInv, Consistent, Allowed
  <2> QED
    BY <2>1, <2>2
<1> QED
  BY <1>1, <1>2 DEF CallInv

(* A call keeps its fill; one that is opened now has one.                   *)
LEMMA MovedIsFilled ==
  ASSUME TypeOK, OpenedIsFilled, UNCHANGED paper_mode, filled \subseteq filled',
         NEW c \in Calls, NEW p, NEW a, NEW r, NEW w,
         Moved(c, p, a, r, w),
         c \in Opens /\ p = "done" /\ ~paper_mode => w \in filled
  PROVE  OpenedIsFilled'
<1> SUFFICES ASSUME NEW d \in Opens, pc'[d] = "done", ~paper_mode
             PROVE  confirmed_by'[d] \in filled'
  BY DEF OpenedIsFilled
<1>0. d \in Calls
  BY DEF Calls
<1>1. CASE d = c
  BY <1>0, <1>1 DEF Moved, TypeOK
<1>2. CASE d # c
  BY <1>0, <1>2 DEF Moved, TypeOK, OpenedIsFilled
<1> QED
  BY <1>1, <1>2

(* What was known stays known. *)
LEMMA KnownMonotonic ==
  ASSUME filled \subseteq filled', NEW q \in Seq(Known)
  PROVE  Known \subseteq Known' /\ q \in Seq(Known')
<1>1. Known \subseteq Known'
  BY DEF Known
<1> QED
  BY <1>1, SeqMonotonic

-----------------------------------------------------------------------------
(* The turn of one call: it resumes and moves on or returns. *)
TurnTo(c, p, a, r, w) ==
  /\ p \in Waits \union Ended
  /\ a \in 0..MaxAttempts /\ r \in 0..MaxAttempts
  /\ w \in Calls \union {NoReply}
  /\ Moved(c, p, a, r, w)
  /\ Consistent(c, p, a, r, sent[c], late[c])
  /\ c \in Opens /\ p = "done" /\ ~paper_mode => w \in filled

Turn(c) == \E p, a, r, w : TurnTo(c, p, a, r, w)

(* A call in one of its awaits may fail; it may succeed if its order went  *)
(* out or trading is on paper, and an opening call has a fill to show.     *)
LEMMA FinishIsTurn ==
  ASSUME ExecInv, NEW c \in Calls, pc[c] \in Waits,
         NEW o \in Ended, NEW w \in Calls \union {NoReply},
         Finish(c, o), confirmed_by' = [confirmed_by EXCEPT ![c] = w],
         o = "done" /\ ~paper_mode => sent[c] > 0,
         c \in Opens /\ o = "done" /\ ~paper_mode => w \in filled
  PROVE  Turn(c)
<1>1. sent[c] \in Nat /\ late[c] \in Nat
      /\ Consistent(c, pc[c], attempt[c], retries[c], sent[c], late[c])
  BY OfCall DEF ExecInv
<1>2. Consistent(c, o, 0, 0, sent[c], late[c])
  BY <1>1 DEF Consistent, Ended, Waits
<1>3. Moved(c, o, 0, 0, w)
  BY DEF Finish, MoveTo, Moved
<1>4. 0 \in 0..MaxAttempts
  BY Bounds
<1>5. TurnTo(c, o, 0, 0, w)
  BY <1>2, <1>3, <1>4 DEF TurnTo
<1> QED
  BY <1>5 DEF Turn

(* A call that fails. *)
LEMMA FailureIsTurn ==
  ASSUME ExecInv, NEW c \in Calls, pc[c] \in Waits,
         Finish(c, "failed"), UNCHANGED confirmed_by
  PROVE  Turn(c)
<1>1. confirmed_by[c] \in Calls \union {NoReply}
      /\ confirmed_by' = [confirmed_by EXCEPT ![c] = confirmed_by[c]]
  BY DEF ExecInv, TypeOK
<1> QED
  BY <1>1, FinishIsTurn DEF Ended

(* A call that moves on to another await. *)
LEMMA MoveIsTurn ==
  ASSUME ExecInv, NEW c \in Calls,
         NEW p \in Waits, NEW a \in 0..MaxAttempts, NEW r \in 0..MaxAttempts,
         pc' = [pc EXCEPT ![c] = p],
         attempt' = [attempt EXCEPT ![c] = a],
         retries' = [retries EXCEPT ![c] = r],
         UNCHANGED confirmed_by,
         Consistent(c, p, a, r, sent[c], late[c])
  PROVE  Turn(c)
<1>1. confirmed_by[c] \in Calls \union {NoReply}
      /\ confirmed_by' = [confirmed_by EXCEPT ![c] = confirmed_by[c]]
  BY DEF ExecInv, TypeOK
<1>2. TurnTo(c, p, a, r, confirmed_by[c])
  BY <1>1 DEF TurnTo, Moved, Waits, Ended
<1> QED
  BY <1>2 DEF Turn

(* The same, when attempt and tracker stay as they are. *)
LEMMA WaitIsTurn ==
  ASSUME ExecInv, NEW c \in Calls, NEW p \in Waits,
         MoveTo(c, p), UNCHANGED <<attempt, retries, confirmed_by>>,
         Consistent(c, p, attempt[c], retries[c], sent[c], late[c])
  PROVE  Turn(c)
<1>1. attempt[c] \in 0..MaxAttempts /\ retries[c] \in 0..MaxAttempts
  BY DEF ExecInv, TypeOK
<1>2. /\ attempt' = [attempt EXCEPT ![c] = attempt[c]]
      /\ retries' = [retries EXCEPT ![c] = retries[c]]
  BY DEF ExecInv, TypeOK
<1> QED
  BY <1>1, <1>2, MoveIsTurn DEF MoveTo

(* open_position, close_position: the first attempt. *)
LEMMA BeginIsTurn ==
  ASSUME ExecInv, NEW c \in Calls, Begin(c)
  PROVE  Turn(c)
<1>1. retries[c] = 0 /\ sent[c] + late[c] = 0
  BY OfCall DEF ExecInv, Consistent, Begin, Waits
<1>2. sent[c] \in Nat /\ late[c] \in Nat
  BY OfCall DEF ExecInv
<1>3. Consistent(c, "writing", 1, 0, sent[c], late[c])
  BY <1>1, <1>2, Bounds DEF Consistent, Waits, Allowed
<1>4. retries' = [retries EXCEPT ![c] = 0]
  BY <1>1 DEF ExecInv, TypeOK, Begin
<1>5. 1 \in 0..MaxAttempts /\ 0 \in 0..MaxAttempts
  BY Bounds
<1> QED
  BY <1>3, <1>4, <1>5, MoveIsTurn DEF Begin, MoveTo, Waits

(* dispatch returned True. *)
LEMMA ProceedIsTurn ==
  ASSUME ExecInv, NEW c \in Calls, pc[c] \in {"writing", "reading"},
         Proceed(c), UNCHANGED confirmed_by,
         ~paper_mode => sent[c] > 0
  PROVE  Turn(c)
<1>1. CASE c \in Opens
  <2>1. Consistent(c, "waiting", attempt[c], retries[c], sent[c], late[c])
    BY <1>1, OfCall, Bounds DEF ExecInv, Consistent, Waits
  <2> QED
    BY <1>1, <2>1, WaitIsTurn DEF Proceed, Waits
<1>2. CASE c \notin Opens
  <2>1. confirmed_by[c] \in Calls \union {NoReply}
        /\ confirmed_by' = [confirmed_by EXCEPT ![c] = confirmed_by[c]]
    BY DEF ExecInv, TypeOK
  <2> QED
    BY <1>2, <2>1, FinishIsTurn DEF Proceed, Waits, Ended
<1> QED
  BY <1>1, <1>2

(* should_retry: the tracker stays below the attempts made. *)
LEMMA RetryIsTurn ==
  ASSUME ExecInv, NEW c \in Calls, pc[c] = "writing",
         should_retry(c), UNCHANGED confirmed_by
  PROVE  Turn(c)
<1>1. CASE c \in Opens /\ Tracker(c) < MaxAttempts
  <2>1. /\ attempt[c] \in Nat /\ retries[c] \in Nat
        /\ sent[c] \in Nat /\ late[c] \in Nat
        /\ attempt[c] <= MaxAttempts
        /\ Consistent(c, "writing", attempt[c], retries[c], sent[c], late[c])
    BY OfCall DEF ExecInv
  <2>2. Tracker(c) + 1 \in 0..MaxAttempts /\ Tracker(c) + 1 <= attempt[c] + 1
    BY <1>1, <2>1, Bounds DEF Tracker, Consistent, Waits
  <2>3. Consistent(c, "backoff", attempt[c], Tracker(c) + 1, sent[c], late[c])
    BY <1>1, <2>1, <2>2, Bounds DEF Consistent, Waits
  <2>4. attempt[c] \in 0..MaxAttempts
        /\ attempt' = [attempt EXCEPT ![c] = attempt[c]]
    BY <1>1, <2>1, Bounds DEF should_retry, ExecInv, TypeOK
  <2> QED
    BY <1>1, <2>2, <2>3, <2>4, MoveIsTurn DEF should_retry, MoveTo, Waits
<1>2. CASE ~(c \in Opens /\ Tracker(c) < MaxAttempts)
  BY <1>2, FailureIsTurn DEF should_retry, Waits
<1> QED
  BY <1>1, <1>2

(* After a wait without a fill. *)
LEMMA FallbackIsTurn ==
  ASSUME ExecInv, NEW c \in Opens, pc[c] = "waiting", Fallback(c)
  PROVE  Turn(c)
<1>0. c \in Calls /\ pc[c] \in Waits
  BY DEF Calls, Waits
<1>1. CASE last_response = NoReply /\ paper_mode
  BY <1>0, <1>1, FinishIsTurn DEF Fallback, Opened, Ended
<1>2. CASE last_response = NoReply /\ ~paper_mode /\ attempt[c] < MaxAttempts
  <2>1. Consistent(c, "backoff", attempt[c], retries[c], sent[c], late[c])
    BY <1>0, <1>2, OfCall DEF ExecInv, Consistent, Waits
  <2> QED
    BY <1>0, <1>2, <2>1, WaitIsTurn DEF Fallback, TryAgain, Waits
<1>3. CASE last_response = NoReply /\ ~paper_mode /\ ~(attempt[c] < MaxAttempts)
  BY <1>0, <1>3, FailureIsTurn DEF Fallback, TryAgain
<1>4. CASE last_response # NoReply /\ last_response.kind = "FILL"
  <2>1. last_response.call \in filled /\ last_response.call \in Calls
    BY <1>4 DEF ExecInv, MessagesInv, Known, TypeOK, Calls
  <2>2. ~paper_mode => sent[c] > 0
    BY <1>0, OfCall DEF ExecInv, Consistent
  <2> QED
    BY <1>0, <1>4, <2>1, <2>2, FinishIsTurn DEF Fallback, Opened, Ended
<1>5. CASE last_response # NoReply /\ last_response.kind # "FILL"
  BY <1>0, <1>5, FailureIsTurn DEF Fallback
<1> QED
  BY <1>1, <1>2, <1>3, <1>4, <1>5

(* The backoff is over. *)
LEMMA NextAttemptIsTurn ==
  ASSUME ExecInv, NEW c \in Calls, NextAttempt(c)
  PROVE  Turn(c)
<1>1. CASE attempt[c] < MaxAttempts
  <2>1. /\ attempt[c] \in Nat /\ retries[c] \in 0..MaxAttempts
        /\ sent[c] \in Nat /\ late[c] \in Nat
        /\ Consistent(c, "backoff", attempt[c], retries[c], sent[c], late[c])
    BY OfCall, Bounds DEF ExecInv, NextAttempt
  <2>2. Consistent(c, "writing", attempt[c] + 1, retries[c], sent[c], late[c])
    BY <1>1, <2>1 DEF Consistent, Waits
  <2>3. attempt[c] + 1 \in 0..MaxAttempts
        /\ retries' = [retries EXCEPT ![c] = retries[c]]
    BY <1>1, <2>1, Bounds DEF NextAttempt, ExecInv, TypeOK
  <2> QED
    BY <1>1, <2>1, <2>2, <2>3, MoveIsTurn DEF NextAttempt, MoveTo, Waits
<1>2. CASE ~(attempt[c] < MaxAttempts)
  BY <1>2, FailureIsTurn DEF NextAttempt, Waits
<1> QED
  BY <1>1, <1>2

(* A write that was given up on in time leaves room for itself. *)
LEMMA LateRetry ==
  ASSUME ExecInv, NEW c \in Calls, pc[c] = "writing", ~paper_mode,
         should_retry(c), NEW p, NEW a, NEW r, NEW w, TurnTo(c, p, a, r, w)
  PROVE  Consistent(c, p, a, r, sent[c], late[c] + 1)
<1>1. /\ attempt[c] \in Nat /\ attempt[c] <= MaxAttempts
      /\ sent[c] \in Nat /\ late[c] \in Nat
      /\ Consistent(c, "writing", attempt[c], retries[c], sent[c], late[c])
  BY OfCall DEF ExecInv
<1>2. /\ sent[c] + late[c] + 1 <= attempt[c]
      /\ attempt[c] <= Allowed(c) /\ Allowed(c) \in Nat
  BY <1>1, Bounds DEF Consistent, Waits, Allowed, Calls
<1>3. pc'[c] = p /\ attempt'[c] = a
  BY DEF TurnTo, Moved, ExecInv, TypeOK
<1>4. \/ p = "backoff" /\ a = attempt[c]
      \/ p = "failed"
  BY <1>3 DEF should_retry, Finish, MoveTo, ExecInv, TypeOK
<1> QED
  BY <1>1, <1>2, <1>4 DEF TurnTo, Consistent, Waits

(* The messages after a step that only loses, or loses and moves, some.    *)
LEMMA MessagesKept ==
  ASSUME ExecInv, filled \subseteq filled', filled' \subseteq Opens,
         last_response' \in {last_response, NoReply} \/ last_response' \in Known,
         fill_queue' \in Seq(Known), replies' \in Seq(Known)
  PROVE  /\ MessagesInv'
         /\ last_response' \in Answers \union {NoReply}
         /\ fill_queue' \in Seq(Answers) /\ replies' \in Seq(Answers)
<1>1. Known \subseteq Known' /\ Known \subseteq Answers
  BY DEF Known
<1>2. /\ fill_queue' \in Seq(Known') /\ replies' \in Seq(Known')
      /\ fill_queue' \in Seq(Answers) /\ replies' \in Seq(Answers)
  BY <1>1, SeqMonotonic
<1>3. last_response' \in Known \union {NoReply}
  BY DEF ExecInv, MessagesInv
<1> QED
  BY <1>1, <1>2, <1>3 DEF MessagesInv

(* A turn keeps ExecInv, a write that is still to come included.           *)
LEMMA TurnKeeps ==
  ASSUME ExecInv, NEW c \in Calls, NEW p, NEW a, NEW r, NEW w,
         TurnTo(c, p, a, r, w),
         NEW l \in Nat, Delivered(c, sent[c], l),
         Consistent(c, p, a, r, sent[c], l),
         UNCHANGED <<paper_mode, unanswered, filled>>,
         last_response' \in {last_response, NoReply} \/ last_response' \in Known,
         fill_queue' \in Seq(Known), Len(fill_queue') <= QueueMax,
         replies' \in Seq(Known)
  PROVE  ExecInv'
<1>1. sent[c] \in Nat
  BY DEF ExecInv, TypeOK
<1>2. CallTypes' /\ CallInv'
  BY <1>1, MovedKeeps DEF ExecInv, TurnTo
<1>3. OpenedIsFilled'
  BY MovedIsFilled DEF ExecInv, TurnTo
<1>4. filled \subseteq filled' /\ filled' \subseteq Opens
  BY DEF ExecInv, TypeOK
<1>5. /\ MessagesInv'
      /\ last_response' \in Answers \union {NoReply}
      /\ fill_queue' \in Seq(Answers) /\ replies' \in Seq(Answers)
  BY <1>4, MessagesKept
<1>6. TypeOK'
  BY <1>2, <1>4, <1>5 DEF CallTypes, ExecInv, TypeOK
<1> QED
  BY <1>2, <1>3, <1>5, <1>6 DEF ExecInv

(* The same, when the broker's side does not change. *)
LEMMA QuietTurnKeeps ==
  ASSUME ExecInv, NEW c \in Calls, Turn(c),
         UNCHANGED <<paper_mode, broker>>,
         last_response' \in {last_response, NoReply} \/ last_response' \in Known,
         fill_queue' \in Seq(Known), Len(fill_queue') <= QueueMax,
         replies' \in Seq(Known)
  PROVE  ExecInv'
<1>1. PICK p, a, r, w : TurnTo(c, p, a, r, w)
  BY DEF Turn
<1>2. late[c] \in Nat /\ Delivered(c, sent[c], late[c])
  BY DEF ExecInv, TypeOK, Delivered, broker
<1>3. Consistent(c, p, a, r, sent[c], late[c]) /\ UNCHANGED <<unanswered, filled>>
  BY <1>1 DEF TurnTo, broker
<1> QED
  BY <1>1, <1>2, <1>3, TurnKeeps

(* The queue and the pipe before a step. *)
LEMMA Inbound ==
  ASSUME ExecInv
  PROVE  /\ last_response \in Known \union {NoReply}
         /\ fill_queue \in Seq(Known) /\ replies \in Seq(Known)
         /\ Len(fill_queue) \in Nat /\ Len(fill_queue) <= QueueMax
         /\ fill_queue # <<>> => /\ Tail(fill_queue) \in Seq(Known)
                                 /\ Len(Tail(fill_queue)) <= QueueMax
                                 /\ Head(fill_queue) \in Known
         /\ replies # <<>> => /\ Tail(replies) \in Seq(Known)
                              /\ Head(replies) \in Known
         /\ <<>> \in Seq(Known)
<1>1. /\ last_response \in Known \union {NoReply}
      /\ fill_queue \in Seq(Known) /\ replies \in Seq(Known)
      /\ Len(fill_queue) <= QueueMax
  BY DEF ExecInv, MessagesInv, TypeOK
<1>2. Len(fill_queue) \in Nat /\ QueueMax \in Nat
  BY <1>1, LenProperties, Bounds
<1>3. ASSUME fill_queue # <<>>
      PROVE  /\ Tail(fill_queue) \in Seq(Known)
             /\ Len(Tail(fill_queue)) <= QueueMax
             /\ Head(fill_queue) \in Known
  BY <1>1, <1>2, <1>3, HeadTailProperties
<1>4. ASSUME replies # <<>>
      PROVE  Tail(replies) \in Seq(Known) /\ Head(replies) \in Known
  BY <1>1, <1>4, HeadTailProperties
<1>5. <<>> \in Seq(Known)
  BY EmptySeq
<1> QED
  BY <1>1, <1>2, <1>3, <1>4, <1>5

-----------------------------------------------------------------------------
(* A suspended call takes a turn whenever it resumes; only a write that is  *)
(* done in time moves an order as well.                                    *)
LEMMA ResumeIsTurn ==
  ASSUME ExecInv, NEW c \in Calls, Resume(c), ~Written(c)
  PROVE  Turn(c)
<1>1. Consistent(c, pc[c], attempt[c], retries[c], sent[c], late[c])
  BY OfCall DEF ExecInv
<1>2. pc[c] = "waiting" => c \in Opens /\ (~paper_mode => sent[c] > 0)
  BY <1>1 DEF Consistent, Calls
<1>3. CASE Paper(c)
  BY <1>3, ProceedIsTurn DEF Paper
<1>4. CASE DispatchFails(c)
  BY <1>4, RetryIsTurn DEF DispatchFails
<1>5. CASE Respond(c)
  BY <1>1, <1>5, ProceedIsTurn DEF Respond, Consistent
<1>6. CASE TakeMessage(c)
  <2>1. CASE Fallback(c)
    BY <1>2, <1>6, <2>1, FallbackIsTurn DEF TakeMessage
  <2>2. CASE Head(fill_queue).kind = "FILL" /\ Opened(c, Head(fill_queue).call)
    <3>1. Head(fill_queue).call \in filled /\ Head(fill_queue).call \in Calls
      BY <1>6, <2>2, Inbound DEF TakeMessage, Known, ExecInv, TypeOK, Calls
    <3> QED
      BY <1>2, <1>6, <2>2, <3>1, FinishIsTurn DEF TakeMessage, Opened, Waits, Ended
  <2>3. CASE UNCHANGED calls
    <3>1. MoveTo(c, "waiting") /\ UNCHANGED <<attempt, retries, confirmed_by>>
      BY <1>6, <2>3 DEF TakeMessage, MoveTo, calls, ExecInv, TypeOK
    <3> QED
      BY <1>1, <1>6, <3>1, WaitIsTurn DEF TakeMessage, Waits
  <2> QED
    BY <1>6, <2>1, <2>2, <2>3 DEF TakeMessage
<1>7. CASE WaitTimesOut(c)
  BY <1>2, <1>7, FallbackIsTurn DEF WaitTimesOut
<1>8. CASE NextAttempt(c)
  BY <1>8, NextAttemptIsTurn
<1> QED
  BY <1>3, <1>4, <1>5, <1>6, <1>7, <1>8 DEF Resume

(* Every step of a call keeps ExecInv. *)
LEMMA ResumeKeeps ==
  ASSUME ExecInv, NEW c \in Calls, Begin(c) \/ Resume(c)
  PROVE  ExecInv'
<1>0. UNCHANGED <<last_response, inbound>> =>
        /\ last_response' \in {last_response, NoReply}
        /\ fill_queue' \in Seq(Known) /\ Len(fill_queue') <= QueueMax
        /\ replies' \in Seq(Known)
  BY Inbound DEF inbound
<1>1. CASE Begin(c)
  BY <1>0, <1>1, BeginIsTurn, QuietTurnKeeps DEF Begin
<1>2. CASE Written(c)
  <2>1. /\ sent[c] \in Nat /\ late[c] \in Nat
        /\ attempt[c] \in Nat /\ retries[c] \in Nat
        /\ Consistent(c, "writing", attempt[c], retries[c], sent[c], late[c])
    BY <1>2, OfCall DEF ExecInv, Written
  <2>2. Consistent(c, "reading", attempt[c], retries[c], sent[c] + 1, late[c])
    <3>1. attempt[c] <= Allowed(c) /\ Allowed(c) \in Nat
      BY <2>1, OfCall, Bounds DEF ExecInv, Consistent, Allowed, Calls
    <3> QED
      BY <1>2, <2>1, <3>1 DEF Consistent, Waits, Written
  <2>3. /\ attempt[c] \in 0..MaxAttempts /\ retries[c] \in 0..MaxAttempts
        /\ confirmed_by[c] \in Calls \union {NoReply}
        /\ Moved(c, "reading", attempt[c], retries[c], confirmed_by[c])
        /\ Delivered(c, sent[c] + 1, late[c])
    BY <1>2 DEF Written, Reaches, MoveTo, Moved, Delivered, ExecInv, TypeOK
  <2>4. "reading" \in {"idle"} \union Waits \union Ended /\ sent[c] + 1 \in Nat
    BY <2>1 DEF Waits
  <2>5. UNCHANGED paper_mode
    BY <1>2 DEF Written
  <2>6. CallTypes' /\ CallInv'
    BY <2>1, <2>2, <2>3, <2>4, <2>5, MovedKeeps DEF ExecInv
  <2>7. OpenedIsFilled'
    <3>1. filled \subseteq filled'
      BY <1>2 DEF Written, Reaches
    <3> QED
      BY <2>3, <2>5, <3>1, MovedIsFilled DEF ExecInv
  <2>8. /\ MessagesInv'
        /\ last_response' \in Answers \union {NoReply}
        /\ fill_queue' \in Seq(Answers) /\ replies' \in Seq(Answers)
    <3>1. filled \subseteq filled' /\ filled' \subseteq Opens
      BY <1>2 DEF Written, Reaches, ExecInv, TypeOK
    <3>2. /\ last_response' \in {last_response, NoReply}
          /\ fill_queue' \in Seq(Known) /\ replies' \in Seq(Known)
      BY <1>2, Inbound DEF Written
    <3> QED
      BY <3>1, <3>2, MessagesKept
  <2>9. unanswered' \in [Calls -> Nat] /\ filled' \subseteq Opens
        /\ Len(fill_queue') <= QueueMax
    BY <1>2 DEF Written, Reaches, ExecInv, TypeOK
  <2>10. TypeOK'
    BY <2>5, <2>6, <2>8, <2>9 DEF CallTypes, ExecInv, TypeOK
  <2> QED
    BY <2>6, <2>7, <2>8, <2>10 DEF ExecInv
<1>3. CASE DispatchFails(c)
  <2>1. Turn(c)
    BY <1>3, RetryIsTurn DEF DispatchFails
  <2>2. PICK p, a, r, w : TurnTo(c, p, a, r, w)
    BY <2>1 DEF Turn
  <2>3. UNCHANGED <<paper_mode, unanswered, filled, last_response, fill_queue, replies>>
    BY <1>3 DEF DispatchFails, inbound
  <2>4. CASE UNCHANGED late
    BY <1>0, <1>3, <2>1, <2>4, QuietTurnKeeps DEF DispatchFails, broker
  <2>5. CASE ~paper_mode /\ late' = [late EXCEPT ![c] = @ + 1]
    <3>1. Consistent(c, p, a, r, sent[c], late[c] + 1)
      BY <1>3, <2>2, <2>5, LateRetry DEF DispatchFails
    <3>2. late[c] + 1 \in Nat /\ Delivered(c, sent[c], late[c] + 1)
      BY <1>3, <2>5 DEF DispatchFails, Delivered, ExecInv, TypeOK
    <3>3. /\ last_response' \in {last_response, NoReply}
          /\ fill_queue' \in Seq(Known) /\ Len(fill_queue') <= QueueMax
          /\ replies' \in Seq(Known)
      BY <2>3, Inbound
    <3> QED
      BY <2>2, <2>3, <3>1, <3>2, <3>3, TurnKeeps
  <2> QED
    BY <1>3, <2>4, <2>5 DEF DispatchFails
<1>4. CASE \/ Paper(c) \/ Respond(c) \/ TakeMessage(c)
           \/ WaitTimesOut(c) \/ NextAttempt(c)
  <2>1. Turn(c)
    <3>1. pc[c] # "writing" \/ paper_mode
      BY <1>4 DEF Paper, Respond, TakeMessage, WaitTimesOut, NextAttempt
    <3> QED
      BY <1>4, <3>1, ResumeIsTurn DEF Resume, Written
  <2>2. UNCHANGED <<paper_mode, broker>>
    BY <1>4 DEF Paper, Respond, TakeMessage, WaitTimesOut, NextAttempt
  <2>3. /\ last_response' \in {last_response, NoReply} \/ last_response' \in Known
        /\ fill_queue' \in Seq(Known) /\ Len(fill_queue') <= QueueMax
        /\ replies' \in Seq(Known)
    BY <1>4, Inbound DEF Paper, Respond, TakeMessage, WaitTimesOut, NextAttempt, inbound
  <2> QED
    BY <2>1, <2>2, <2>3, QuietTurnKeeps
<1> QED
  BY <1>1, <1>2, <1>3, <1>4 DEF Resume

(* A write given up on was counted when it was given up. *)
LEMMA LateWriteKeeps ==
  ASSUME ExecInv, NEW c \in Calls, LateWrite(c)
  PROVE  ExecInv'
<1>1. /\ pc[c] \in {"idle"} \union Waits \union Ended
      /\ attempt[c] \in 0..MaxAttempts /\ retries[c] \in 0..MaxAttempts
      /\ confirmed_by[c] \in Calls \union {NoReply}
      /\ sent[c] + 1 \in Nat /\ late[c] - 1 \in Nat
  BY DEF LateWrite, ExecInv, TypeOK
<1>2. Consistent(c, pc[c], attempt[c], retries[c], sent[c] + 1, late[c] - 1)
  <2>1. /\ sent[c] \in Nat /\ late[c] \in Nat /\ late[c] > 0
        /\ Consistent(c, pc[c], attempt[c], retries[c], sent[c], late[c])
    BY OfCall DEF ExecInv, LateWrite
  <2>2. sent[c] + 1 + (late[c] - 1) = sent[c] + late[c] /\ sent[c] + 1 > 0
    BY <2>1
  <2> QED
    BY <2>1, <2>2 DEF Consistent
<1>3. Moved(c, pc[c], attempt[c], retries[c], confirmed_by[c])
  BY DEF LateWrite, calls, Moved, ExecInv, TypeOK
<1>4. Delivered(c, sent[c] + 1, late[c] - 1)
  BY DEF LateWrite, Reaches, Delivered
<1>5. UNCHANGED <<paper_mode, last_response, fill_queue, replies, filled>>
  BY DEF LateWrite, Reaches, inbound
<1>6. CallTypes' /\ CallInv'
  BY <1>1, <1>2, <1>3, <1>4, <1>5, MovedKeeps DEF ExecInv
<1>7. OpenedIsFilled' /\ MessagesInv'
  BY <1>5, <1>3 DEF LateWrite, calls, ExecInv, OpenedIsFilled, MessagesInv, Known
<1>8. unanswered' \in [Calls -> Nat]
  BY DEF LateWrite, Reaches, ExecInv, TypeOK
<1>9. TypeOK'
  BY <1>5, <1>6, <1>8 DEF CallTypes, ExecInv, TypeOK
<1> QED
  BY <1>6, <1>7, <1>9 DEF ExecInv

(* A fill is recorded in the step that sends it, and the queue is never     *)
(* filled past its size.                                                   *)
LEMMA AnswerKeeps ==
  ASSUME ExecInv, NEW c \in Calls, Answer(c)
  PROVE  ExecInv'
<1>1. PICK answer \in Answers :
        /\ unanswered[c] > 0
        /\ answer.kind \in IF c \in Closes THEN {"CLOSED"} ELSE {"FILL", "REJECT"}
        /\ answer.kind = "FILL" => answer.call = c
        /\ unanswered' = [unanswered EXCEPT ![c] = @ - 1]
        /\ filled' = IF answer.kind = "FILL" THEN filled \union {c} ELSE filled
        /\ \/ Enqueue(answer) /\ UNCHANGED replies
           \/ /\ Len(replies) < PipeMax
              /\ replies' = Append(replies, answer)
              /\ UNCHANGED fill_queue
           \/ UNCHANGED inbound
        /\ UNCHANGED <<paper_mode, calls, last_response, late, sent>>
  BY DEF Answer
<1>2. filled \subseteq filled' /\ filled' \subseteq Opens /\ answer \in Known'
  BY <1>1 DEF ExecInv, TypeOK, Calls, Known
<1>3. /\ fill_queue \in Seq(Known') /\ replies \in Seq(Known')
      /\ last_response \in Known' \union {NoReply}
  BY <1>2, KnownMonotonic, Inbound
<1>4. Len(fill_queue) \in Nat /\ Len(fill_queue) <= QueueMax /\ QueueMax \in Nat
  BY Inbound, Bounds
<1>5. fill_queue' \in Seq(Known') /\ Len(fill_queue') <= QueueMax
  <2>1. CASE Enqueue(answer) /\ Len(fill_queue) < QueueMax
    <3>1. fill_queue' = Append(fill_queue, answer)
      BY <1>4, <2>1 DEF Enqueue
    <3>2. /\ Append(fill_queue, answer) \in Seq(Known')
          /\ Len(Append(fill_queue, answer)) = Len(fill_queue) + 1
      BY <1>2, <1>3, AppendProperties
    <3> QED
      BY <1>4, <2>1, <3>1, <3>2
  <2>2. CASE fill_queue' = fill_queue
    BY <1>3, <1>4, <2>2
  <2> QED
    BY <1>1, <1>4, <2>1, <2>2 DEF Enqueue, inbound
<1>6. replies' \in Seq(Known')
  <2>1. Append(replies, answer) \in Seq(Known')
    BY <1>2, <1>3, AppendProperties
  <2> QED
    BY <1>1, <1>3, <2>1 DEF inbound
<1>7. MessagesInv'
  BY <1>1, <1>3, <1>5, <1>6 DEF MessagesInv
<1>8. CallInv' /\ OpenedIsFilled'
  BY <1>1, <1>2 DEF calls, ExecInv, CallInv, Consistent, Allowed, OpenedIsFilled
<1>9. TypeOK'
  <2>1. Known' \subseteq Answers
    BY DEF Known
  <2>2. fill_queue' \in Seq(Answers) /\ replies' \in Seq(Answers)
    BY <1>5, <1>6, <2>1, SeqMonotonic
  <2>3. unanswered' \in [Calls -> Nat]
    BY <1>1 DEF ExecInv, TypeOK
  <2> QED
    BY <1>1, <1>2, <1>5, <2>2, <2>3 DEF calls, ExecInv, TypeOK
<1> QED
  BY <1>7, <1>8, <1>9 DEF ExecInv

(* Nothing has been called. *)
LEMMA ExecInit == Init => ExecInv
<1> SUFFICES ASSUME Init PROVE ExecInv
  OBVIOUS
<1>1. /\ pc = [c \in Calls |-> "idle"] /\ attempt = [c \in Calls |-> 0]
      /\ retries = [c \in Calls |-> 0] /\ late = [c \in Calls |-> 0]
      /\ sent = [c \in Calls |-> 0] /\ filled = {} /\ fill_queue = <<>>
      /\ replies = <<>> /\ last_response = NoReply
  BY DEF Init
<1>2. /\ <<>> \in Seq(Answers) /\ <<>> \in Seq(Known) /\ Len(<<>>) = 0
  BY EmptySeq
<1>3. TypeOK
  BY <1>1, <1>2, Bounds DEF Init, TypeOK, Waits, Ended
<1>4. CallInv
  BY <1>1, Bounds DEF CallInv, Consistent, Waits, Allowed
<1>5. MessagesInv /\ OpenedIsFilled
  BY <1>1, <1>2 DEF MessagesInv, OpenedIsFilled, Calls
<1> QED
  BY <1>3, <1>4, <1>5 DEF ExecInv

(* ExecInv is inductive. *)
LEMMA ExecStep == ExecInv /\ [Next]_exec => ExecInv'
<1> SUFFICES ASSUME ExecInv, [Next]_exec PROVE ExecInv'
  OBVIOUS
<1>1. CASE UNCHANGED exec
  BY <1>1 DEF exec, calls, inbound, broker, ExecInv, TypeOK, CallInv, Consistent,
              Allowed, MessagesInv, Known, OpenedIsFilled
<1>2. ASSUME NEW c \in Calls, Begin(c) \/ Resume(c) \/ LateWrite(c) \/ Answer(c)
      PROVE  ExecInv'
  BY <1>2, ResumeKeeps, LateWriteKeeps, AnswerKeeps
<1> QED
  BY <1>1, <1>2 DEF Next

(* The commander keeps ExecInv, with or without fairness. *)
THEOREM ExecInvariant == Spec => []ExecInv
BY ExecInit, ExecStep, PTL DEF Spec

-----------------------------------------------------------------------------
(* The calls, the shared queue and the pipe keep their types, for any       *)
(* number of calls and attempts and any size of the queue.                 *)
THEOREM ExecTypeCorrect == Spec => []TypeOK
<1>1. ExecInv => TypeOK
  BY DEF ExecInv
<1> QED
  BY <1>1, ExecInvariant, PTL

(* A call that reports a position live holds a fill the broker sent.       *)
THEOREM OpenedCorrect == Spec => []OpenedIsFilled
<1>1. ExecInv => OpenedIsFilled
  BY DEF ExecInv
<1> QED
  BY <1>1, ExecInvariant, PTL

(* The tracker of retry.py never outruns the loop of the commander and     *)
(* never outlives its call.                                                *)
THEOREM TrackersCorrect == Spec => []TrackersFollow
<1>1. ASSUME ExecInv PROVE TrackersFollow
  <2> SUFFICES ASSUME NEW c \in Calls
               PROVE  /\ retries[c] <= attempt[c] + 1
                      /\ pc[c] \notin Waits => retries[c] = 0
    BY DEF TrackersFollow
  <2> QED
    BY <1>1, OfCall DEF ExecInv, Consistent
<1> QED
  BY <1>1, ExecInvariant, PTL

-----------------------------------------------------------------------------
(* The orders of ExecutionPort: what a call may hand over. *)
LEMMA OrdersOf ==
  ASSUME NEW c \in Calls
  PROVE  [d \in Calls |-> IF d \in Opens THEN MaxAttempts ELSE 1][c] = Allowed(c)
BY DEF Allowed

(* How the status of the calls changes when pc changes at c only. *)
LEMMA StatusChanges ==
  ASSUME TypeOK, NEW c \in Calls, NEW p, pc' = [pc EXCEPT ![c] = p]
  PROVE  [d \in Calls |-> Status(d)]'
           = [[d \in Calls |-> Status(d)] EXCEPT
                ![c] = IF p \in Waits THEN "pending" ELSE p]
BY DEF TypeOK, Status

(* A turn begins the call, is invisible, or returns. *)
LEMMA TurnIsPortStep ==
  ASSUME ExecInv, NEW c \in Calls, Turn(c), UNCHANGED <<paper_mode, sent>>,
         pc[c] \in Waits \/ (pc[c] = "idle" /\ pc'[c] \in Waits)
  PROVE  [Port!PortNext]_(Port!port)
<1> DEFINE status == [d \in Calls |-> Status(d)]
<1>1. PICK p, a, r, w : TurnTo(c, p, a, r, w)
  BY DEF Turn
<1>2. /\ pc' = [pc EXCEPT ![c] = p] /\ pc'[c] = p
      /\ p \in Waits \union Ended
      /\ Consistent(c, p, a, r, sent[c], late[c])
  BY <1>1 DEF TurnTo, Moved, ExecInv, TypeOK
<1>3. status' = [status EXCEPT ![c] = IF p \in Waits THEN "pending" ELSE p]
  BY <1>2, StatusChanges DEF ExecInv
<1>4. status[c] = IF pc[c] \in Waits THEN "pending" ELSE pc[c]
  BY DEF Status
<1>5. (~paper_mode)' = ~paper_mode /\ sent' = sent
  OBVIOUS
<1>6. CASE pc[c] = "idle"
  <2>1. status[c] = "idle" /\ status' = [status EXCEPT ![c] = "pending"]
    BY <1>2, <1>3, <1>4, <1>6 DEF Waits
  <2>2. Port!Begin(c)
    BY <1>5, <2>1 DEF Port!Begin
  <2> QED
    BY <2>2 DEF Port!PortNext
<1>7. CASE pc[c] \in Waits /\ p \in Waits
  <2>1. status[c] = "pending" /\ status' = [status EXCEPT ![c] = "pending"]
    BY <1>3, <1>4, <1>7
  <2>2. status' = status
    BY <2>1
  <2> QED
    BY <1>5, <2>2 DEF Port!port
<1>8. CASE pc[c] \in Waits /\ p \in Ended
  <2>1. status[c] = "pending" /\ status' = [status EXCEPT ![c] = p]
    BY <1>3, <1>4, <1>8 DEF Waits, Ended
  <2>2. p = "done" /\ ~paper_mode => sent[c] > 0
    BY <1>2 DEF Consistent
  <2>3. Port!Return(c, p)
    BY <1>5, <2>1, <2>2 DEF Port!Return
  <2> QED
    BY <1>8, <2>3 DEF Port!PortNext, Port!Ended, Ended
<1> QED
  BY <1>2, <1>6, <1>7, <1>8

(* An order that reaches the pipe is handed over, within what is allowed.  *)
LEMMA ReachesIsHandOver ==
  ASSUME ExecInv, NEW c \in Calls, ~paper_mode, UNCHANGED paper_mode, Reaches(c),
         pc[c] # "idle", sent[c] < Allowed(c),
         [d \in Calls |-> Status(d)]' = [d \in Calls |-> Status(d)]
  PROVE  [Port!PortNext]_(Port!port)
<1>1. [d \in Calls |-> Status(d)][c] # "idle"
  BY DEF Status
<1>2. sent[c] < [d \in Calls |-> IF d \in Opens THEN MaxAttempts ELSE 1][c]
  BY OrdersOf
<1>3. sent' = [sent EXCEPT ![c] = @ + 1]
  BY DEF Reaches
<1>4. (~paper_mode)' = ~paper_mode
  OBVIOUS
<1>5. Port!HandOver(c)
  BY <1>1, <1>2, <1>3, <1>4 DEF Port!HandOver
<1> QED
  BY <1>5 DEF Port!PortNext

(* Every step of the commander is a step of ExecutionPort or a stutter. *)
LEMMA StepIsPortStep ==
  ASSUME ExecInv, [Next]_exec
  PROVE  [Port!PortNext]_(Port!port)
<1>1. ASSUME UNCHANGED <<paper_mode, pc, sent>>
      PROVE  [Port!PortNext]_(Port!port)
  <2>1. [d \in Calls |-> Status(d)]' = [d \in Calls |-> Status(d)]
    BY <1>1 DEF Status
  <2> QED
    BY <1>1, <2>1 DEF Port!port
<1>2. CASE UNCHANGED exec
  BY <1>1, <1>2 DEF exec, calls, broker
<1>3. ASSUME NEW c \in Calls, Begin(c)
      PROVE  [Port!PortNext]_(Port!port)
  <2>1. pc[c] = "idle" /\ pc'[c] \in Waits
    BY <1>3 DEF Begin, MoveTo, Waits, ExecInv, TypeOK
  <2> QED
    BY <1>3, <2>1, BeginIsTurn, TurnIsPortStep DEF Begin, broker
<1>4. ASSUME NEW c \in Calls, Written(c)
      PROVE  [Port!PortNext]_(Port!port)
  <2>1. sent[c] < Allowed(c)
    <3>1. /\ sent[c] \in Nat /\ late[c] \in Nat
          /\ attempt[c] \in Nat /\ attempt[c] <= MaxAttempts
          /\ Consistent(c, "writing", attempt[c], retries[c], sent[c], late[c])
      BY <1>4, OfCall DEF ExecInv, Written
    <3> QED
      BY <3>1, Bounds DEF Consistent, Waits, Allowed, Calls
  <2>2. [d \in Calls |-> Status(d)]' = [d \in Calls |-> Status(d)]
    <3>1. pc' = [pc EXCEPT ![c] = "reading"] /\ pc[c] \in Waits /\ "reading" \in Waits
      BY <1>4 DEF Written, MoveTo, Waits
    <3> QED
      BY <3>1 DEF Status, ExecInv, TypeOK
  <2> QED
    BY <1>4, <2>1, <2>2, ReachesIsHandOver DEF Written
<1>5. ASSUME NEW c \in Calls, LateWrite(c)
      PROVE  [Port!PortNext]_(Port!port)
  <2>1. /\ sent[c] \in Nat /\ late[c] \in Nat /\ late[c] > 0
        /\ Consistent(c, pc[c], attempt[c], retries[c], sent[c], late[c])
    BY <1>5, OfCall DEF ExecInv, LateWrite
  <2>2. Allowed(c) \in Nat
    BY Bounds DEF Allowed
  <2>3. ~paper_mode /\ pc[c] # "idle" /\ sent[c] < Allowed(c)
    BY <2>1, <2>2 DEF Consistent
  <2>4. UNCHANGED <<paper_mode, pc>> /\ Reaches(c)
    BY <1>5 DEF LateWrite, calls
  <2>5. [d \in Calls |-> Status(d)]' = [d \in Calls |-> Status(d)]
    BY <2>4 DEF Status
  <2> QED
    BY <2>3, <2>4, <2>5, ReachesIsHandOver
<1>6. ASSUME NEW c \in Calls, Answer(c)
      PROVE  [Port!PortNext]_(Port!port)
  BY <1>1, <1>6 DEF Answer, calls
<1>7. ASSUME NEW c \in Calls, Resume(c), ~Written(c)
      PROVE  [Port!PortNext]_(Port!port)
  <2>1. UNCHANGED <<paper_mode, sent>> /\ pc[c] \in Waits
    BY <1>7 DEF Resume, Paper, DispatchFails, Respond, TakeMessage, WaitTimesOut,
                NextAttempt, broker, Waits
  <2>2. Turn(c)
    BY <1>7, ResumeIsTurn
  <2> QED
    BY <2>1, <2>2, TurnIsPortStep
<1> QED
  BY <1>2, <1>3, <1>4, <1>5, <1>6, <1>7 DEF Next

(* The commander implements ExecutionPort: each call returns at most once, *)
(* hands over no more orders than allowed, late ones included, and a live   *)
(* success has handed one over. Its fairness is left to the runs.          *)
THEOREM ExecutionImplementsPort ==
  Spec => Port!PortInit /\ [][Port!PortNext]_(Port!port)
<1>1. Init => Port!PortInit
  BY DEF Init, Port!PortInit, Status, Waits
<1>2. ExecInv /\ [Next]_exec => [Port!PortNext]_(Port!port)
  BY StepIsPortStep
<1> QED
  BY <1>1, <1>2, ExecInvariant, PTL DEF Spec
=============================================================================
