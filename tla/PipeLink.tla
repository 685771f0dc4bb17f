-------------------------------- MODULE PipeLink --------------------------------
(***************************************************************************)
(* The commands pipe of the bridge: bridge/pipe_client.py and those who    *)
(* share it, the reconnect manager (bridge/reconnect.py), the queue writer *)
(* (bridge/writer.py) and the dispatcher's calls (execution/dispatcher.py, *)
(* which connects before each of its writes).                              *)
(*                                                                         *)
(* Opening, reading and writing run in an executor thread. A step is the   *)
(* code between two awaits. The handle is replaced by every connect that   *)
(* succeeds; a transfer under way goes on with the handle it began with,   *)
(* and a failure clears the one flag "connected", whoever set it.          *)
(* Whether an open succeeds, and when the other end drops a connection,    *)
(* is outside this code and left open.                                     *)
(***************************************************************************)
EXTENDS Integers, Sequences

CONSTANTS
  Dispatches,   \* calls of PipeDispatcher.dispatch that may be under way
  QueueMax,     \* maxsize of the writer's queue
  Threshold,    \* _circuit_breaker_threshold
  MaxAttempts,  \* RECONNECT_MAX_ATTEMPTS
  MaxMessages   \* bound of the model: messages enqueue accepts

ASSUME LinkAssumption ==
  /\ QueueMax \in Nat \ {0}
  /\ Threshold \in Nat \ {0}
  /\ MaxAttempts \in Nat
  /\ MaxMessages \in Nat
  /\ Dispatches \intersect {"writer", "free"} = {}

Writers == Dispatches \union {"writer"}

VARIABLES
  connected,    \* PipeClient._connected
  handle,       \* PipeClient._handle: none, or whether the other end serves it
  lock,         \* PipeClient._write_lock: who holds it, or "free"
  phase,        \* per dispatch: idle, connecting, in writeline or in readline
  using,        \* per writer: its transfer has the current handle, an old or a dead one
  manager,      \* ReconnectManager.run: the await it is in
  attempt,      \* its local attempt, not counted beyond MaxAttempts + 1
  last_was_connected,
  pause_flag,
  writer,       \* PipeWriter.run: the await it is in
  queue,        \* PipeWriter._queue: numbers of accepted messages
  in_hand,      \* the message being written, 0 if none
  breaker_open, \* _circuit_breaker_open
  failures,     \* _circuit_breaker_failures
  metrics,      \* WriterMetrics
  written       \* history: the messages written, in order

client == <<connected, handle, lock, using>>
reconnect == <<manager, attempt, last_was_connected, pause_flag>>
queued == <<queue, metrics>>
writing == <<writer, in_hand, breaker_open, failures, written>>
vars == <<client, phase, reconnect, queued, writing>>

(* main.py has connected, or trades on paper and has not; the manager is   *)
(* at the top of its loop.                                                 *)
Init ==
  /\ connected \in BOOLEAN
  /\ handle = IF connected THEN "live" ELSE "none"
  /\ lock = "free"
  /\ phase = [d \in Dispatches |-> "idle"]
  /\ using = [w \in Writers |-> "current"]
  /\ manager = "sleeping"
  /\ attempt = 0
  /\ last_was_connected = connected
  /\ pause_flag = FALSE
  /\ writer = "getting"
  /\ queue = <<>>
  /\ in_hand = 0
  /\ breaker_open = FALSE
  /\ failures = 0
  /\ metrics = [enqueued |-> 0, written |-> 0, failed |-> 0, overflows |-> 0]
  /\ written = <<>>

-----------------------------------------------------------------------------
(* bridge/pipe_client.py *)

(* connect returns: the open succeeded, and writes under way keep the old  *)
(* handle; or it raised, and the flag is cleared whatever handle is there. *)
Connected(outcome) ==
  IF outcome
  THEN /\ connected' = TRUE
       /\ handle' = "live"
       /\ using' = [w \in Writers |-> IF using[w] = "dead" THEN "dead" ELSE "old"]
  ELSE /\ connected' = FALSE
       /\ UNCHANGED <<handle, using>>

(* What readline and writeline look at before they wait for their lock. *)
Usable == connected /\ handle # "none"

(* A transfer that begins now takes the handle that is there. *)
TakeHandle(w) ==
  /\ using' = [using EXCEPT ![w] = IF handle = "live" THEN "current" ELSE "dead"]
  /\ UNCHANGED <<connected, handle>>

TakeLock(w) == lock = "free" /\ lock' = w /\ TakeHandle(w)

(* A transfer returns: it raises, and clears the flag, on a handle that    *)
(* was dropped before it began, may raise on one dropped since or replaced,*)
(* and succeeds otherwise.                                                 *)
Outcome(w, ok) ==
  /\ ok => using[w] # "dead"
  /\ ~ok => using[w] # "current" \/ handle = "dead"
  /\ connected' = (connected /\ ok)
  /\ UNCHANGED <<handle, using>>

WriteOutcome(w, ok) == Outcome(w, ok) /\ lock' = "free"

(* The other end goes away. *)
ServerDrops ==
  /\ handle = "live"
  /\ handle' = "dead"
  /\ UNCHANGED <<connected, lock, using, phase, reconnect, queued, writing>>

-----------------------------------------------------------------------------
(* bridge/reconnect.py *)

(* Mutant: a lost connection is noticed at every turn of the loop.         *)
MutResetsWhileDown(is_connected, counted, was_connected) ==
  IF is_connected
  THEN /\ manager' = "sleeping" /\ attempt' = 0 /\ last_was_connected' = TRUE
  ELSE /\ attempt' = 1 /\ manager' = "backoff" /\ last_was_connected' = FALSE

(* The loop from its top to its next await: a connection is looked at once *)
(* a second; a lost one is counted, waited for and tried again, until the  *)
(* attempts are used up and the loop only sleeps.                          *)
LoopTop(is_connected, counted, was_connected) ==
  LET begun == IF was_connected THEN 0 ELSE counted IN
  IF is_connected
  THEN /\ manager' = "sleeping" /\ attempt' = 0 /\ last_was_connected' = TRUE
  ELSE /\ attempt' = IF begun > MaxAttempts THEN begun ELSE begun + 1
       /\ manager' = IF begun >= MaxAttempts THEN "sleeping" ELSE "backoff"
       /\ last_was_connected' = FALSE

ManagerWakes ==
  /\ manager = "sleeping"
  /\ LoopTop(connected, attempt, last_was_connected)
  /\ pause_flag' = (pause_flag \/ attempt' > MaxAttempts)
  /\ UNCHANGED <<client, phase, queued, writing>>

BackoffEnds ==
  /\ manager = "backoff"
  /\ manager' = "connecting"
  /\ UNCHANGED <<client, phase, attempt, last_was_connected, pause_flag, queued, writing>>

(* The manager's connect returns, and the loop goes on to its top. *)
ManagerConnects(outcome) ==
  /\ manager = "connecting"
  /\ Connected(outcome)
  /\ UNCHANGED lock
  /\ LoopTop(outcome, IF outcome THEN 0 ELSE attempt, FALSE)
  /\ pause_flag' = (~outcome /\ (pause_flag \/ attempt' > MaxAttempts))
  /\ UNCHANGED <<phase, queued, writing>>

-----------------------------------------------------------------------------
(* execution/dispatcher.py, trading live: _write_to_pipe, then             *)
(* _read_response, each under its timeout.                                 *)

DispatchBegins(d) ==
  /\ phase[d] = "idle"
  /\ phase' = [phase EXCEPT ![d] = "connecting"]
  /\ UNCHANGED <<client, reconnect, queued, writing>>

(* Its connect returns. writeline looks at the flag and waits for the lock. *)
DispatchConnects(d, outcome) ==
  /\ phase[d] = "connecting"
  /\ Connected(outcome)
  /\ phase' = [phase EXCEPT ![d] = IF outcome THEN "locking" ELSE "idle"]
  /\ UNCHANGED <<lock, reconnect, queued, writing>>

DispatchWrites(d) ==
  /\ phase[d] = "locking"
  /\ TakeLock(d)
  /\ phase' = [phase EXCEPT ![d] = "writing"]
  /\ UNCHANGED <<reconnect, queued, writing>>

DispatchEnds(d, ok) ==
  /\ phase[d] = "writing"
  /\ WriteOutcome(d, ok)
  /\ phase' = [phase EXCEPT ![d] = IF ok THEN "written" ELSE "idle"]
  /\ UNCHANGED <<reconnect, queued, writing>>

(* readline looks at the flag; without a connection there is no response.  *)
DispatchListens(d) ==
  /\ phase[d] = "written"
  /\ phase' = [phase EXCEPT ![d] = IF Usable THEN "waiting" ELSE "idle"]
  /\ UNCHANGED <<client, reconnect, queued, writing>>

(* It has the read lock, which is that of the dispatch in "reading". *)
DispatchReads(d) ==
  /\ phase[d] = "waiting"
  /\ \A e \in Dispatches : phase[e] # "reading"
  /\ TakeHandle(d)
  /\ phase' = [phase EXCEPT ![d] = "reading"]
  /\ UNCHANGED <<lock, reconnect, queued, writing>>

DispatchHears(d, ok) ==
  /\ phase[d] = "reading"
  /\ Outcome(d, ok)
  /\ phase' = [phase EXCEPT ![d] = "idle"]
  /\ UNCHANGED <<lock, reconnect, queued, writing>>

(* A timeout cancels the call: in connect neither branch runs and the      *)
(* handle of the thread is dropped; in writeline and readline the lock is  *)
(* released and the flag left as it is.                                    *)
DispatchTimesOut(d) ==
  /\ phase[d] \in {"connecting", "locking", "writing", "waiting", "reading"}
  /\ phase' = [phase EXCEPT ![d] = "idle"]
  /\ lock' = IF lock = d THEN "free" ELSE lock
  /\ UNCHANGED <<connected, handle, using, reconnect, queued, writing>>

-----------------------------------------------------------------------------
(* bridge/writer.py *)

Count(field) == metrics' = [metrics EXCEPT ![field] = @ + 1]

(* Mutant: what the full queue loses is not counted.                       *)
MutForgetsOverflow ==
  /\ metrics.enqueued < MaxMessages
  /\ ~breaker_open
  /\ queue' = Append(IF Len(queue) < QueueMax THEN queue ELSE Tail(queue), metrics.enqueued + 1)
  /\ Count("enqueued")
  /\ UNCHANGED <<client, phase, reconnect, writing>>

(* enqueue, by any coroutine: refused while the breaker is open, which     *)
(* changes nothing; a full queue loses its oldest message.                 *)
Enqueue ==
  /\ metrics.enqueued < MaxMessages
  /\ ~breaker_open
  /\ IF Len(queue) < QueueMax
     THEN /\ queue' = Append(queue, metrics.enqueued + 1)
          /\ Count("enqueued")
     ELSE /\ queue' = Append(Tail(queue), metrics.enqueued + 1)
          /\ metrics' = [metrics EXCEPT !.enqueued = @ + 1, !.overflows = @ + 1]
  /\ UNCHANGED <<client, phase, reconnect, writing>>

(* Mutant: the loop goes on at once with the breaker open.                 *)
MutNoCooling ==
  /\ in_hand' = 0
  /\ Count("failed")
  /\ failures' = failures + 1
  /\ breaker_open' = (failures + 1 >= Threshold)
  /\ writer' = "getting"
  /\ UNCHANGED written

(* A write did not succeed: the message is lost; the threshold opens the   *)
(* breaker, and the loop sleeps.                                           *)
WriteFailed ==
  /\ in_hand' = 0
  /\ Count("failed")
  /\ failures' = failures + 1
  /\ breaker_open' = (failures + 1 >= Threshold)
  /\ writer' = IF breaker_open' THEN "cooling" ELSE "getting"
  /\ UNCHANGED written

(* The loop takes a message; writeline looks at the flag before it waits   *)
(* for the lock.                                                           *)
WriterGets ==
  /\ writer = "getting"
  /\ queue # <<>>
  /\ queue' = Tail(queue)
  /\ IF Usable
     THEN /\ in_hand' = Head(queue)
          /\ writer' = "locking"
          /\ UNCHANGED <<metrics, failures, breaker_open, written>>
     ELSE WriteFailed
  /\ UNCHANGED <<client, phase, reconnect>>

WriterLocks ==
  /\ writer = "locking"
  /\ TakeLock("writer")
  /\ writer' = "writing"
  /\ UNCHANGED <<phase, reconnect, queued, in_hand, breaker_open, failures, written>>

WriterEnds(ok) ==
  /\ writer = "writing"
  /\ WriteOutcome("writer", ok)
  /\ IF ok
     THEN /\ in_hand' = 0
          /\ Count("written")
          /\ failures' = 0
          /\ written' = Append(written, in_hand)
          /\ writer' = "getting"
          /\ UNCHANGED breaker_open
     ELSE WriteFailed
  /\ UNCHANGED <<phase, reconnect, queue>>

(* Mutant: the cooldown ends but the breaker is left open.                 *)
MutStaysOpen ==
  /\ writer = "cooling"
  /\ failures' = 0
  /\ UNCHANGED <<client, phase, reconnect, queued, breaker_open, writer, in_hand, written>>

(* The cooldown of the breaker is over. *)
BreakerResets ==
  /\ writer = "cooling"
  /\ breaker_open' = FALSE
  /\ failures' = 0
  /\ writer' = "getting"
  /\ UNCHANGED <<client, phase, reconnect, queued, in_hand, written>>

-----------------------------------------------------------------------------
Manager == ManagerWakes \/ BackoffEnds \/ \E outcome \in BOOLEAN : ManagerConnects(outcome)

Dispatch(d) ==
  \/ \E ok \in BOOLEAN : DispatchConnects(d, ok) \/ DispatchEnds(d, ok) \/ DispatchHears(d, ok)
  \/ DispatchWrites(d) \/ DispatchListens(d) \/ DispatchReads(d) \/ DispatchTimesOut(d)

Writer == WriterGets \/ WriterLocks \/ (\E ok \in BOOLEAN : WriterEnds(ok)) \/ BreakerResets

Next ==
  \/ Manager
  \/ \E d \in Dispatches : DispatchBegins(d) \/ Dispatch(d)
  \/ Enqueue \/ Writer
  \/ ServerDrops

(* Each task of the loop goes on when its await ends, and each await ends: *)
(* sleeps, the open with its thirty tries, a write. A dispatch has its     *)
(* timeout. asyncio.Lock wakes its waiters in turn, so the writer gets the *)
(* lock although dispatches ask for it again and again.                    *)
Fairness ==
  /\ WF_vars(Manager)
  /\ SF_vars(Writer)
  /\ \A d \in Dispatches : WF_vars(Dispatch(d))

Spec == Init /\ [][Next]_vars /\ Fairness

-----------------------------------------------------------------------------
(* Properties *)

ClientOK ==
  /\ connected \in BOOLEAN
  /\ handle \in {"none", "live", "dead"}
  /\ connected => handle # "none"
  /\ lock \in Writers \union {"free"}
  /\ phase \in [Dispatches -> {"idle", "connecting", "locking", "writing", "written",
                               "waiting", "reading"}]
  /\ \A d \in Dispatches : lock = d <=> phase[d] = "writing"
  /\ lock = "writer" <=> writer = "writing"
  /\ using \in [Writers -> {"current", "old", "dead"}]

ManagerOK ==
  /\ manager \in {"sleeping", "backoff", "connecting"}
  /\ attempt \in 0..MaxAttempts + 1
  /\ last_was_connected \in BOOLEAN
  /\ pause_flag \in BOOLEAN

WriterOK ==
  /\ writer \in {"getting", "locking", "writing", "cooling"}
  /\ queue \in Seq(1..MaxMessages) /\ Len(queue) <= QueueMax
  /\ in_hand \in 0..MaxMessages
  /\ breaker_open \in BOOLEAN /\ (breaker_open <=> writer = "cooling")
  /\ failures \in 0..Threshold
  /\ metrics \in [{"enqueued", "written", "failed", "overflows"} -> 0..MaxMessages]
  /\ written \in Seq(1..MaxMessages)

(* Types of the client, the manager and the writer; the lock is held by    *)
(* who is in a write and by nobody else, and the breaker is open exactly   *)
(* while the writer sleeps.                                                *)
TypeOK == ClientOK /\ ManagerOK /\ WriterOK

(* writer.py: a message that enqueue accepted is waiting, in hand, written,*)
(* counted as failed or counted as an overflow, and never two of these, so *)
(* none is written twice after a failure; the queue holds the newest, and  *)
(* what is written is in the order it was accepted.                        *)
WriterConserves ==
  /\ metrics.enqueued = Len(queue) + (IF in_hand = 0 THEN 0 ELSE 1)
                        + metrics.written + metrics.failed + metrics.overflows
  /\ metrics.written = Len(written)
  /\ \A i \in DOMAIN queue : queue[i] = metrics.enqueued - Len(queue) + i
  /\ LET chain == written \o (IF in_hand = 0 THEN <<>> ELSE <<in_hand>>)
     IN /\ \A i, j \in DOMAIN chain : i < j => chain[i] < chain[j]
        /\ \A i \in DOMAIN chain : chain[i] <= metrics.enqueued - Len(queue)

(* reconnect.py: a lost connection is open again after a while, or the     *)
(* manager has used up its attempts; failures of reads and writes on an    *)
(* old handle and connects of dispatches that fail or time out do not      *)
(* strand it in between.                                                   *)
LinkSettles == ~connected ~> (connected \/ attempt > MaxAttempts)

(* writer.py: no accepted message stays on the queue for ever, however     *)
(* often the breaker opens and whoever holds the lock.                     *)
CommandsLeave ==
  \A m \in 1..MaxMessages :
    (\E i \in DOMAIN queue : queue[i] = m) ~> (\A i \in DOMAIN queue : queue[i] # m)
=============================================================================
