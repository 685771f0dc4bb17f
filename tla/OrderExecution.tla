---------------------------- MODULE OrderExecution ----------------------------
(***************************************************************************)
(* The live commander: execution/commander.py with its dispatcher, fill    *)
(* handler and retry orchestrator, and the fill queue that bridge/reader.py *)
(* fills.                                                                  *)
(*                                                                         *)
(* The symbol tasks of main.py call it concurrently. They share one        *)
(* dispatcher, whose last_response is the line the last reader of the      *)
(* commands pipe got, and one fill queue, which nobody but wait_for_fill   *)
(* drains. A step is the code between two awaits; pc is the await a call   *)
(* is in.                                                                  *)
(*                                                                         *)
(* The expert advisor at the other end answers an order or leaves it. An    *)
(* order carries position_id 0 whatever its call, so neither side can tell *)
(* from a message whose it is; the field "call" below is known to the      *)
(* model only.                                                             *)
(* Blocking writes run in an executor thread: one that was given up on     *)
(* after the timeout may still reach the pipe.                             *)
(***************************************************************************)
EXTENDS Integers, Sequences

CONSTANTS
  Opens,        \* calls of open_position, each with its own request_id
  Closes,       \* calls of close_position or close_all
  MaxAttempts,  \* max_attempts of _dispatch_with_retry and of OrderRetry
  QueueMax,     \* maxsize of _fill_queue
  PipeMax,      \* bound of the model: lines waiting on the commands pipe
  LateCalls,    \* bound of the model: the calls whose writes may be late
  NoReply       \* last_response = None

Calls == Opens \union Closes

ASSUME ExecutionAssumption ==
  /\ Opens \intersect Closes = {}
  /\ MaxAttempts \in Nat \ {0}
  /\ QueueMax \in Nat \ {0}
  /\ PipeMax \in Nat

(* The answers of the expert advisor, as the parsers tell them apart: the  *)
(* fill of an order of some call, a reject, the close of a position. A     *)
(* line no parser accepts has the effect of no line at all; a FILL of      *)
(* eight fields, the form of the protocol comment, is one: parse_inbound   *)
(* wants nine.                                                             *)
Answers ==
  [kind : {"FILL"}, call : Opens]
    \union [kind : {"REJECT", "CLOSED"}, call : {NoReply}]

ASSUME ReplyAssumption == NoReply \notin Answers \union Calls

VARIABLES
  paper_mode,     \* the environment variable PAPER_MODE, "true" by default
  pc,             \* per call: the await it is in
  attempt,        \* per call: attempt of _dispatch_with_retry, 0 outside it
  retries,        \* RetryOrchestrator._retries: OrderRetry.attempt, 0 if absent
  last_response,  \* PipeDispatcher.last_response
  fill_queue,     \* PipeReader._fill_queue
  replies,        \* lines waiting on the commands pipe
  late,           \* per call: writes given up on that may still happen
  unanswered,     \* per call: orders the expert advisor has not answered
  sent,           \* history: orders per call that reached the pipe
  filled,         \* history: the calls with an order that was answered by a FILL
  confirmed_by    \* history: the call whose fill an open call took as its own

calls   == <<pc, attempt, retries, confirmed_by>>
inbound == <<fill_queue, replies>>
broker  == <<late, unanswered, sent, filled>>
exec    == <<paper_mode, calls, last_response, inbound, broker>>

Waits == {"writing", "reading", "waiting", "backoff"}
Ended == {"done", "failed"}

Init ==
  /\ paper_mode \in BOOLEAN
  /\ pc = [c \in Calls |-> "idle"]
  /\ attempt = [c \in Calls |-> 0]
  /\ retries = [c \in Calls |-> 0]
  /\ last_response = NoReply
  /\ fill_queue = <<>>
  /\ replies = <<>>
  /\ late = [c \in Calls |-> 0]
  /\ unanswered = [c \in Calls |-> 0]
  /\ sent = [c \in Calls |-> 0]
  /\ filled = {}
  /\ confirmed_by = [c \in Calls |-> NoReply]

MoveTo(c, next) == pc' = [pc EXCEPT ![c] = next]

(* Mutant: a call that fails keeps its tracker.                            *)
MutForgetsSuccess(c, outcome) ==
  /\ MoveTo(c, outcome)
  /\ attempt' = [attempt EXCEPT ![c] = 0]
  /\ retries' = IF outcome = "done" THEN [retries EXCEPT ![c] = 0] ELSE retries

(* The call returns; mark_success and mark_failed both forget the tracker. *)
Finish(c, outcome) ==
  /\ MoveTo(c, outcome)
  /\ attempt' = [attempt EXCEPT ![c] = 0]
  /\ retries' = [retries EXCEPT ![c] = 0]

-----------------------------------------------------------------------------
(* execution/commander.py and execution/dispatcher.py *)

(* open_position, close_position: the command is built and dispatched. *)
Begin(c) ==
  /\ pc[c] = "idle"
  /\ MoveTo(c, "writing")
  /\ attempt' = [attempt EXCEPT ![c] = 1]
  /\ UNCHANGED <<paper_mode, retries, confirmed_by, last_response, inbound, broker>>

Reaches(c) ==
  /\ sent' = [sent EXCEPT ![c] = @ + 1]
  /\ unanswered' = [unanswered EXCEPT ![c] = @ + 1]
  /\ UNCHANGED filled

(* The write is done in time; the response is read. Each command connects  *)
(* anew, which may lose the lines waiting on the old handle.               *)
Written(c) ==
  /\ pc[c] = "writing"
  /\ ~paper_mode
  /\ MoveTo(c, "reading")
  /\ Reaches(c)
  /\ replies' \in {replies, <<>>}
  /\ UNCHANGED <<paper_mode, attempt, retries, confirmed_by, last_response, fill_queue, late>>

(* dispatch returned True: an opening call waits for its fill, a closing   *)
(* one is done.                                                            *)
Proceed(c) ==
  IF c \in Opens
  THEN MoveTo(c, "waiting") /\ UNCHANGED <<attempt, retries>>
  ELSE Finish(c, "done")

(* PAPER_MODE: the pipe is connected, nothing is written, True returned.   *)
Paper(c) ==
  /\ pc[c] = "writing"
  /\ paper_mode
  /\ last_response' = NoReply
  /\ Proceed(c)
  /\ UNCHANGED <<paper_mode, confirmed_by, inbound, broker>>

(* should_retry for a failed dispatch: a tracker starts at 1, and at       *)
(* max_attempts it is dropped.                                             *)
Tracker(c) == IF retries[c] = 0 THEN 1 ELSE retries[c]

should_retry(c) ==
  IF c \in Opens /\ Tracker(c) < MaxAttempts
  THEN /\ MoveTo(c, "backoff")
       /\ retries' = [retries EXCEPT ![c] = Tracker(c) + 1]
       /\ UNCHANGED attempt
  ELSE Finish(c, "failed")

(* dispatch returned False: connecting or writing raised, or took longer   *)
(* than the timeout, in which case the write may still happen.             *)
DispatchFails(c) ==
  /\ pc[c] = "writing"
  /\ should_retry(c)
  /\ \/ UNCHANGED late
     \/ ~paper_mode /\ c \in LateCalls /\ late' = [late EXCEPT ![c] = @ + 1]
  /\ UNCHANGED <<paper_mode, confirmed_by, last_response, inbound, unanswered, sent, filled>>

(* _read_response: a line, or nothing that can be parsed until the timeout *)
(* runs out. A closing call returns True either way.                       *)
Respond(c) ==
  /\ pc[c] = "reading"
  /\ \/ replies # <<>> /\ last_response' = Head(replies) /\ replies' = Tail(replies)
     \/ last_response' = NoReply /\ UNCHANGED replies
  /\ Proceed(c)
  /\ UNCHANGED <<paper_mode, confirmed_by, fill_queue, broker>>

Opened(c, whose) ==
  /\ Finish(c, "done")
  /\ confirmed_by' = [confirmed_by EXCEPT ![c] = whose]

TryAgain(c) ==
  /\ IF attempt[c] < MaxAttempts
     THEN MoveTo(c, "backoff") /\ UNCHANGED <<attempt, retries>>
     ELSE Finish(c, "failed")
  /\ UNCHANGED confirmed_by

(* Mutant: without a response the call is taken as sent, as in PAPER_MODE, *)
(* which is on when the variable is not set.                               *)
MutAssumesSent(c) ==
  IF last_response = NoReply
  THEN Opened(c, NoReply)
  ELSE IF last_response.kind = "FILL"
       THEN Opened(c, last_response.call)
       ELSE Finish(c, "failed") /\ UNCHANGED confirmed_by

(* After wait_for_fill gave no fill: the response the dispatcher kept, of  *)
(* whichever call, is parsed and returned; in PAPER_MODE no response is as *)
(* good as a fill; otherwise the order is tried again.                     *)
Fallback(c) ==
  IF last_response = NoReply
  THEN IF paper_mode THEN Opened(c, NoReply) ELSE TryAgain(c)
  ELSE IF last_response.kind = "FILL"
       THEN Opened(c, last_response.call)
       ELSE Finish(c, "failed") /\ UNCHANGED confirmed_by

(* wait_for_fill: the next message of the queue, whatever its call. A fill *)
(* ends the call; a reject is not a fill; a CLOSED of another position is  *)
(* dropped, and the wait goes on unless its time is up.                    *)
TakeMessage(c) ==
  /\ pc[c] = "waiting"
  /\ fill_queue # <<>>
  /\ fill_queue' = Tail(fill_queue)
  /\ LET msg == Head(fill_queue) IN
     \/ msg.kind = "FILL" /\ Opened(c, msg.call)
     \/ msg.kind = "REJECT" /\ Fallback(c)
     \/ msg.kind = "CLOSED" /\ (UNCHANGED calls \/ Fallback(c))
  /\ UNCHANGED <<paper_mode, last_response, replies, broker>>

WaitTimesOut(c) ==
  /\ pc[c] = "waiting"
  /\ fill_queue = <<>>
  /\ Fallback(c)
  /\ UNCHANGED <<paper_mode, last_response, inbound, broker>>

(* Mutant: the loop makes one attempt too many.                            *)
MutOneMore(c) ==
  /\ pc[c] = "backoff"
  /\ IF attempt[c] <= MaxAttempts
     THEN /\ MoveTo(c, "writing")
          /\ attempt' = [attempt EXCEPT ![c] = @ + 1]
          /\ UNCHANGED retries
     ELSE Finish(c, "failed")
  /\ UNCHANGED <<paper_mode, confirmed_by, last_response, inbound, broker>>

(* The backoff is over: the loop tries again or has no attempt left. *)
NextAttempt(c) ==
  /\ pc[c] = "backoff"
  /\ IF attempt[c] < MaxAttempts
     THEN /\ MoveTo(c, "writing")
          /\ attempt' = [attempt EXCEPT ![c] = @ + 1]
          /\ UNCHANGED retries
     ELSE Finish(c, "failed")
  /\ UNCHANGED <<paper_mode, confirmed_by, last_response, inbound, broker>>

-----------------------------------------------------------------------------
(* The pipe and the expert advisor *)

(* A write that was given up on happens after all. *)
LateWrite(c) ==
  /\ late[c] > 0
  /\ late' = [late EXCEPT ![c] = @ - 1]
  /\ Reaches(c)
  /\ UNCHANGED <<paper_mode, calls, last_response, inbound>>

(* PipeReader._dispatch: a message that finds the queue full is dropped. *)
Enqueue(answer) ==
  fill_queue' = IF Len(fill_queue) >= QueueMax
                THEN fill_queue ELSE Append(fill_queue, answer)

(* GhostGrid.mq5, ProcessPendingCommands: an order is answered by a fill or  *)
(* a reject, a close by its result, on the ticks pipe or on the commands   *)
(* pipe; or the answer is lost, or cannot be read. As GhostGrid.mq5 writes *)
(* its lines now only a reject can be read; an advisor that writes those   *)
(* of bridge/protocol.py is admitted as well.                              *)
Answer(c) ==
  \E answer \in Answers :
    /\ unanswered[c] > 0
    /\ answer.kind \in IF c \in Closes THEN {"CLOSED"} ELSE {"FILL", "REJECT"}
    /\ answer.kind = "FILL" => answer.call = c
    /\ unanswered' = [unanswered EXCEPT ![c] = @ - 1]
    /\ filled' = IF answer.kind = "FILL" THEN filled \union {c} ELSE filled
    /\ \/ Enqueue(answer) /\ UNCHANGED replies
       \/ /\ Len(replies) < PipeMax
          /\ replies' = Append(replies, answer)
          /\ UNCHANGED fill_queue
       \/ UNCHANGED inbound
    /\ UNCHANGED <<paper_mode, calls, last_response, late, sent>>

-----------------------------------------------------------------------------
Resume(c) ==
  \/ Written(c) \/ Paper(c) \/ DispatchFails(c)
  \/ Respond(c)
  \/ TakeMessage(c) \/ WaitTimesOut(c)
  \/ NextAttempt(c)

Next == \E c \in Calls : Begin(c) \/ Resume(c) \/ LateWrite(c) \/ Answer(c)

(* Every await of a call has a timeout, so while calls are suspended one   *)
(* of them resumes. The expert advisor owes nothing.                       *)
Fairness == WF_exec(\E c \in Calls : Resume(c))

Spec == Init /\ [][Next]_exec /\ Fairness

-----------------------------------------------------------------------------
(* Properties *)

(* Types of the calls, of the shared response and queue, and of the pipe.  *)
TypeOK ==
  /\ paper_mode \in BOOLEAN
  /\ pc \in [Calls -> {"idle"} \union Waits \union Ended]
  /\ attempt \in [Calls -> 0..MaxAttempts]
  /\ retries \in [Calls -> 0..MaxAttempts]
  /\ last_response \in Answers \union {NoReply}
  /\ fill_queue \in Seq(Answers) /\ Len(fill_queue) <= QueueMax
  /\ replies \in Seq(Answers)
  /\ late \in [Calls -> Nat]
  /\ unanswered \in [Calls -> Nat]
  /\ sent \in [Calls -> Nat]
  /\ filled \subseteq Opens
  /\ confirmed_by \in [Calls -> Calls \union {NoReply}]

(* commander.py, "Returns: FillResult if successful": with messages of     *)
(* other calls, late ones and responses read twice, a call that trades     *)
(* live reports a position only if the broker filled some order.           *)
OpenedIsFilled ==
  \A c \in Opens : pc[c] = "done" /\ ~paper_mode
    => confirmed_by[c] \in filled

(* retry.py, OrderRetry: a tracker exists only while its call is running   *)
(* and never counts past the attempts made, though two counters decide     *)
(* about a retry and either may be the one that ends it.                   *)
TrackersFollow ==
  \A c \in Calls :
    /\ retries[c] <= attempt[c] + 1
    /\ pc[c] \notin Waits => retries[c] = 0

Status(c) ==
  IF pc[c] \in Waits THEN "pending" ELSE pc[c]

Port == INSTANCE ExecutionPort
          WITH Orders <- [c \in Calls |-> IF c \in Opens THEN MaxAttempts ELSE 1],
               live <- ~paper_mode,
               status <- [c \in Calls |-> Status(c)],
               orders <- sent

(* The commander keeps what ExecutionPort promises: each call returns, it  *)
(* hands over at most max_attempts orders, the late ones included, and a   *)
(* live success has handed over at least one.                              *)
ImplementsPort == Port!PortSpec

=============================================================================
