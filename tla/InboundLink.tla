------------------------------ MODULE InboundLink ------------------------------
(***************************************************************************)
(* The inbound half of the bridge: bridge/pipe_client.py reads chunks,     *)
(* bridge/protocol.py parses them with security/sanitization.py,           *)
(* bridge/reader.py puts the messages on bounded queues and                *)
(* data/feed_router.py serves the tick queues, one task per instrument.    *)
(* The parser and its counters are of the module: execution/fill_handler.py *)
(* has the responses of the commands pipe parsed by it as well.            *)
(*                                                                         *)
(* readline returns what one ReadFile gave, up to 4096 bytes: the lines of *)
(* two messages written before it came are one string, of which the parser *)
(* sees the first header and more fields.                                  *)
(*                                                                         *)
(* A line is a version, a type and the fields behind them. Of a field only *)
(* what the parser can tell apart is kept: "good"; "form", text that is no *)
(* number and that no whitelist admits; "range", a value of the right form *)
(* that its sanitizer refuses (an ask below the bid among them).           *)
(***************************************************************************)
EXTENDS Integers, Sequences, FiniteSetsExt, Functions

CONSTANTS
  Instruments,  \* config INSTRUMENTS: each has a builder and a task
  Strangers,    \* other symbols that pass the whitelist
  TickMax,      \* maxsize of a tick queue
  FillMax,      \* maxsize of _fill_queue
  MaxLines      \* bound of the model: chunks read and responses parsed

(* Both queues are made with a positive maxsize; 0 would mean no bound. The *)
(* instruments are a list, and the whitelist admits no symbol of any length. *)
ASSUME InboundAssumption ==
  /\ {TickMax, FillMax} \subseteq Nat \ {0} /\ MaxLines \in Nat
  /\ IsFiniteSet(Instruments) /\ IsFiniteSet(Strangers)

QueuedSymbols == Instruments \union Strangers

Types == {"TICK", "FILL", "REJECT", "CLOSED", "HEARTBEAT"}
Errors == {"parse_errors", "version_mismatches", "validation_errors"}
Verdicts == Types \union Errors \union {"unknown"}

-----------------------------------------------------------------------------
(* bridge/protocol.py: the checks of a message type, in the order of the   *)
(* code. A check reads the fields "at"; parts[i] of the code is field i-1. *)

Text(i)     == [at |-> {i}, rule |-> "text"]    \* a whitelist
Number(i)   == [at |-> {i}, rule |-> "number"]  \* int() or float(), then a range
Quote(i, j) == [at |-> {i, j}, rule |-> "number"]
Unbounded(i) == [at |-> {i}, rule |-> "unbounded"]  \* int() or float() only
Rest(i, n)  == [at |-> i..n, rule |-> "rest"]   \* the fields joined again

TickChecks   == <<Text(1), Number(2), Quote(3, 4), Number(5), Text(6), Unbounded(7)>>
FillChecks   == <<Text(1), Text(2), Text(3), Number(4), Number(5), Unbounded(6)>>
RejectChecks(n) == <<Text(1), Number(2), Rest(3, n)>>
ClosedChecks == <<Text(1), Number(2), Number(3)>>
HeartbeatChecks == <<Number(1)>>

Checks(type, n) ==
  CASE type = "TICK" -> TickChecks
    [] type = "FILL" -> FillChecks
    [] type = "REJECT" -> RejectChecks(n)
    [] type = "CLOSED" -> ClosedChecks
    [] type = "HEARTBEAT" -> HeartbeatChecks

(* The fewest fields a type may have; FILL must have one more than is read. *)
MinFields(type) ==
  CASE type = "TICK" -> 7 [] type = "FILL" -> 7 [] type = "REJECT" -> 2
    [] type = "CLOSED" -> 3 [] type = "HEARTBEAT" -> 1

(* The sanitizers: a whitelist refuses what is malformed or too long, a    *)
(* range what is outside it; a description is refused when it is empty or  *)
(* too long and otherwise stripped of control characters.                  *)
sanitize_text(classes) == classes = {"good"}
sanitize_numeric_range(classes) == "range" \notin classes
sanitize_description(classes) == classes # {} /\ "range" \notin classes

(* Mutant: the checks of a number stop at the conversion.                  *)
MutNoRange(check, fields) ==
  LET classes == {fields[i] : i \in check.at} IN
  CASE check.rule = "text" -> IF sanitize_text(classes) THEN "ok" ELSE "validation_errors"
    [] check.rule = "rest" -> IF sanitize_description(classes) THEN "ok" ELSE "validation_errors"
    [] check.rule \in {"number", "unbounded"} ->
         IF "form" \in classes THEN "parse_errors" ELSE "ok"

(* What one check says: "ok", or the counter that is incremented. *)
Examine(check, fields) ==
  LET classes == {fields[i] : i \in check.at} IN
  CASE check.rule = "text" -> IF sanitize_text(classes) THEN "ok" ELSE "validation_errors"
    [] check.rule = "rest" -> IF sanitize_description(classes) THEN "ok" ELSE "validation_errors"
    [] check.rule \in {"number", "unbounded"} ->
         IF "form" \in classes THEN "parse_errors"
         ELSE IF check.rule = "number" /\ ~sanitize_numeric_range(classes)
         THEN "validation_errors" ELSE "ok"

(* parse_inbound: the envelope, then the first check that fails decides. A *)
(* type it does not know is dropped without a counter of its own.          *)
parse_inbound(line) ==
  LET n == Len(line.fields)
      checks == Checks(line.type, n)
      failing == {i \in DOMAIN checks : Examine(checks[i], line.fields) # "ok"}
  IN CASE line.version = "absent" -> "parse_errors"
       [] line.version = "other" -> "version_mismatches"
       [] line.version = "V1" /\ line.type \notin Types -> "unknown"
       [] line.version = "V1" /\ line.type \in Types ->
            IF n < MinFields(line.type) THEN "parse_errors"
            ELSE IF failing = {} THEN line.type
            ELSE Examine(checks[Min(failing)], line.fields)

-----------------------------------------------------------------------------
(* What the pipe may hold *)

(* The messages an advisor sends: those of the protocol comment, the FILL  *)
(* of nine parts that the parser wants, and a type of its own.             *)
Message(type, n) == [version |-> "V1", type |-> type, fields |-> [i \in 1..n |-> "good"]]

Messages ==
  {Message("TICK", 7), Message("FILL", 6), Message("FILL", 7), Message("REJECT", 3),
   Message("CLOSED", 3), Message("HEARTBEAT", 1), Message("STATUS", 2)}

(* Garbage during a reconnect: a field that is wrong, a tail that is cut   *)
(* off, a head that is cut off or another version, nothing but blanks.     *)
Damaged(m) ==
  {[m EXCEPT !.fields[i] = class] : i \in DOMAIN m.fields, class \in {"form", "range"}}
    \union {[m EXCEPT !.fields = SubSeq(@, 1, n)] : n \in 0..Len(m.fields) - 1}
    \union {[m EXCEPT !.version = v] : v \in {"other", "absent"}}

(* Two lines in one read: the last field of the first, the line break and  *)
(* the version of the second are one field, its type is another.           *)
Joined(m1, m2) ==
  [m1 EXCEPT !.fields =
     SubSeq(@, 1, Len(@) - 1) \o <<"form", "form">> \o m2.fields]

Lines ==
  Messages \union (UNION {Damaged(m) : m \in Messages})
    \union {Joined(m1, m2) : m1 \in Messages, m2 \in Messages}

(* The fields that TickMessage, FillMessage and ClosedMessage take from a  *)
(* line and that have a whitelist or a range: all but the running cvd of a *)
(* tick and the ticket of a fill.                                          *)
Ranged(type) ==
  CASE type = "TICK" -> 1..6 [] type = "FILL" -> 1..5 [] type = "CLOSED" -> 1..3

-----------------------------------------------------------------------------
VARIABLES
  connected,    \* PipeClient._connected of the ticks client
  verdicts,     \* _parse_metrics: per outcome of parse_inbound; "unknown" is counted nowhere
  total_parsed, \* _parse_metrics: lines of this version
  responses,    \* history: per outcome, what FillHandler had parsed of the commands pipe
  total_lines_read,
  dispatched,   \* ReaderMetrics: per type
  overflows,    \* ReaderMetrics: tick_queue_overflows and fill_queue_overflows
  tick_queues,  \* per symbol: the ticks waiting, each its number among the accepted
  fill_queue,   \* types of the messages waiting
  fills_taken,  \* history: messages wait_for_fill took
  accepted,     \* history: per symbol, the ticks put on its queue
  last_taken,   \* history: per symbol, the tick its task took last
  taken,        \* history: per symbol, how many its task took
  calling,      \* per instrument: its task awaits on_snapshot
  unsound       \* history: the parser gave a message with a field its range forbids

metrics == <<verdicts, total_parsed, responses, total_lines_read, dispatched, overflows>>
router == <<last_taken, taken, calling>>
inbound == <<connected, metrics, tick_queues, fill_queue, fills_taken, accepted, router, unsound>>

(* main.py never connects the ticks client; a caller that does finds the   *)
(* queues empty as well.                                                   *)
InboundInit ==
  /\ connected \in BOOLEAN
  /\ verdicts = [v \in Verdicts |-> 0]
  /\ total_parsed = 0
  /\ responses = [v \in Verdicts |-> 0]
  /\ total_lines_read = 0
  /\ dispatched = [t \in Types |-> 0]
  /\ overflows = [q \in {"tick", "fill"} |-> 0]
  /\ tick_queues = [s \in QueuedSymbols |-> <<>>]
  /\ fill_queue = <<>>
  /\ fills_taken = 0
  /\ accepted = [s \in QueuedSymbols |-> 0]
  /\ last_taken = [s \in QueuedSymbols |-> 0]
  /\ taken = [s \in QueuedSymbols |-> 0]
  /\ calling = [s \in Instruments |-> FALSE]
  /\ unsound = FALSE

Increment(f, k) == [f EXCEPT ![k] = @ + 1]

Fills(f) == f["FILL"] + f["REJECT"] + f["CLOSED"]
Parsed(f) == f["TICK"] + Fills(f) + f["HEARTBEAT"]
Unusable(f) == f["parse_errors"] + f["version_mismatches"] + f["validation_errors"]
Outcomes(f) == Parsed(f) + f["unknown"] + Unusable(f)

(* The parser makes a tick, a fill or a close of a line that has no right  *)
(* to be one.                                                              *)
Unsound(line) ==
  LET verdict == parse_inbound(line) IN
  /\ verdict \in {"TICK", "FILL", "CLOSED"}
  /\ \E i \in Ranged(verdict) : line.fields[i] # "good"

(* Mutant: the newest tick is the one that is dropped.                     *)
MutDropsNewest(s) ==
  /\ tick_queues' = [tick_queues EXCEPT ![s] =
       IF Len(@) < TickMax THEN Append(@, accepted[s] + 1) ELSE @]
  /\ accepted' = Increment(accepted, s)
  /\ overflows' = IF Len(tick_queues[s]) < TickMax THEN overflows ELSE Increment(overflows, "tick")
  /\ dispatched' = Increment(dispatched, "TICK")
  /\ UNCHANGED fill_queue

(* _dispatch of a tick: the queue of its symbol, made when it is not there *)
(* yet; a full queue loses its oldest tick.                                *)
DispatchTick(s) ==
  /\ LET q == tick_queues[s] IN
     /\ tick_queues' = [tick_queues EXCEPT ![s] =
          Append(IF Len(q) < TickMax THEN q ELSE Tail(q), accepted[s] + 1)]
     /\ overflows' = IF Len(q) < TickMax THEN overflows ELSE Increment(overflows, "tick")
  /\ accepted' = Increment(accepted, s)
  /\ dispatched' = Increment(dispatched, "TICK")
  /\ UNCHANGED fill_queue

(* Mutant: the drop is not counted.                                        *)
MutSilentDrop(type) ==
  /\ IF Len(fill_queue) < FillMax
     THEN fill_queue' = Append(fill_queue, type) /\ dispatched' = Increment(dispatched, type)
     ELSE UNCHANGED <<fill_queue, dispatched>>
  /\ UNCHANGED <<overflows, tick_queues, accepted>>

(* _dispatch of a fill, a reject or a close: a full queue loses the new one. *)
DispatchFill(type) ==
  /\ IF Len(fill_queue) < FillMax
     THEN /\ fill_queue' = Append(fill_queue, type)
          /\ dispatched' = Increment(dispatched, type)
          /\ UNCHANGED overflows
     ELSE /\ overflows' = Increment(overflows, "fill")
          /\ UNCHANGED <<fill_queue, dispatched>>
  /\ UNCHANGED <<tick_queues, accepted>>

_dispatch(type, s) ==
  \/ type = "TICK" /\ DispatchTick(s)
  \/ type \in {"FILL", "REJECT", "CLOSED"} /\ DispatchFill(type)
  \/ /\ type = "HEARTBEAT"
     /\ dispatched' = Increment(dispatched, type)
     /\ UNCHANGED <<overflows, tick_queues, fill_queue, accepted>>

(* PipeReader.run: one chunk is read, parsed and dispatched. The symbol is *)
(* that of the line.                                                       *)
ReadLine(line, s) ==
  LET verdict == parse_inbound(line) IN
  /\ connected
  /\ total_lines_read + Outcomes(responses) < MaxLines
  /\ total_lines_read' = total_lines_read + 1
  /\ total_parsed' = total_parsed + (IF line.version = "V1" THEN 1 ELSE 0)
  /\ verdicts' = Increment(verdicts, verdict)
  /\ IF verdict \in Types
     THEN _dispatch(verdict, s)
     ELSE UNCHANGED <<dispatched, overflows, tick_queues, fill_queue, accepted>>
  /\ unsound' = (unsound \/ Unsound(line))
  /\ UNCHANGED <<connected, responses, fills_taken, router>>

(* FillHandler.parse_response: a response of the commands pipe is parsed   *)
(* when it is of this version, whether the ticks pipe is connected or not; *)
(* nothing is read or dispatched. The handler's own counters are left out. *)
ParseResponse(line) ==
  LET verdict == parse_inbound(line) IN
  /\ line.version = "V1"
  /\ total_lines_read + Outcomes(responses) < MaxLines
  /\ total_parsed' = total_parsed + 1
  /\ verdicts' = Increment(verdicts, verdict)
  /\ responses' = Increment(responses, verdict)
  /\ unsound' = (unsound \/ Unsound(line))
  /\ UNCHANGED <<connected, total_lines_read, dispatched, overflows, tick_queues, fill_queue,
                 fills_taken, accepted, router>>

(* ReadFile raises: the client is disconnected, and readline gives nothing *)
(* from then on.                                                           *)
ReadFails ==
  /\ connected
  /\ connected' = FALSE
  /\ UNCHANGED <<metrics, tick_queues, fill_queue, fills_taken, accepted, router, unsound>>

(* FeedRouter._symbol_loop: the oldest tick is taken; if it completes a    *)
(* snapshot the task awaits the callback.                                  *)
TakeTick(s) ==
  /\ ~calling[s]
  /\ tick_queues[s] # <<>>
  /\ tick_queues' = [tick_queues EXCEPT ![s] = Tail(@)]
  /\ last_taken' = [last_taken EXCEPT ![s] = Head(tick_queues[s])]
  /\ taken' = Increment(taken, s)
  /\ \E snapshot \in BOOLEAN : calling' = [calling EXCEPT ![s] = snapshot]
  /\ UNCHANGED <<connected, metrics, fill_queue, fills_taken, accepted, unsound>>

(* Mutant: the task waits for the connection before it goes on.            *)
MutWaitsForPipe(s) ==
  /\ calling[s]
  /\ connected
  /\ calling' = [calling EXCEPT ![s] = FALSE]
  /\ UNCHANGED <<connected, metrics, tick_queues, fill_queue, fills_taken, accepted,
                 last_taken, taken, unsound>>

(* on_snapshot returns or raises; either way the loop goes on.             *)
CallbackEnds(s) ==
  /\ calling[s]
  /\ calling' = [calling EXCEPT ![s] = FALSE]
  /\ UNCHANGED <<connected, metrics, tick_queues, fill_queue, fills_taken, accepted,
                 last_taken, taken, unsound>>

(* wait_for_fill of execution/fill_handler.py takes the oldest message.    *)
TakeFill ==
  /\ fill_queue # <<>>
  /\ fill_queue' = Tail(fill_queue)
  /\ fills_taken' = fills_taken + 1
  /\ UNCHANGED <<connected, metrics, tick_queues, accepted, router, unsound>>

SymbolTask(s) == TakeTick(s) \/ CallbackEnds(s)

InboundNext ==
  \/ \E line \in Lines, s \in QueuedSymbols : ReadLine(line, s)
  \/ \E line \in Lines : ParseResponse(line)
  \/ ReadFails
  \/ \E s \in Instruments : SymbolTask(s)
  \/ TakeFill

(* Tasks of the event loop: a task that can run does.  *)
Fairness == \A s \in Instruments : WF_inbound(SymbolTask(s))

InboundSpec == InboundInit /\ [][InboundNext]_inbound /\ Fairness

-----------------------------------------------------------------------------
(* Properties *)

(* The ticks that were put on a queue and are neither taken nor there.      *)
Lost == [s \in QueuedSymbols |-> accepted[s] - taken[s] - Len(tick_queues[s])]

(* The outcomes of the parser are those of the reads and those of the      *)
(* responses; every message of a known type that was read is dispatched.   *)
ReadsAccounted ==
  /\ Outcomes(verdicts) = total_lines_read + Outcomes(responses)
  /\ total_parsed >= Parsed(verdicts) + verdicts["unknown"]
  /\ \A t \in {"TICK", "HEARTBEAT"} : verdicts[t] = dispatched[t] + responses[t]
  /\ Fills(verdicts) = Fills(dispatched) + overflows["fill"] + Fills(responses)
  /\ Fills(dispatched) = Len(fill_queue) + fills_taken

(* The counters of protocol.py, less what execution/fill_handler.py had    *)
(* counted in them, and those of reader.py account for every read and      *)
(* every message: nothing that was read vanishes between them but a line   *)
(* of an unknown type, whatever was damaged or joined, and what a queue    *)
(* lost is what its overflow counter says.                                 *)
Accounted ==
  /\ ReadsAccounted
  /\ overflows["tick"] = SumFunction(Lost)

(* reader.py, "Drop oldest tick (not block)": a queue holds the newest     *)
(* ticks of its symbol without a gap, all of them newer than any its task  *)
(* has taken; a task that falls behind is never more than a queue behind,  *)
(* and sees each tick at most once and in order.                           *)
NewestKept ==
  \A s \in QueuedSymbols :
    LET q == tick_queues[s] IN
    /\ Len(q) <= TickMax
    /\ q = [i \in 1..Len(q) |-> accepted[s] - Len(q) + i]
    /\ last_taken[s] <= accepted[s] - Len(q)

(* protocol.py, "All numeric fields validated for type and range": no      *)
(* damage, cut or joined read gives the reader or the commander a tick, a  *)
(* fill or a close with a field that is not sound; the cvd of a tick and   *)
(* the ticket of a fill have no range to keep.                             *)
SoundDelivered == ~unsound

(* The task of an instrument outlives the exceptions of its callback: no   *)
(* tick waits on its queue for ever.                                       *)
TicksServed ==
  \A s \in Instruments : \A n \in 1..MaxLines :
    (\E i \in DOMAIN tick_queues[s] : tick_queues[s][i] = n)
      ~> (\A i \in DOMAIN tick_queues[s] : tick_queues[s][i] # n)
=============================================================================
