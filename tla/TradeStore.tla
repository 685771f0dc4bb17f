------------------------------- MODULE TradeStore -------------------------------
(***************************************************************************)
(* What survives the process: the positions table of SQLite (src/db) and   *)
(* the trade journal, a CSV file (src/observability/trade_journal.py),     *)
(* written by the symbol tasks of src/main.py, which the process may lose  *)
(* at any point, also in the middle of a synchronous stretch.              *)
(*                                                                         *)
(* A symbol task runs on_snapshot; it may open one order or close any      *)
(* registered position, as each snapshot ticks them all.  It suspends only *)
(* while a command is awaited: the pool hands out an idle connection       *)
(* without a wait, so what follows a command runs to its end unless the    *)
(* process dies.                                                           *)
(*                                                                         *)
(* Bounds: Orders are the orders ever sent, MaxCrashes the restarts.       *)
(***************************************************************************)
EXTENDS Integers, Sequences, FiniteSets, TLC

CONSTANTS
    Tasks,          \* symbol tasks of the feed router
    Orders,         \* the orders of all lives of the process
    MaxCrashes,
    JournalCalls,   \* {"main"}: the keywords main.py passes; {"api"}: those the journal takes
    Results,        \* sign of a realised profit: subset of {"win", "loss", "even"}
    Lookback,       \* DRIFT_LOOKBACK_TRADES
    MinWins,        \* wins that Lookback trades need to reach the drift threshold
    NoOrder         \* no order of Orders: an empty cell, an idle task

ASSUME StoreAssumption ==
    /\ IsFiniteSet(Tasks) /\ NoOrder \notin Orders
    /\ MaxCrashes \in Nat
    /\ JournalCalls \subseteq {"main", "api"}
    /\ Results \subseteq {"win", "loss", "even"}
    /\ Lookback \in Nat \ {0} /\ MinWins \in 0..Lookback

VARIABLES
    running, crashes,
    counter,        \* _pos_id_counter
    pid,            \* position id of each order, 0 before it is drawn
    sent, filled,   \* orders written to the pipe, and those the broker filled
    registry,       \* PositionRegistry of the running process
    task,           \* each symbol task: what it does, and for which order
    closed,         \* history: orders whose position was closed and removed
    rows,           \* positions table; the index is the AUTOINCREMENT id
    calls,          \* which keywords the journal is called with
    journal,        \* rows of trades.csv
    tmp             \* rows of trades.tmp, written by the last close

memory == <<running, crashes, counter, registry, task>>
broker == <<pid, sent, filled, closed>>
files == <<rows, calls, journal, tmp>>
vars == <<memory, broker, files>>

Idle == [at |-> "idle", order |-> NoOrder]
Synchronous == {"persisting", "journalling", "replacing", "removing"}

\* One event loop: a task steps only when no other one is between two awaits.
Turn(t) == running /\ \A u \in Tasks \ {t} : task[u].at \notin Synchronous

Goes(t, at, o) == task' = [task EXCEPT ![t] = [at |-> at, order |-> o]]

-----------------------------------------------------------------------------
Init ==
    /\ running = FALSE /\ crashes = 0 /\ counter = 1
    /\ pid = [o \in Orders |-> 0]
    /\ sent = {} /\ filled = {} /\ registry = {} /\ closed = {}
    /\ task = [t \in Tasks |-> Idle]
    /\ rows = <<>> /\ journal = <<>> /\ tmp = <<>>
    /\ calls \in JournalCalls

\* write_position commits with state OPEN, and nothing sets it to CLOSED.
get_open_positions_from_db == {rows[i] : i \in DOMAIN rows}

\* Returns max(id) + 1: of the rows, not of the ids that were drawn.
get_next_position_id == Len(rows) + 1

\* The plausible bug: the next id is taken from the number of open rows.
MutCountsOpenRows ==
    /\ ~running
    /\ running' = TRUE
    /\ counter' = Cardinality(get_open_positions_from_db \ closed) + 1
    /\ UNCHANGED <<crashes, registry, task, broker, files>>

\* startup: open rows are logged, the registry starts empty.
Startup ==
    /\ ~running
    /\ running' = TRUE
    /\ counter' = get_next_position_id
    /\ UNCHANGED <<crashes, registry, task, broker, files>>

\* The process dies: its memory is lost, the files and the broker stay.
Crash ==
    /\ running /\ crashes < MaxCrashes
    /\ running' = FALSE
    /\ crashes' = crashes + 1
    /\ registry' = {}
    /\ task' = [t \in Tasks |-> Idle]
    /\ UNCHANGED <<counter, broker, files>>

-----------------------------------------------------------------------------
(* Opening                                                                 *)

\* _next_position_id, then the order is written and its fill awaited.
_next_position_id(t) ==
    /\ Turn(t) /\ task[t] = Idle
    /\ \E o \in Orders \ sent :
           /\ pid' = [pid EXCEPT ![o] = counter]
           /\ sent' = sent \union {o}
           /\ Goes(t, "ordering", o)
    /\ counter' = counter + 1
    /\ UNCHANGED <<running, crashes, registry, filled, closed, files>>

BrokerFills ==
    /\ \E o \in sent \ filled : filled' = filled \union {o}
    /\ UNCHANGED <<memory, pid, sent, closed, files>>

\* A filled order is registered; one that failed or was given up leaves a gap in the ids.
OpenReturns(t) ==
    /\ Turn(t) /\ task[t].at = "ordering"
    /\ \/ /\ task[t].order \in filled
          /\ registry' = registry \union {task[t].order}
          /\ Goes(t, "persisting", task[t].order)
       \/ /\ Goes(t, "idle", NoOrder)
          /\ UNCHANGED registry
    /\ UNCHANGED <<running, crashes, counter, broker, files>>

\* write_position_opened: one INSERT and its commit.  An error skips the journal as well.
write_position_opened(t) ==
    /\ Turn(t) /\ task[t].at = "persisting"
    /\ \/ /\ rows' = Append(rows, task[t].order)
          /\ Goes(t, "journalling", task[t].order)
       \/ /\ Goes(t, "idle", NoOrder)
          /\ UNCHANGED rows
    /\ UNCHANGED <<running, crashes, counter, registry, broker, calls, journal, tmp>>

\* The keywords of main.py raise TypeError before anything is written.
record_opened(t) ==
    /\ Turn(t) /\ task[t].at = "journalling"
    /\ journal' = IF calls = "main" THEN journal
                  ELSE Append(journal, [position_id |-> pid[task[t].order],
                                        entry |-> task[t].order, exit |-> NoOrder, pnl |-> "none"])
    /\ Goes(t, "idle", NoOrder)
    /\ UNCHANGED <<running, crashes, counter, registry, broker, rows, calls, tmp>>

-----------------------------------------------------------------------------
(* Closing                                                                 *)

\* process_tick reports an exit, the position is looked up and its close awaited.
ExitFound(t) ==
    /\ Turn(t) /\ task[t] = Idle
    /\ \E o \in registry : Goes(t, "closing", o)
    /\ UNCHANGED <<running, crashes, counter, registry, broker, files>>

OpenRows(id) == {i \in DOMAIN journal : journal[i].position_id = id /\ journal[i].exit = NoOrder}

\* The plausible bug: without an open row nothing is written.
MutSkipsUnknown(o, pnl) ==
    LET open == OpenRows(pid[o])
        first == CHOOSE i \in open : \A j \in open : i <= j
    IN  IF open = {} THEN journal ELSE [journal EXCEPT ![first].exit = o, ![first].pnl = pnl]

\* The file with the close of o in it: the first open row of the id takes the
\* exit, and without one a row of its own is appended.
Rewritten(o, pnl) ==
    LET open == OpenRows(pid[o])
        first == CHOOSE i \in open : \A j \in open : i <= j
    IN  IF open # {}
        THEN [journal EXCEPT ![first].exit = o, ![first].pnl = pnl]
        ELSE Append(journal, [position_id |-> pid[o], entry |-> NoOrder, exit |-> o, pnl |-> pnl])

\* The plausible bug: trades.csv is truncated and written in place.
MutInPlace(t) ==
    /\ Turn(t) /\ task[t].at = "closing"
    /\ \E pnl \in Results : tmp' = Rewritten(task[t].order, pnl)
    /\ journal' = <<>>
    /\ Goes(t, "replacing", task[t].order)
    /\ UNCHANGED <<running, crashes, counter, registry, broker, rows, calls>>

\* record_closed up to the written trades.tmp; the keywords of main.py raise TypeError.
record_closed(t) ==
    /\ Turn(t) /\ task[t].at = "closing"
    /\ \/ /\ calls = "main"
          /\ Goes(t, "removing", task[t].order)
          /\ UNCHANGED tmp
       \/ /\ calls = "api"
          /\ \E pnl \in Results : tmp' = Rewritten(task[t].order, pnl)
          /\ Goes(t, "replacing", task[t].order)
    /\ UNCHANGED <<running, crashes, counter, registry, broker, rows, calls, journal>>

\* tmp_path.replace(csv_path), one atomic rename.
Replace(t) ==
    /\ Turn(t) /\ task[t].at = "replacing"
    /\ journal' = tmp
    /\ tmp' = <<>>
    /\ Goes(t, "removing", task[t].order)
    /\ UNCHANGED <<running, crashes, counter, registry, broker, rows, calls>>

\* remove_position; a task that closed the same position meanwhile removed it already.
remove_position(t) ==
    /\ Turn(t) /\ task[t].at = "removing"
    /\ registry' = registry \ {task[t].order}
    /\ closed' = closed \union {task[t].order}
    /\ Goes(t, "idle", NoOrder)
    /\ UNCHANGED <<running, crashes, counter, pid, sent, filled, files>>

-----------------------------------------------------------------------------
(* Readers of the journal                                                  *)

Closed(row) == row.exit # NoOrder
ClosedRows == {i \in DOMAIN journal : Closed(journal[i])}
Count(trades, pnl) == Cardinality({i \in trades : journal[i].pnl = pnl})

\* The last Lookback closed rows in file order, which is the order of opening.
recent_trades == {i \in ClosedRows : Cardinality({j \in ClosedRows : i <= j}) <= Lookback}

\* wins / total < threshold, with no alert while nothing was closed.
check_drift ==
    /\ recent_trades # {}
    /\ Count(recent_trades, "win") * Lookback < MinWins * Cardinality(recent_trades)

\* The plausible bug: only rows that were opened in the journal count.
MutCountsEntries ==
    LET trades == {i \in ClosedRows : journal[i].entry # NoOrder}
    IN  [closed_count |-> Cardinality(trades),
         wins |-> Count(trades, "win"), losses |-> Count(trades, "loss")]

\* The closed trades of the whole file, whatever their day; a result of 0 is
\* neither a win nor a loss.
_compute_trade_stats ==
    [closed_count |-> Cardinality(ClosedRows),
     wins |-> Count(ClosedRows, "win"), losses |-> Count(ClosedRows, "loss")]

\* The row of daily_reports.csv that daily_reset_task appends; nothing reads it back.
generate_report ==
    [trades |-> _compute_trade_stats, open_count |-> Cardinality(registry), drift_status |-> "OK"]

-----------------------------------------------------------------------------
SymbolTask(t) ==
    \/ _next_position_id(t) \/ OpenReturns(t) \/ write_position_opened(t) \/ record_opened(t)
    \/ ExitFound(t) \/ record_closed(t) \/ Replace(t) \/ remove_position(t)

Next ==
    \/ Startup \/ Crash \/ BrokerFills
    \/ \E t \in Tasks : SymbolTask(t)

Spec == Init /\ [][Next]_vars

-----------------------------------------------------------------------------
(* Properties                                                              *)

(* The table holds fills only, each once, over all lives of the process;   *)
(* the next position id is above the id of every row, and no two managed   *)
(* positions share one.  More does not hold: rows are numbered by fills    *)
(* and position ids by orders (db/writer.py:362 ignores the id it is       *)
(* given), so a row may have the position id of another order.             *)
RowsAreFills ==
    /\ \A i \in DOMAIN rows : rows[i] \in filled
    /\ \A i, j \in DOMAIN rows : rows[i] = rows[j] => i = j
    /\ running => Len(rows) < counter
    /\ \A o1, o2 \in registry : pid[o1] = pid[o2] => o1 = o2

(* Every position closed and removed, in any life, has its exit in the     *)
(* journal, also when the insert failed and no row was opened for it; two  *)
(* tasks that close one position leave one row each and no more.  A row    *)
(* joins the entry of one order to the exit of another only after a        *)
(* restart, which may give out the id of a failed order's successor again  *)
(* (db/recovery.py:163).  Called as main.py does it, nothing is written.   *)
JournalSound ==
    LET Exits(o) == Cardinality({i \in DOMAIN journal : journal[i].exit = o})
    IN  IF calls = "main" THEN journal = <<>>
        ELSE /\ \A o \in closed : Exits(o) \in 1..Cardinality(Tasks)
             /\ \A i \in DOMAIN journal :
                    NoOrder \in {journal[i].entry, journal[i].exit}
                    \/ journal[i].entry = journal[i].exit
                    \/ crashes > 0

(* No step loses or alters a closed trade, a crash between the temporary   *)
(* file and its rename included; an open row only gains its exit           *)
(* (trade_journal.py:249-257).                                             *)
JournalKeepsRows ==
    [][\A i \in DOMAIN journal :
          /\ i \in DOMAIN journal'
          /\ journal'[i].position_id = journal[i].position_id
          /\ journal'[i].entry = journal[i].entry
          /\ Closed(journal[i]) => journal'[i] = journal[i]]_vars

(* The trade figures of a daily report cover every trade since the file    *)
(* was made, those whose opening was never journalled and those of earlier *)
(* lives included, and never go back; with the calls of main.py they are   *)
(* zero for ever and the drift check never speaks, and it speaks only of   *)
(* trades the report does not count as won (daily_report.py:234,           *)
(* drift_detector.py:66).                                                  *)
FiguresFollowTrades ==
    [][LET figures == generate_report.trades
       IN  /\ calls = "api" => figures'.closed_count >= Cardinality(closed')
           /\ figures'.closed_count >= figures.closed_count
           /\ check_drift' => calls = "api" /\ figures'.wins < figures'.closed_count]_vars
=============================================================================
