------------------------------- MODULE StoreProofs -------------------------------
(* Safety of the positions table and of the trade journal for any symbol   *)
(* tasks, orders and number of crashes.                                    *)
EXTENDS TradeStore, FiniteSetTheorems, SequenceTheorems, TLAPS

Phases == {"idle", "ordering", "persisting", "journalling", "closing", "replacing", "removing"}

JournalRow == [position_id : Nat, entry : Orders \union {NoOrder},
               exit : Orders \union {NoOrder}, pnl : Results \union {"none"}]

StoreTypes ==
  /\ running \in BOOLEAN /\ crashes \in Nat /\ counter \in Nat
  /\ pid \in [Orders -> Nat]
  /\ sent \subseteq Orders /\ filled \subseteq sent /\ registry \subseteq filled
  /\ closed \subseteq Orders
  /\ task \in [Tasks -> [at : Phases, order : Orders \union {NoOrder}]]
  /\ rows \in Seq(Orders)
  /\ calls \in {"main", "api"}
  /\ journal \in Seq(JournalRow) /\ tmp \in Seq(JournalRow)

Opening(t) == task[t].at \in {"ordering", "persisting"}

(* A task is idle or has an order that was sent; one that awaits no more   *)
(* has a filled one. Without a process there is no task and no registry.   *)
TasksHaveOrders ==
  /\ \A t \in Tasks : /\ task[t].at = "idle" => task[t].order = NoOrder
                      /\ task[t].at # "idle" => task[t].order \in sent
                      /\ task[t].at \notin {"idle", "ordering"} => task[t].order \in filled
  /\ ~running => registry = {} /\ \A t \in Tasks : task[t].at = "idle"

(* One event loop: at most one task is between two awaits. *)
OneRuns ==
  \A t, u \in Tasks :
    task[t].at \in Synchronous /\ task[u].at \in Synchronous => t = u

(* An order is opened by one task, and has no row before that task's insert. *)
OpenedOnce ==
  /\ \A t, u \in Tasks :
       Opening(t) /\ Opening(u) /\ task[t].order = task[u].order => t = u
  /\ \A t \in Tasks : Opening(t) => \A i \in 1..Len(rows) : rows[i] # task[t].order

RowsOnce ==
  /\ \A i \in 1..Len(rows) : rows[i] \in filled
  /\ \A i, j \in 1..Len(rows) : rows[i] = rows[j] => i = j

(* The counter is ahead of the rows by the orders that may still get one.  *)
CounterAhead ==
  running => Len(rows) + Cardinality({t \in Tasks : Opening(t)}) < counter

(* The orders whose position id the running process uses, or will use.     *)
Live == registry \union {task[t].order : t \in {u \in Tasks : task[u].at = "ordering"}}

LiveIds ==
  /\ \A o \in Live : pid[o] < counter
  /\ \A o1, o2 \in Live : pid[o1] = pid[o2] => o1 = o2

(* Before the first crash no two orders were ever given the same id.       *)
FirstLife ==
  crashes = 0 =>
    /\ ~running => sent = {}
    /\ \A o \in sent : pid[o] < counter
    /\ \A o1, o2 \in sent : pid[o1] = pid[o2] => o1 = o2

(* An open row of the journal is that of its entry.                        *)
OpenRowsOfEntries ==
  \A i \in 1..Len(journal) :
    journal[i].exit = NoOrder
      => journal[i].entry \in sent /\ journal[i].position_id = pid[journal[i].entry]

(* One row of its own for an order that was opened, without an exit.       *)
Opens(old, new, o) ==
  /\ Len(new) = Len(old) + 1
  /\ new[Len(new)] = [position_id |-> pid[o], entry |-> o, exit |-> NoOrder, pnl |-> "none"]
  /\ \A i \in 1..Len(old) : new[i] = old[i]

(* One row takes the exit of an order: an open row of its position id, or  *)
(* a new one without an entry.                                             *)
TakesExit(old, new, o, k) ==
  /\ k \in 1..Len(new) /\ new[k].exit = o
  /\ \/ /\ k \in 1..Len(old) /\ Len(new) = Len(old)
        /\ old[k].exit = NoOrder
        /\ old[k].position_id = pid[o]
        /\ new[k].position_id = old[k].position_id /\ new[k].entry = old[k].entry
     \/ k = Len(old) + 1 /\ Len(new) = Len(old) + 1 /\ new[k].entry = NoOrder
  /\ \A i \in 1..Len(old) : i # k => new[i] = old[i]

(* trades.tmp is the journal with the close that is being written in it.   *)
TmpTakesExit ==
  \A t \in Tasks : task[t].at = "replacing"
    => calls = "api" /\ \E k \in Nat : TakesExit(journal, tmp, task[t].order, k)

ExitRows(o) == {i \in 1..Len(journal) : journal[i].exit = o}
Closers(o) == {t \in Tasks : task[t].order = o /\ task[t].at \in {"closing", "replacing"}}
Engaged(o) ==
  {t \in Tasks : task[t].order = o /\ task[t].at \in {"closing", "replacing", "removing"}}

Fresh(o) == o \notin sent \/ \E t \in Tasks : task[t].at = "ordering" /\ task[t].order = o

(* What was written and will be written of an order, while it is managed   *)
(* one row per task engaged in it, and never more than one per task.       *)
Bounded(o) ==
  /\ Cardinality(ExitRows(o)) + Cardinality(Closers(o)) <= Cardinality(Tasks)
  /\ o \in registry =>
       Cardinality(ExitRows(o)) + Cardinality(Closers(o)) <= Cardinality(Engaged(o))
  /\ Fresh(o) => ExitRows(o) = {} /\ Engaged(o) = {} /\ o \notin registry

ExitsBounded == \A o \in Orders : Bounded(o)

(* The exit of a position is in the journal before the position is gone.   *)
ClosedHaveExit ==
  calls = "api" =>
    /\ \A o \in closed : ExitRows(o) # {}
    /\ \A t \in Tasks : task[t].at = "removing" => ExitRows(task[t].order) # {}

RowsMatch ==
  crashes = 0 =>
    \A i \in 1..Len(journal) :
      NoOrder \in {journal[i].entry, journal[i].exit} \/ journal[i].entry = journal[i].exit

MainWritesNothing == calls = "main" => journal = <<>>

Base == StoreTypes /\ TasksHaveOrders /\ OneRuns

-----------------------------------------------------------------------------
(* A set of natural numbers that is not empty has a first.                 *)
LEMMA FirstOf ==
  ASSUME NEW S \in SUBSET Nat, S # {}
  PROVE  \E i \in S : \A j \in S : i <= j
<1>1. PICK i \in S : \A j \in S : ~(<<j, i>> \in OpToRel(<, Nat))
  BY NatLessThanWellFounded, WFMin
<1>2. \A a, b \in Nat : <<b, a>> \in OpToRel(<, Nat) <=> b < a
  BY DEF OpToRel
<1>3. ASSUME NEW j \in S PROVE i <= j
  <2>1. i \in Nat /\ j \in Nat /\ ~(j < i)
    BY <1>1, <1>2
  <2> QED
    BY <2>1
<1> QED
  BY <1>3

(* A step of one task is seen in its phase and order only.                 *)
LEMMA GoesTo ==
  ASSUME StoreTypes, NEW t \in Tasks, NEW at \in Phases, NEW o \in Orders \union {NoOrder},
         Goes(t, at, o)
  PROVE  /\ task' \in [Tasks -> [at : Phases, order : Orders \union {NoOrder}]]
         /\ \A u \in Tasks : /\ task'[u].at = IF u = t THEN at ELSE task[u].at
                            /\ task'[u].order = IF u = t THEN o ELSE task[u].order
BY DEF Goes, StoreTypes

(* When a task steps no other one is between two awaits.                   *)
LEMMA TurnAlone ==
  ASSUME NEW t \in Tasks, Turn(t)
  PROVE  running /\ \A u \in Tasks : u # t => task[u].at \notin Synchronous
BY DEF Turn

(* The process has not started, and the files are empty.                   *)
LEMMA StoreInit == Init => Base
<1> SUFFICES ASSUME Init PROVE Base
  OBVIOUS
<1>1. \A t \in Tasks : task[t] = Idle
  BY DEF Init
<1>2. StoreTypes
  <2>1. rows \in Seq(Orders) /\ journal \in Seq(JournalRow) /\ tmp \in Seq(JournalRow)
    BY EmptySeq DEF Init
  <2>2. task \in [Tasks -> [at : Phases, order : Orders \union {NoOrder}]]
    BY DEF Init, Idle, Phases
  <2>3. calls \in {"main", "api"}
    BY StoreAssumption DEF StoreAssumption, Init
  <2> QED
    BY <2>1, <2>2, <2>3 DEF Init, StoreTypes
<1>3. TasksHaveOrders /\ OneRuns
  BY <1>1 DEF Init, TasksHaveOrders, OneRuns, Idle, Synchronous
<1> QED
  BY <1>2, <1>3 DEF Base

(* A rewritten journal is a journal. *)
LEMMA RewrittenTypes ==
  ASSUME StoreTypes, NEW o \in Orders, NEW pnl \in Results
  PROVE  Rewritten(o, pnl) \in Seq(JournalRow)
<1> DEFINE open == OpenRows(pid[o])
           first == CHOOSE i \in open : \A j \in open : i <= j
<1>1. /\ journal \in Seq(JournalRow) /\ pid[o] \in Nat
      /\ DOMAIN journal = 1..Len(journal) /\ Len(journal) \in Nat
  BY LenProperties DEF StoreTypes
<1>2. CASE open = {}
  <2>1. [position_id |-> pid[o], entry |-> NoOrder, exit |-> o, pnl |-> pnl] \in JournalRow
    BY <1>1 DEF JournalRow
  <2>2. Append(journal, [position_id |-> pid[o], entry |-> NoOrder, exit |-> o, pnl |-> pnl])
          \in Seq(JournalRow)
    BY <1>1, <2>1, AppendProperties
  <2> QED
    BY <1>2, <2>2 DEF Rewritten
<1>3. CASE open # {}
  <2>1. open \in SUBSET Nat /\ open \subseteq 1..Len(journal)
    BY <1>1 DEF OpenRows
  <2>2. first \in open
    BY <1>3, <2>1, FirstOf
  <2>3. first \in 1..Len(journal)
    BY <2>1, <2>2
  <2> HIDE DEF open, first
  <2>4. journal[first] \in JournalRow
    BY <1>1, <2>3, ElementOfSeq
  <2>5. [journal[first] EXCEPT !.exit = o, !.pnl = pnl] \in JournalRow
    BY <2>4 DEF JournalRow
  <2>6. [journal EXCEPT ![first] = [journal[first] EXCEPT !.exit = o, !.pnl = pnl]]
          \in Seq(JournalRow)
    BY <1>1, <2>3, <2>5, ExceptSeq
  <2>7. [journal EXCEPT ![first].exit = o, ![first].pnl = pnl]
          = [journal EXCEPT ![first] = [journal[first] EXCEPT !.exit = o, !.pnl = pnl]]
    BY <1>1, <2>3, <2>4 DEF JournalRow
  <2> QED
    BY <1>3, <2>6, <2>7 DEF Rewritten, open, first
<1> QED
  BY <1>2, <1>3

(* What a step of a symbol task does to the tasks and the registry.        *)
LEMMA BaseKept ==
  ASSUME Base, NEW t \in Tasks, Turn(t), NEW at \in Phases,
         NEW o \in Orders \union {NoOrder}, Goes(t, at, o),
         StoreTypes', UNCHANGED running, sent \subseteq sent', filled \subseteq filled',
         at = "idle" => o = NoOrder,
         at # "idle" => o \in sent',
         at \notin {"idle", "ordering"} => o \in filled'
  PROVE  Base'
<1>1. \A u \in Tasks : /\ task'[u].at = IF u = t THEN at ELSE task[u].at
                       /\ task'[u].order = IF u = t THEN o ELSE task[u].order
  BY GoesTo DEF Base
<1>2. running /\ \A u \in Tasks : u # t => task[u].at \notin Synchronous
  BY TurnAlone
<1>3. TasksHaveOrders'
  BY <1>1, <1>2 DEF Base, TasksHaveOrders
<1>4. OneRuns'
  BY <1>1, <1>2 DEF OneRuns
<1> QED
  BY <1>3, <1>4 DEF Base

(* Every step keeps the types, the tasks' orders and the one event loop.   *)
LEMMA BaseStep ==
  ASSUME Base, Next
  PROVE  Base'
<1> USE DEF memory, broker, files
<1>0. /\ StoreTypes /\ TasksHaveOrders /\ OneRuns /\ NoOrder \in Orders \union {NoOrder}
      /\ {"idle", "ordering", "persisting", "journalling", "closing", "replacing", "removing"}
           = Phases
  BY DEF Base, Phases
<1>1. ASSUME Startup PROVE Base'
  <2>1. counter' \in Nat
    BY <1>0, <1>1, LenProperties DEF Startup, get_next_position_id, StoreTypes
  <2> QED
    BY <1>0, <1>1, <2>1 DEF Startup, Base, StoreTypes, TasksHaveOrders, OneRuns
<1>2. ASSUME Crash PROVE Base'
  <2>1. \A u \in Tasks : task'[u] = Idle
    BY <1>2 DEF Crash
  <2>2. StoreTypes'
    <3>1. task' \in [Tasks -> [at : Phases, order : Orders \union {NoOrder}]]
      BY <1>0, <1>2 DEF Crash, Idle
    <3>2. /\ running' = FALSE /\ crashes' = crashes + 1 /\ registry' = {}
          /\ UNCHANGED <<counter, pid, sent, filled, closed, rows, calls, journal, tmp>>
      BY <1>2 DEF Crash
    <3>3. crashes \in Nat
      BY <1>0 DEF StoreTypes
    <3>4. crashes' \in Nat
      BY <3>2, <3>3
    <3>5. running' \in BOOLEAN /\ registry' \subseteq filled'
      BY <3>2, Zenon
    <3> QED
      BY <1>0, <3>1, <3>2, <3>4, <3>5 DEF StoreTypes
  <2>3. TasksHaveOrders' /\ OneRuns'
    BY <1>2, <2>1 DEF Crash, TasksHaveOrders, OneRuns, Idle, Synchronous
  <2> QED
    BY <2>2, <2>3 DEF Base
<1>3. ASSUME BrokerFills PROVE Base'
  <2>1. StoreTypes'
    BY <1>0, <1>3 DEF BrokerFills, StoreTypes
  <2> QED
    BY <1>0, <1>3, <2>1 DEF BrokerFills, Base, TasksHaveOrders, OneRuns
<1>4. ASSUME NEW t \in Tasks, _next_position_id(t) PROVE Base'
  <2>1. PICK o \in Orders \ sent :
          pid' = [pid EXCEPT ![o] = counter] /\ sent' = sent \union {o} /\ Goes(t, "ordering", o)
    BY <1>4 DEF _next_position_id
  <2>2. task' \in [Tasks -> [at : Phases, order : Orders \union {NoOrder}]]
    BY <1>0, <2>1, GoesTo
  <2>3. StoreTypes'
    BY <1>0, <1>4, <2>1, <2>2 DEF _next_position_id, StoreTypes
  <2>4. Turn(t) /\ UNCHANGED running /\ filled \subseteq filled'
    BY <1>4 DEF _next_position_id
  <2> QED
    BY <1>0, <2>1, <2>3, <2>4, BaseKept
<1>5. ASSUME NEW t \in Tasks, OpenReturns(t) PROVE Base'
  <2> DEFINE o == task[t].order
  <2>1. Turn(t) /\ UNCHANGED <<running, crashes, counter, broker, files>> /\ o \in sent
    BY <1>0, <1>5 DEF OpenReturns, TasksHaveOrders
  <2>2. CASE o \in filled /\ registry' = registry \union {o} /\ Goes(t, "persisting", o)
    <3>1. task' \in [Tasks -> [at : Phases, order : Orders \union {NoOrder}]]
      BY <1>0, <2>1, <2>2, GoesTo DEF StoreTypes
    <3>2. StoreTypes'
      BY <1>0, <2>1, <2>2, <3>1 DEF StoreTypes
    <3>3. o \in Orders \union {NoOrder}
      BY <1>0, <2>1 DEF StoreTypes
    <3> QED
      BY <1>0, <2>1, <2>2, <3>2, <3>3, BaseKept
  <2>3. CASE Goes(t, "idle", NoOrder) /\ UNCHANGED registry
    <3>1. task' \in [Tasks -> [at : Phases, order : Orders \union {NoOrder}]]
      BY <1>0, <2>3, GoesTo
    <3>2. StoreTypes'
      BY <1>0, <2>1, <2>3, <3>1 DEF StoreTypes
    <3> QED
      BY <1>0, <2>1, <2>3, <3>2, BaseKept
  <2> QED
    BY <1>5, <2>2, <2>3 DEF OpenReturns
<1>6. ASSUME NEW t \in Tasks, write_position_opened(t) PROVE Base'
  <2> DEFINE o == task[t].order
  <2>1. /\ Turn(t) /\ o \in filled /\ o \in Orders
        /\ UNCHANGED <<running, crashes, counter, registry, broker, calls, journal, tmp>>
    BY <1>0, <1>6 DEF write_position_opened, TasksHaveOrders, StoreTypes
  <2>2. CASE rows' = Append(rows, o) /\ Goes(t, "journalling", o)
    <3>1. task' \in [Tasks -> [at : Phases, order : Orders \union {NoOrder}]]
      BY <1>0, <2>1, <2>2, GoesTo
    <3>2. rows' \in Seq(Orders)
      BY <1>0, <2>1, <2>2, AppendProperties DEF StoreTypes
    <3>3. StoreTypes'
      BY <1>0, <2>1, <3>1, <3>2 DEF StoreTypes
    <3> QED
      BY <1>0, <2>1, <2>2, <3>3, BaseKept DEF StoreTypes
  <2>3. CASE Goes(t, "idle", NoOrder) /\ UNCHANGED rows
    <3>1. task' \in [Tasks -> [at : Phases, order : Orders \union {NoOrder}]]
      BY <1>0, <2>3, GoesTo
    <3>2. StoreTypes'
      BY <1>0, <2>1, <2>3, <3>1 DEF StoreTypes
    <3> QED
      BY <1>0, <2>1, <2>3, <3>2, BaseKept
  <2> QED
    BY <1>6, <2>2, <2>3 DEF write_position_opened
<1>7. ASSUME NEW t \in Tasks, record_opened(t) PROVE Base'
  <2> DEFINE o == task[t].order
             row == [position_id |-> pid[o], entry |-> o, exit |-> NoOrder, pnl |-> "none"]
  <2>1. /\ Turn(t) /\ o \in Orders /\ Goes(t, "idle", NoOrder)
        /\ journal' = IF calls = "main" THEN journal ELSE Append(journal, row)
        /\ UNCHANGED <<running, crashes, counter, registry, broker, rows, calls, tmp>>
    BY <1>0, <1>7 DEF record_opened, TasksHaveOrders, StoreTypes
  <2>2. task' \in [Tasks -> [at : Phases, order : Orders \union {NoOrder}]]
    BY <1>0, <2>1, GoesTo
  <2>3. row \in JournalRow
    BY <1>0, <2>1 DEF StoreTypes, JournalRow
  <2>4. journal' \in Seq(JournalRow)
    BY <1>0, <2>1, <2>3, AppendProperties DEF StoreTypes
  <2>5. StoreTypes'
    BY <1>0, <2>1, <2>2, <2>4 DEF StoreTypes
  <2> QED
    BY <1>0, <2>1, <2>5, BaseKept
<1>8. ASSUME NEW t \in Tasks, ExitFound(t) PROVE Base'
  <2>1. PICK o \in registry : Goes(t, "closing", o)
    BY <1>8 DEF ExitFound
  <2>2. /\ Turn(t) /\ o \in Orders /\ o \in filled /\ o \in sent
        /\ UNCHANGED <<running, crashes, counter, registry, broker, files>>
    BY <1>0, <1>8, <2>1 DEF ExitFound, StoreTypes
  <2>3. task' \in [Tasks -> [at : Phases, order : Orders \union {NoOrder}]]
    BY <1>0, <2>1, <2>2, GoesTo
  <2>4. StoreTypes'
    BY <1>0, <2>2, <2>3 DEF StoreTypes
  <2> QED
    BY <1>0, <2>1, <2>2, <2>4, BaseKept
<1>9. ASSUME NEW t \in Tasks, record_closed(t) PROVE Base'
  <2> DEFINE o == task[t].order
  <2>1. /\ Turn(t) /\ o \in Orders /\ o \in sent /\ o \in filled
        /\ UNCHANGED <<running, crashes, counter, registry, broker, rows, calls, journal>>
    BY <1>0, <1>9 DEF record_closed, TasksHaveOrders, StoreTypes
  <2>2. CASE Goes(t, "removing", o) /\ UNCHANGED tmp
    <3>1. task' \in [Tasks -> [at : Phases, order : Orders \union {NoOrder}]]
      BY <1>0, <2>1, <2>2, GoesTo
    <3>2. StoreTypes'
      BY <1>0, <2>1, <2>2, <3>1 DEF StoreTypes
    <3> QED
      BY <1>0, <2>1, <2>2, <3>2, BaseKept
  <2>3. CASE Goes(t, "replacing", o) /\ \E pnl \in Results : tmp' = Rewritten(o, pnl)
    <3>1. task' \in [Tasks -> [at : Phases, order : Orders \union {NoOrder}]]
      BY <1>0, <2>1, <2>3, GoesTo
    <3>2. tmp' \in Seq(JournalRow)
      BY <1>0, <2>1, <2>3, RewrittenTypes
    <3>3. StoreTypes'
      BY <1>0, <2>1, <3>1, <3>2 DEF StoreTypes
    <3> QED
      BY <1>0, <2>1, <2>3, <3>3, BaseKept
  <2> QED
    BY <1>9, <2>2, <2>3 DEF record_closed
<1>10. ASSUME NEW t \in Tasks, Replace(t) PROVE Base'
  <2> DEFINE o == task[t].order
  <2>1. /\ Turn(t) /\ o \in Orders /\ o \in sent /\ o \in filled
        /\ journal' = tmp /\ tmp' = <<>> /\ Goes(t, "removing", o)
        /\ UNCHANGED <<running, crashes, counter, registry, broker, rows, calls>>
    BY <1>0, <1>10 DEF Replace, TasksHaveOrders, StoreTypes
  <2>2. task' \in [Tasks -> [at : Phases, order : Orders \union {NoOrder}]]
    BY <1>0, <2>1, GoesTo
  <2>3. tmp' \in Seq(JournalRow)
    BY <2>1, EmptySeq
  <2>4. StoreTypes'
    BY <1>0, <2>1, <2>2, <2>3 DEF StoreTypes
  <2> QED
    BY <1>0, <2>1, <2>4, BaseKept
<1>11. ASSUME NEW t \in Tasks, remove_position(t) PROVE Base'
  <2> DEFINE o == task[t].order
  <2>1. /\ Turn(t) /\ o \in Orders /\ Goes(t, "idle", NoOrder)
        /\ registry' = registry \ {o} /\ closed' = closed \union {o}
        /\ UNCHANGED <<running, crashes, counter, pid, sent, filled, files>>
    BY <1>0, <1>11 DEF remove_position, TasksHaveOrders, StoreTypes
  <2>2. task' \in [Tasks -> [at : Phases, order : Orders \union {NoOrder}]]
    BY <1>0, <2>1, GoesTo
  <2>3. StoreTypes'
    BY <1>0, <2>1, <2>2 DEF StoreTypes
  <2> QED
    BY <1>0, <2>1, <2>3, BaseKept
<1> QED
  BY <1>1, <1>2, <1>3, <1>4, <1>5, <1>6, <1>7, <1>8, <1>9, <1>10, <1>11 DEF Next, SymbolTask

-----------------------------------------------------------------------------
(* Opening                                                                 *)

OpeningInv == OpenedOnce /\ RowsOnce /\ CounterAhead /\ LiveIds

OpeningTasks == {t \in Tasks : Opening(t)}

(* As many rows are still to come as there are tasks that open an order.   *)
LEMMA OpeningFinite ==
  /\ IsFiniteSet(OpeningTasks) /\ Cardinality(OpeningTasks) \in Nat
  /\ IsFiniteSet(OpeningTasks') /\ Cardinality(OpeningTasks') \in Nat
<1>1. IsFiniteSet(Tasks)
  BY StoreAssumption DEF StoreAssumption
<1>2. OpeningTasks \in SUBSET Tasks /\ (OpeningTasks)' \in SUBSET Tasks
  BY DEF OpeningTasks
<1>3. IsFiniteSet(OpeningTasks) /\ IsFiniteSet((OpeningTasks)')
  BY <1>1, <1>2, FS_Subset
<1> QED
  BY <1>3, FS_CardinalityType

(* The ids of the orders still in use stay apart.                          *)
LEMMA IdsKept ==
  ASSUME Base, LiveIds, pid' = pid, counter' \in Nat, counter <= counter', Live' \subseteq Live
  PROVE  LiveIds'
<1>1. Live \subseteq Orders /\ counter \in Nat /\ pid \in [Orders -> Nat]
  BY DEF Base, StoreTypes, TasksHaveOrders, Live
<1>2. ASSUME NEW o \in Live' PROVE pid'[o] < counter'
  <2>1. pid[o] < counter /\ pid[o] \in Nat
    BY <1>1, <1>2 DEF LiveIds
  <2> QED
    BY <1>1, <2>1
<1> QED
  BY <1>2 DEF LiveIds

(* A step in which a task neither starts an order nor writes a row.        *)
LEMMA OpeningQuiet ==
  ASSUME Base, OpeningInv, NEW t \in Tasks, NEW at \in Phases \ {"ordering"},
         NEW o \in Orders \union {NoOrder}, Goes(t, at, o),
         at = "persisting" => task[t].at = "ordering" /\ o = task[t].order,
         UNCHANGED <<running, counter, rows, pid>>, filled \subseteq filled',
         registry' \subseteq Live
  PROVE  OpeningInv'
<1>1. /\ at \in Phases /\ counter \in Nat /\ Len(rows) \in Nat
      /\ \A u \in Tasks : /\ task'[u].at = IF u = t THEN at ELSE task[u].at
                          /\ task'[u].order = IF u = t THEN o ELSE task[u].order
  BY GoesTo, LenProperties DEF Base, StoreTypes
<1>2. \A u \in Tasks : Opening(u)' => Opening(u) /\ task'[u].order = task[u].order
  BY <1>1 DEF Opening
<1>3. OpenedOnce'
  BY <1>2 DEF OpeningInv, OpenedOnce
<1>4. RowsOnce'
  BY DEF OpeningInv, RowsOnce
<1>5. CounterAhead'
  <2>1. OpeningTasks' \in SUBSET OpeningTasks
    BY <1>2 DEF OpeningTasks
  <2>2. Cardinality(OpeningTasks') <= Cardinality(OpeningTasks)
    BY <2>1, OpeningFinite, FS_Subset
  <2>3. running => Len(rows) + Cardinality(OpeningTasks) < counter
    BY DEF OpeningInv, CounterAhead, OpeningTasks
  <2>4. running' => Len(rows') + Cardinality(OpeningTasks') < counter'
    BY <1>1, <2>2, <2>3, OpeningFinite
  <2> QED
    BY <2>4 DEF CounterAhead, OpeningTasks
<1>6. LiveIds'
  <2>1. Live' \subseteq Live
    BY <1>1 DEF Live
  <2>2. counter' \in Nat /\ counter <= counter'
    BY <1>1
  <2> QED
    BY <2>1, <2>2, IdsKept DEF OpeningInv
<1> QED
  BY <1>3, <1>4, <1>5, <1>6 DEF OpeningInv

(* A step without a task: none is opening an order before or after it, or  *)
(* only a fill arrived.                                                    *)
LEMMA OpeningElsewhere ==
  ASSUME Base, Base', OpeningInv, Startup \/ Crash \/ BrokerFills
  PROVE  OpeningInv'
<1> USE DEF memory, broker, files
<1>1. CASE BrokerFills
  <2>1. UNCHANGED <<memory, pid, rows>> /\ filled \subseteq filled'
    BY <1>1 DEF BrokerFills
  <2>2. OpenedOnce' /\ RowsOnce' /\ LiveIds'
    BY <2>1 DEF OpeningInv, OpenedOnce, Opening, RowsOnce, LiveIds, Live
  <2>3. CounterAhead'
    BY <2>1 DEF OpeningInv, CounterAhead, Opening
  <2> QED
    BY <2>2, <2>3 DEF OpeningInv
<1>2. CASE Startup \/ Crash
  <2>1. /\ \A t \in Tasks : task'[t].at = "idle"
        /\ registry' = {} /\ UNCHANGED <<pid, filled, rows>>
    <3>1. CASE Startup
      BY <3>1 DEF Startup, Base, TasksHaveOrders
    <3>2. CASE Crash
      BY <3>2 DEF Crash, Idle
    <3> QED
      BY <1>2, <3>1, <3>2
  <2>2. OpenedOnce' /\ RowsOnce'
    BY <2>1 DEF OpeningInv, OpenedOnce, Opening, RowsOnce
  <2>3. Live' = {}
    BY <2>1 DEF Live
  <2>4. LiveIds'
    BY <2>3 DEF LiveIds
  <2>5. CounterAhead'
    <3>1. {t \in Tasks : Opening(t)'} = {}
      BY <2>1 DEF Opening
    <3>2. Cardinality({t \in Tasks : Opening(t)'}) = 0
      BY <3>1, FS_EmptySet
    <3>3. running' => counter' = Len(rows') + 1
      BY <1>2, <2>1 DEF Startup, Crash, get_next_position_id
    <3>4. Len(rows') \in Nat
      BY LenProperties DEF Base, StoreTypes
    <3>5. running' => Len(rows') + Cardinality({t \in Tasks : Opening(t)'}) < counter'
      BY <3>2, <3>3, <3>4
    <3> QED
      BY <3>5 DEF CounterAhead
  <2> QED
    BY <2>2, <2>4, <2>5 DEF OpeningInv
<1> QED
  BY <1>1, <1>2

(* An order never sent before gets an id no other one in use has.          *)
LEMMA OpeningStarts ==
  ASSUME Base, Base', OpeningInv, NEW t \in Tasks, _next_position_id(t)
  PROVE  OpeningInv'
<1>1. PICK o \in Orders \ sent :
        pid' = [pid EXCEPT ![o] = counter] /\ sent' = sent \union {o} /\ Goes(t, "ordering", o)
  BY DEF _next_position_id
<1>2. /\ task[t].at = "idle" /\ counter' = counter + 1
      /\ UNCHANGED <<running, registry, filled, rows>>
  BY DEF _next_position_id, files, Idle
<1>3. /\ counter \in Nat /\ Len(rows) \in Nat /\ pid \in [Orders -> Nat]
      /\ filled \subseteq sent /\ registry \subseteq filled /\ sent \subseteq Orders
      /\ \A u \in Tasks : task[u].at # "idle" => task[u].order \in sent
  BY LenProperties DEF Base, StoreTypes, TasksHaveOrders
<1>4. \A u \in Tasks : /\ task'[u].at = IF u = t THEN "ordering" ELSE task[u].at
                       /\ task'[u].order = IF u = t THEN o ELSE task[u].order
  BY <1>1, GoesTo DEF Base, Phases
<1>5. \A u \in Tasks : /\ Opening(u)' <=> u = t \/ Opening(u)
                       /\ Opening(u) => u # t /\ task[u].order # o
  BY <1>1, <1>2, <1>3, <1>4 DEF Opening
<1>6. OpenedOnce'
  <2>1. \A i \in 1..Len(rows) : rows[i] # o
    BY <1>1, <1>3 DEF OpeningInv, RowsOnce
  <2> QED
    BY <1>2, <1>4, <1>5, <2>1 DEF OpeningInv, OpenedOnce
<1>7. RowsOnce'
  BY <1>2 DEF OpeningInv, RowsOnce
<1>8. CounterAhead'
  <2>1. OpeningTasks' = OpeningTasks \union {t} /\ t \notin OpeningTasks
    BY <1>5 DEF OpeningTasks
  <2>2. Cardinality(OpeningTasks') = Cardinality(OpeningTasks) + 1
    BY <2>1, OpeningFinite, FS_AddElement
  <2>3. running => Len(rows) + Cardinality(OpeningTasks) < counter
    BY DEF OpeningInv, CounterAhead, OpeningTasks
  <2>4. running' => Len(rows') + Cardinality(OpeningTasks') < counter'
    BY <1>2, <1>3, <2>2, <2>3, OpeningFinite
  <2> QED
    BY <2>4 DEF CounterAhead, OpeningTasks
<1>9. LiveIds'
  <2>1. Live \subseteq sent /\ Live' \subseteq Live \union {o}
    BY <1>2, <1>3, <1>4 DEF Live
  <2>2. \A p \in Live : pid'[p] = pid[p] /\ pid'[p] < counter /\ pid[p] \in Nat
    BY <1>1, <1>3, <2>1 DEF OpeningInv, LiveIds
  <2>3. pid'[o] = counter
    BY <1>1, <1>3
  <2>4. \A p \in Live' : pid'[p] < counter'
    BY <1>2, <1>3, <2>1, <2>2, <2>3
  <2>5. \A p \in Live : pid'[p] # pid'[o]
    BY <1>3, <2>2, <2>3
  <2>6. \A o1, o2 \in Live' : pid'[o1] = pid'[o2] => o1 = o2
    BY <2>1, <2>2, <2>5 DEF OpeningInv, LiveIds
  <2> QED
    BY <2>4, <2>6 DEF LiveIds
<1> QED
  BY <1>6, <1>7, <1>8, <1>9 DEF OpeningInv

(* A row is inserted for the order the task was opening.                   *)
LEMMA OpeningInserts ==
  ASSUME Base, Base', OpeningInv, NEW t \in Tasks, NEW o, o = task[t].order,
         task[t].at = "persisting", rows' = Append(rows, o), Goes(t, "journalling", o),
         UNCHANGED <<running, counter, registry, pid, filled>>
  PROVE  OpeningInv'
<1>1. /\ counter \in Nat /\ rows \in Seq(Orders) /\ o \in filled /\ o \in Orders
  BY DEF Base, StoreTypes, TasksHaveOrders
<1>2. \A u \in Tasks : /\ task'[u].at = IF u = t THEN "journalling" ELSE task[u].at
                       /\ task'[u].order = IF u = t THEN o ELSE task[u].order
  BY <1>1, GoesTo DEF Base, Phases
<1>3. /\ Len(rows) \in Nat /\ Len(rows') = Len(rows) + 1
      /\ rows'[Len(rows) + 1] = o
      /\ \A i \in 1..Len(rows) : rows'[i] = rows[i]
  BY <1>1, LenProperties, AppendProperties
<1>4. \A u \in Tasks : Opening(u)' <=> Opening(u) /\ u # t
  BY <1>2 DEF Opening
<1>5. Opening(t)
  BY DEF Opening
<1>6. \A i \in 1..Len(rows') : i \in 1..Len(rows) \/ i = Len(rows) + 1
  BY <1>3
<1>7. \A i \in 1..Len(rows) : rows[i] # o
  BY <1>5 DEF OpeningInv, OpenedOnce
<1>8. OpenedOnce'
  <2>1. \A u \in Tasks : Opening(u)' => task'[u].order = task[u].order /\ task[u].order # o
    BY <1>2, <1>4, <1>5 DEF OpeningInv, OpenedOnce
  <2>2. ASSUME NEW u \in Tasks, Opening(u)', NEW i \in 1..Len(rows')
        PROVE  rows'[i] # task'[u].order
    BY <1>3, <1>4, <1>6, <2>1, <2>2 DEF OpeningInv, OpenedOnce
  <2>3. \A u, w \in Tasks :
          Opening(u)' /\ Opening(w)' /\ task'[u].order = task'[w].order => u = w
    BY <1>4, <2>1 DEF OpeningInv, OpenedOnce
  <2> QED
    BY <2>2, <2>3 DEF OpenedOnce
<1>9. RowsOnce'
  <2>1. \A i \in 1..Len(rows') : rows'[i] \in filled'
    BY <1>1, <1>3, <1>6 DEF OpeningInv, RowsOnce
  <2>2. \A i, j \in 1..Len(rows') : rows'[i] = rows'[j] => i = j
    BY <1>3, <1>6, <1>7 DEF OpeningInv, RowsOnce
  <2> QED
    BY <2>1, <2>2 DEF RowsOnce
<1>10. CounterAhead'
  <2>1. OpeningTasks' = OpeningTasks \ {t} /\ t \in OpeningTasks
    BY <1>4, <1>5 DEF OpeningTasks
  <2>2. Cardinality(OpeningTasks') = Cardinality(OpeningTasks) - 1
    BY <2>1, OpeningFinite, FS_RemoveElement
  <2>3. running => Len(rows) + Cardinality(OpeningTasks) < counter
    BY DEF OpeningInv, CounterAhead, OpeningTasks
  <2>4. running' => Len(rows') + Cardinality(OpeningTasks') < counter'
    BY <1>1, <1>3, <2>2, <2>3, OpeningFinite
  <2> QED
    BY <2>4 DEF CounterAhead, OpeningTasks
<1>11. LiveIds'
  <2>1. Live' \subseteq Live
    BY <1>2 DEF Live
  <2>2. counter' \in Nat /\ counter <= counter'
    BY <1>1
  <2> QED
    BY <2>1, <2>2, IdsKept DEF OpeningInv
<1> QED
  BY <1>8, <1>9, <1>10, <1>11 DEF OpeningInv

(* Every step keeps the rows, the counter and the ids of the orders.       *)
LEMMA OpeningStep ==
  ASSUME Base, Base', OpeningInv, Next
  PROVE  OpeningInv'
<1> USE DEF broker, files
<1>0. /\ NoOrder \in Orders \union {NoOrder} /\ registry \subseteq Live
      /\ {"idle", "persisting", "journalling", "closing", "replacing", "removing"}
           \subseteq Phases \ {"ordering"}
      /\ \A t \in Tasks : task[t].order \in Orders \union {NoOrder}
      /\ registry \subseteq Orders
  BY DEF Phases, Live, Base, StoreTypes
<1>1. ASSUME NEW t \in Tasks, OpenReturns(t) PROVE OpeningInv'
  <2>1. task[t].at = "ordering" /\ UNCHANGED <<running, counter, rows, pid, filled>>
    BY <1>1 DEF OpenReturns
  <2>2. task[t].order \in Live
    BY <2>1 DEF Live
  <2>3. CASE registry' = registry \union {task[t].order} /\ Goes(t, "persisting", task[t].order)
    BY <1>0, <2>1, <2>2, <2>3, OpeningQuiet
  <2>4. CASE Goes(t, "idle", NoOrder) /\ UNCHANGED registry
    BY <1>0, <2>1, <2>4, OpeningQuiet
  <2> QED
    BY <1>1, <2>3, <2>4 DEF OpenReturns
<1>2. ASSUME NEW t \in Tasks, write_position_opened(t) PROVE OpeningInv'
  <2>1. /\ task[t].at = "persisting"
        /\ UNCHANGED <<running, counter, registry, pid, filled>>
    BY <1>2 DEF write_position_opened
  <2>2. CASE rows' = Append(rows, task[t].order) /\ Goes(t, "journalling", task[t].order)
    BY <2>1, <2>2, OpeningInserts
  <2>3. CASE Goes(t, "idle", NoOrder) /\ UNCHANGED rows
    BY <1>0, <2>1, <2>3, OpeningQuiet
  <2> QED
    BY <1>2, <2>2, <2>3 DEF write_position_opened
<1>3. ASSUME NEW t \in Tasks, record_opened(t) \/ ExitFound(t) PROVE OpeningInv'
  <2>1. /\ UNCHANGED <<running, counter, rows, pid, filled, registry>>
        /\ Goes(t, "idle", NoOrder) \/ \E o \in registry : Goes(t, "closing", o)
    BY <1>3 DEF record_opened, ExitFound
  <2> QED
    BY <1>0, <2>1, OpeningQuiet
<1>4. ASSUME NEW t \in Tasks, record_closed(t) \/ Replace(t) PROVE OpeningInv'
  <2>1. /\ UNCHANGED <<running, counter, rows, pid, filled, registry>>
        /\ Goes(t, "removing", task[t].order) \/ Goes(t, "replacing", task[t].order)
    BY <1>4 DEF record_closed, Replace
  <2> QED
    BY <1>0, <2>1, OpeningQuiet
<1>5. ASSUME NEW t \in Tasks, remove_position(t) PROVE OpeningInv'
  <2>1. /\ UNCHANGED <<running, counter, rows, pid, filled>>
        /\ registry' = registry \ {task[t].order} /\ Goes(t, "idle", NoOrder)
    BY <1>5 DEF remove_position
  <2> QED
    BY <1>0, <2>1, OpeningQuiet
<1> QED
  BY <1>1, <1>2, <1>3, <1>4, <1>5, OpeningStarts, OpeningElsewhere DEF Next, SymbolTask

-----------------------------------------------------------------------------
(* The journal                                                             *)

(* Rewritten is the journal in which one row took the exit.                *)
LEMMA RewrittenTakesExit ==
  ASSUME StoreTypes, NEW o \in Orders, NEW pnl \in Results
  PROVE  \E k \in Nat : TakesExit(journal, Rewritten(o, pnl), o, k)
<1> DEFINE open == OpenRows(pid[o])
           first == CHOOSE i \in open : \A j \in open : i <= j
           row == [position_id |-> pid[o], entry |-> NoOrder, exit |-> o, pnl |-> pnl]
<1>1. /\ journal \in Seq(JournalRow) /\ pid[o] \in Nat
      /\ DOMAIN journal = 1..Len(journal) /\ Len(journal) \in Nat
  BY LenProperties DEF StoreTypes
<1>2. CASE open = {}
  <2>1. Rewritten(o, pnl) = Append(journal, row)
    BY <1>2 DEF Rewritten
  <2>2. row \in JournalRow /\ row.exit = o /\ row.entry = NoOrder
    BY <1>1 DEF JournalRow
  <2> HIDE DEF row
  <2>3. /\ Len(Append(journal, row)) = Len(journal) + 1
        /\ Append(journal, row)[Len(journal) + 1] = row
        /\ \A i \in 1..Len(journal) : Append(journal, row)[i] = journal[i]
    BY <1>1, <2>2, AppendProperties
  <2>4. Len(journal) + 1 \in Nat /\ Len(journal) + 1 \in 1..(Len(journal) + 1)
    BY <1>1
  <2>5. TakesExit(journal, Append(journal, row), o, Len(journal) + 1)
    BY <2>2, <2>3, <2>4 DEF TakesExit
  <2> QED
    BY <2>1, <2>4, <2>5
<1>3. CASE open # {}
  <2>1. open \in SUBSET Nat /\ open \subseteq 1..Len(journal)
    BY <1>1 DEF OpenRows
  <2>2. first \in open
    BY <1>3, <2>1, FirstOf
  <2>3. /\ first \in 1..Len(journal) /\ first \in Nat
        /\ journal[first].position_id = pid[o] /\ journal[first].exit = NoOrder
    BY <2>1, <2>2 DEF OpenRows
  <2> HIDE DEF open, first
  <2>4. journal[first] \in JournalRow
    BY <1>1, <2>3, ElementOfSeq
  <2> DEFINE r == [journal[first] EXCEPT !.exit = o, !.pnl = pnl]
             new == [journal EXCEPT ![first] = r]
  <2>5. /\ r \in JournalRow /\ r.exit = o /\ r.entry = journal[first].entry
        /\ r.position_id = journal[first].position_id
    BY <2>4 DEF JournalRow
  <2>6. Rewritten(o, pnl) = new
    <3>1. [journal EXCEPT ![first].exit = o, ![first].pnl = pnl] = new
      BY <1>1, <2>3, <2>4 DEF JournalRow
    <3> QED
      BY <1>3, <3>1 DEF Rewritten, open, first
  <2> HIDE DEF r
  <2>7. /\ Len(new) = Len(journal) /\ new[first] = r
        /\ \A j \in 1..Len(journal) : j # first => new[j] = journal[j]
    BY <1>1, <2>3, <2>5, ExceptSeq
  <2> HIDE DEF new
  <2>8. TakesExit(journal, new, o, first)
    BY <2>3, <2>5, <2>7 DEF TakesExit
  <2> QED
    BY <2>3, <2>6, <2>8
<1> QED
  BY <1>2, <1>3

(* A step leaves the journal alone, opens a row, or writes an exit.        *)
LEMMA JournalMoves ==
  ASSUME Base, TmpTakesExit, Next
  PROVE  /\ calls' = calls
         /\ \/ UNCHANGED journal
            \/ \E t \in Tasks :
                 /\ calls = "api" /\ task[t].at = "journalling" /\ UNCHANGED <<pid, sent, crashes>>
                 /\ task'[t].at = "idle"
                 /\ Opens(journal, journal', task[t].order)
            \/ \E t \in Tasks : \E k \in Nat :
                 /\ calls = "api" /\ Replace(t)
                 /\ TakesExit(journal, journal', task[t].order, k)
<1> USE DEF broker, files
<1>1. CASE \E t \in Tasks : record_opened(t)
  <2>1. PICK t \in Tasks : record_opened(t)
    BY <1>1
  <2> DEFINE o == task[t].order
             row == [position_id |-> pid[o], entry |-> o, exit |-> NoOrder, pnl |-> "none"]
  <2>2. /\ task[t].at = "journalling" /\ UNCHANGED <<calls, pid, sent, crashes>>
        /\ journal' = IF calls = "main" THEN journal ELSE Append(journal, row)
        /\ Goes(t, "idle", NoOrder)
    BY <2>1 DEF record_opened
  <2>3. task'[t].at = "idle" /\ o \in Orders /\ journal \in Seq(JournalRow) /\ pid[o] \in Nat
    BY <2>2, GoesTo DEF Base, StoreTypes, TasksHaveOrders, Phases
  <2>4. row \in JournalRow
    BY <2>3 DEF JournalRow
  <2>5. Opens(journal, Append(journal, row), o)
    <3> HIDE DEF row
    <3>1. /\ Len(Append(journal, row)) = Len(journal) + 1
          /\ Append(journal, row)[Len(journal) + 1] = row
          /\ \A i \in 1..Len(journal) : Append(journal, row)[i] = journal[i]
      BY <2>3, <2>4, AppendProperties
    <3> QED
      BY <3>1 DEF Opens, row
  <2>6. calls \in {"main", "api"}
    BY DEF Base, StoreTypes
  <2> QED
    BY <2>2, <2>3, <2>5, <2>6
<1>2. CASE \E t \in Tasks : Replace(t)
  <2>1. PICK t \in Tasks : Replace(t)
    BY <1>2
  <2>2. task[t].at = "replacing" /\ journal' = tmp /\ UNCHANGED calls
    BY <2>1 DEF Replace
  <2>3. calls = "api" /\ \E k \in Nat : TakesExit(journal, tmp, task[t].order, k)
    BY <2>2 DEF TmpTakesExit
  <2> QED
    BY <2>1, <2>2, <2>3
<1>3. CASE ~(\E t \in Tasks : record_opened(t) \/ Replace(t))
  BY <1>3 DEF Next, SymbolTask, Startup, Crash, BrokerFills, _next_position_id, OpenReturns,
     write_position_opened, ExitFound, record_closed, remove_position
<1> QED
  BY <1>1, <1>2, <1>3

(* What a written row means for the rows and for the exits of an order.    *)
LEMMA TakesExitRows ==
  ASSUME Base, Base', NEW o \in Orders, NEW k \in Nat, TakesExit(journal, journal', o, k)
  PROVE  /\ \A q \in Orders : q # o => ExitRows(q)' = ExitRows(q)
         /\ k \notin ExitRows(o) /\ ExitRows(o)' = ExitRows(o) \union {k}
<1>1. Len(journal) \in Nat /\ Len(journal') \in Nat /\ NoOrder \notin Orders
  BY LenProperties, StoreAssumption DEF Base, StoreTypes, StoreAssumption
<1>2. /\ 1..Len(journal') = (1..Len(journal)) \union {k}
      /\ k \in 1..Len(journal')
      /\ \A i \in 1..Len(journal) : i # k => journal'[i] = journal[i]
      /\ k \in 1..Len(journal) => journal[k].exit = NoOrder
      /\ journal'[k].exit = o
  BY <1>1 DEF TakesExit
<1>3. k \notin ExitRows(o)
  BY <1>1, <1>2 DEF ExitRows
<1>4. ExitRows(o)' = ExitRows(o) \union {k}
  BY <1>1, <1>2 DEF ExitRows
<1>5. ASSUME NEW q \in Orders, q # o PROVE ExitRows(q)' = ExitRows(q)
  BY <1>1, <1>2, <1>5 DEF ExitRows
<1> QED
  BY <1>3, <1>4, <1>5

LEMMA OpensExitRows ==
  ASSUME Base, Base', NEW o \in Orders, Opens(journal, journal', o), NEW q \in Orders
  PROVE  ExitRows(q)' = ExitRows(q)
<1>1. /\ Len(journal) \in Nat /\ NoOrder \notin Orders
      /\ 1..Len(journal') = (1..Len(journal)) \union {Len(journal')}
      /\ Len(journal') \notin 1..Len(journal)
  BY LenProperties, StoreAssumption DEF Base, StoreTypes, StoreAssumption, Opens
<1>2. journal'[Len(journal')].exit = NoOrder /\ \A i \in 1..Len(journal) : journal'[i] = journal[i]
  BY DEF Opens
<1> QED
  BY <1>1, <1>2 DEF ExitRows

(* Position ids are drawn from the counter, which is set only at the start. *)
LEMMA FirstLifeStep ==
  ASSUME Base, Base', FirstLife, Next
  PROVE  FirstLife'
<1> USE DEF broker, files
<1>0. crashes \in Nat /\ counter \in Nat /\ pid \in [Orders -> Nat] /\ sent \subseteq Orders
  BY DEF Base, StoreTypes
<1>1. CASE \E t \in Tasks : _next_position_id(t)
  <2>1. PICK o \in Orders \ sent :
          pid' = [pid EXCEPT ![o] = counter] /\ sent' = sent \union {o}
    BY <1>1 DEF _next_position_id
  <2>2. running' /\ counter' = counter + 1 /\ UNCHANGED crashes
    BY <1>1 DEF _next_position_id, Turn
  <2>3. /\ pid'[o] = counter
        /\ \A q \in sent : pid'[q] = pid[q] /\ pid[q] \in Nat
    BY <1>0, <2>1
  <2>4. ASSUME crashes = 0 PROVE \A q \in sent' : pid'[q] < counter'
    BY <1>0, <2>1, <2>2, <2>3, <2>4 DEF FirstLife
  <2>5. ASSUME crashes = 0 PROVE \A q \in sent : pid'[q] # pid'[o]
    BY <1>0, <2>3, <2>5 DEF FirstLife
  <2>6. crashes = 0 => \A o1, o2 \in sent' : pid'[o1] = pid'[o2] => o1 = o2
    BY <2>1, <2>3, <2>5 DEF FirstLife
  <2> QED
    BY <2>2, <2>4, <2>6 DEF FirstLife
<1>2. CASE Crash
  <2>1. crashes' # 0
    BY <1>0, <1>2 DEF Crash
  <2> QED
    BY <2>1 DEF FirstLife
<1>3. CASE Startup
  BY <1>3 DEF Startup, FirstLife
<1>4. CASE ~Startup /\ ~Crash /\ ~\E t \in Tasks : _next_position_id(t)
  <2>1. UNCHANGED <<running, crashes, counter, pid, sent>>
    BY <1>4 DEF Next, SymbolTask, BrokerFills, memory, OpenReturns, write_position_opened,
       record_opened, ExitFound, record_closed, Replace, remove_position
  <2> QED
    BY <2>1 DEF FirstLife
<1> QED
  BY <1>1, <1>2, <1>3, <1>4

(* The calls of main.py write nothing.                                     *)
LEMMA MainStep ==
  ASSUME Base, TmpTakesExit, MainWritesNothing, Next
  PROVE  MainWritesNothing'
BY JournalMoves DEF MainWritesNothing

(* trades.tmp is written and renamed by one task without another between.  *)
LEMMA TmpStep ==
  ASSUME Base, Base', TmpTakesExit, Next
  PROVE  TmpTakesExit'
<1> USE DEF broker, files
<1> SUFFICES ASSUME NEW u \in Tasks, task'[u].at = "replacing"
             PROVE  calls' = "api" /\ \E k \in Nat : TakesExit(journal, tmp, task[u].order, k)'
  BY DEF TmpTakesExit
<1>1. CASE BrokerFills
  BY <1>1 DEF BrokerFills, memory, TmpTakesExit, TakesExit
<1>2. CASE Startup
  BY <1>2 DEF Startup, Base, TasksHaveOrders
<1>3. CASE Crash
  BY <1>3 DEF Crash, Idle
<1>4. CASE \E t \in Tasks : SymbolTask(t)
  <2>1. PICK t \in Tasks : SymbolTask(t)
    BY <1>4
  <2>2. Turn(t) /\ \E at \in Phases, o \in Orders \union {NoOrder} :
                     Goes(t, at, o) /\ (at = "replacing" => record_closed(t))
    <3>1. task[t].order \in Orders \union {NoOrder} /\ registry \subseteq Orders
      BY DEF Base, StoreTypes
    <3>2. CASE _next_position_id(t) \/ ExitFound(t)
      BY <3>1, <3>2 DEF _next_position_id, ExitFound, Phases
    <3>3. CASE OpenReturns(t) \/ write_position_opened(t) \/ record_opened(t)
      BY <3>1, <3>3 DEF OpenReturns, write_position_opened, record_opened, Phases
    <3>4. CASE record_closed(t)
      BY <3>1, <3>4 DEF record_closed, Phases
    <3>5. CASE Replace(t) \/ remove_position(t)
      BY <3>1, <3>5 DEF Replace, remove_position, Phases
    <3> QED
      BY <2>1, <3>2, <3>3, <3>4, <3>5 DEF SymbolTask
  <2>3. u = t /\ record_closed(t)
    BY <2>2, TurnAlone, GoesTo DEF Base, Synchronous
  <2>4. task[t].at = "closing" /\ UNCHANGED <<pid, journal, calls>>
    BY <2>3 DEF record_closed
  <2>5. calls = "api" /\ task'[t].order = task[t].order
        /\ \E pnl \in Results : tmp' = Rewritten(task[t].order, pnl)
    <3>1. task[t].order \in Orders \union {NoOrder} /\ "removing" \in Phases /\ "replacing" \in Phases
      BY DEF Base, StoreTypes, Phases
    <3>2. CASE Goes(t, "removing", task[t].order)
      BY <2>3, <3>1, <3>2, GoesTo DEF Base
    <3>3. CASE calls = "api" /\ Goes(t, "replacing", task[t].order)
               /\ \E pnl \in Results : tmp' = Rewritten(task[t].order, pnl)
      BY <3>1, <3>3, GoesTo DEF Base
    <3> QED
      BY <2>3, <3>2, <3>3 DEF record_closed
  <2>6. task[t].order \in Orders
    BY <2>4 DEF Base, StoreTypes, TasksHaveOrders
  <2>7. PICK k \in Nat : TakesExit(journal, tmp', task[t].order, k)
    BY <2>5, <2>6, RewrittenTakesExit DEF Base
  <2>8. TakesExit(journal, tmp, task[u].order, k)'
    BY <2>3, <2>4, <2>5, <2>7 DEF TakesExit
  <2> QED
    BY <2>4, <2>5, <2>8
<1> QED
  BY <1>1, <1>2, <1>3, <1>4 DEF Next

(* Orders and their ids, once sent, stay as they are.                      *)
LEMMA SentStays ==
  ASSUME Base, Next
  PROVE  sent \subseteq sent' /\ \A o \in sent : pid'[o] = pid[o]
<1>1. CASE \E t \in Tasks : _next_position_id(t)
  BY <1>1 DEF _next_position_id, Base, StoreTypes
<1>2. CASE ~\E t \in Tasks : _next_position_id(t)
  BY <1>2 DEF Next, SymbolTask, Startup, Crash, BrokerFills, broker, OpenReturns,
     write_position_opened, record_opened, ExitFound, record_closed, Replace, remove_position
<1> QED
  BY <1>1, <1>2

(* An open row stays that of its entry.                                    *)
LEMMA OpenRowsStep ==
  ASSUME Base, Base', TmpTakesExit, OpenRowsOfEntries, Next
  PROVE  OpenRowsOfEntries'
<1>1. Len(journal) \in Nat /\ NoOrder \notin Orders
  BY LenProperties, StoreAssumption DEF Base, StoreTypes, StoreAssumption
<1> SUFFICES ASSUME NEW i \in 1..Len(journal'), journal'[i].exit = NoOrder
             PROVE  /\ journal'[i].entry \in sent'
                    /\ journal'[i].position_id = pid'[journal'[i].entry]
  BY DEF OpenRowsOfEntries
<1>2. CASE i \in 1..Len(journal) /\ journal'[i] = journal[i]
  BY <1>2, SentStays DEF OpenRowsOfEntries
<1>3. CASE UNCHANGED journal
  BY <1>2, <1>3
<1>4. ASSUME NEW t \in Tasks, task[t].at = "journalling", UNCHANGED <<pid, sent>>,
             Opens(journal, journal', task[t].order)
      PROVE  /\ journal'[i].entry \in sent'
             /\ journal'[i].position_id = pid'[journal'[i].entry]
  <2>1. task[t].order \in sent
    BY <1>4 DEF Base, TasksHaveOrders
  <2>2. i \in 1..Len(journal) \/ i = Len(journal')
    BY <1>1, <1>4 DEF Opens
  <2>3. CASE i = Len(journal')
    BY <1>4, <2>1, <2>3 DEF Opens
  <2> QED
    BY <1>2, <1>4, <2>2, <2>3 DEF Opens
<1>5. ASSUME NEW t \in Tasks, NEW k \in Nat, Replace(t),
             TakesExit(journal, journal', task[t].order, k)
      PROVE  /\ journal'[i].entry \in sent'
             /\ journal'[i].position_id = pid'[journal'[i].entry]
  <2>1. task[t].order \in Orders
    BY <1>5 DEF Replace, Base, StoreTypes, TasksHaveOrders
  <2>2. i # k
    BY <1>1, <1>5, <2>1 DEF TakesExit
  <2>3. i \in 1..Len(journal)
    BY <1>1, <1>5, <2>2 DEF TakesExit
  <2> QED
    BY <1>2, <1>5, <2>2, <2>3 DEF TakesExit
<1> QED
  BY <1>3, <1>4, <1>5, JournalMoves

(* In the first life the open row that takes the exit is that of the order. *)
LEMMA RowsMatchStep ==
  ASSUME Base, Base', TmpTakesExit, OpenRowsOfEntries, FirstLife, RowsMatch, Next
  PROVE  RowsMatch'
<1>1. /\ Len(journal) \in Nat /\ crashes \in Nat
      /\ crashes' = 0 => crashes = 0
  <2>1. Len(journal) \in Nat /\ crashes \in Nat
    BY LenProperties DEF Base, StoreTypes
  <2>2. crashes' = crashes \/ crashes' = crashes + 1
    BY DEF Next, SymbolTask, Startup, Crash, BrokerFills, memory, _next_position_id, OpenReturns,
       write_position_opened, record_opened, ExitFound, record_closed, Replace, remove_position
  <2> QED
    BY <2>1, <2>2
<1> SUFFICES ASSUME crashes' = 0, NEW i \in 1..Len(journal')
             PROVE  \/ NoOrder \in {journal'[i].entry, journal'[i].exit}
                    \/ journal'[i].entry = journal'[i].exit
  BY DEF RowsMatch
<1>2. CASE i \in 1..Len(journal) /\ journal'[i] = journal[i]
  BY <1>1, <1>2 DEF RowsMatch
<1>3. CASE UNCHANGED journal
  BY <1>2, <1>3
<1>4. ASSUME NEW t \in Tasks, Opens(journal, journal', task[t].order)
      PROVE  \/ NoOrder \in {journal'[i].entry, journal'[i].exit}
             \/ journal'[i].entry = journal'[i].exit
  <2>1. i \in 1..Len(journal) \/ i = Len(journal')
    BY <1>1, <1>4 DEF Opens
  <2> QED
    BY <1>2, <1>4, <2>1 DEF Opens
<1>5. ASSUME NEW t \in Tasks, NEW k \in Nat, Replace(t),
             TakesExit(journal, journal', task[t].order, k)
      PROVE  \/ NoOrder \in {journal'[i].entry, journal'[i].exit}
             \/ journal'[i].entry = journal'[i].exit
  <2>1. task[t].order \in sent
    BY <1>5 DEF Replace, Base, TasksHaveOrders
  <2>2. CASE i # k
    BY <1>1, <1>2, <1>5, <2>2 DEF TakesExit
  <2>3. CASE i = k /\ journal'[k].entry = NoOrder
    BY <2>3
  <2>4. CASE i = k /\ journal'[k].entry # NoOrder
    <3>1. /\ k \in 1..Len(journal) /\ journal[k].exit = NoOrder
          /\ journal[k].position_id = pid[task[t].order]
          /\ journal'[k].entry = journal[k].entry /\ journal'[k].exit = task[t].order
      BY <1>5, <2>4 DEF TakesExit
    <3>2. journal[k].entry \in sent /\ pid[journal[k].entry] = pid[task[t].order]
      BY <3>1 DEF OpenRowsOfEntries
    <3>3. journal[k].entry = task[t].order
      BY <1>1, <2>1, <3>2 DEF FirstLife
    <3> QED
      BY <2>4, <3>1, <3>3
  <2> QED
    BY <2>2, <2>3, <2>4
<1> QED
  BY <1>3, <1>4, <1>5, JournalMoves

-----------------------------------------------------------------------------
(* How often an exit is written                                            *)

LEMMA ExitsFinite ==
  ASSUME StoreTypes, NEW o
  PROVE  /\ IsFiniteSet(Tasks) /\ Cardinality(Tasks) \in Nat
         /\ IsFiniteSet(ExitRows(o)) /\ Cardinality(ExitRows(o)) \in Nat
         /\ IsFiniteSet(Closers(o)) /\ Cardinality(Closers(o)) \in Nat
         /\ IsFiniteSet(Engaged(o)) /\ Cardinality(Engaged(o)) \in Nat
         /\ Cardinality(Engaged(o)) <= Cardinality(Tasks)
         /\ Closers(o) \subseteq Engaged(o)
<1>1. IsFiniteSet(Tasks)
  BY StoreAssumption DEF StoreAssumption
<1>2. Len(journal) \in Nat
  BY LenProperties DEF StoreTypes
<1>3. IsFiniteSet(1..Len(journal))
  BY <1>2, FS_Interval
<1>4. /\ ExitRows(o) \in SUBSET (1..Len(journal))
      /\ Closers(o) \in SUBSET Tasks /\ Engaged(o) \in SUBSET Tasks
      /\ Closers(o) \subseteq Engaged(o)
  BY DEF ExitRows, Closers, Engaged
<1>5. IsFiniteSet(ExitRows(o)) /\ IsFiniteSet(Closers(o)) /\ IsFiniteSet(Engaged(o))
  BY <1>1, <1>3, <1>4, FS_Subset
<1>6. Cardinality(Engaged(o)) <= Cardinality(Tasks)
  BY <1>1, <1>4, FS_Subset
<1> QED
  BY <1>1, <1>4, <1>5, <1>6, FS_CardinalityType

(* An order for which nothing is written and no task begins to close it.   *)
LEMMA BoundedQuiet ==
  ASSUME StoreTypes, StoreTypes', NEW o \in Orders, Bounded(o),
         ExitRows(o)' = ExitRows(o), Closers(o)' \subseteq Closers(o),
         o \in registry' => o \in registry /\ Engaged(o) \subseteq Engaged(o)',
         Fresh(o)' => Fresh(o) /\ Engaged(o)' \subseteq Engaged(o)
  PROVE  Bounded(o)'
<1> DEFINE e == Cardinality(ExitRows(o))
           c == Cardinality(Closers(o))
           cc == Cardinality(Closers(o)')
           n == Cardinality(Engaged(o))
           nn == Cardinality(Engaged(o)')
           all == Cardinality(Tasks)
<1>1. e \in Nat /\ c \in Nat /\ n \in Nat /\ all \in Nat
  BY ExitsFinite
<1>2. IsFiniteSet(Closers(o)) /\ IsFiniteSet(Engaged(o)')
  <2>1. /\ Engaged(o)' \in SUBSET Tasks /\ IsFiniteSet(Tasks) /\ IsFiniteSet(Closers(o))
    BY ExitsFinite DEF Engaged
  <2> QED
    BY <2>1, FS_Subset
<1>3. cc \in Nat /\ cc <= c /\ nn \in Nat
  BY <1>2, FS_Subset, FS_CardinalityType
<1>4. o \in registry' => n <= nn
  BY <1>2, FS_Subset
<1>5. e + c <= all /\ (o \in registry => e + c <= n)
  BY DEF Bounded
<1> HIDE DEF e, c, cc, n, nn, all
<1>6. e + cc <= all /\ (o \in registry' => e + cc <= nn)
  BY <1>1, <1>3, <1>4, <1>5
<1>7. Fresh(o)' => ExitRows(o)' = {} /\ Engaged(o)' = {} /\ o \notin registry'
  BY DEF Bounded
<1> QED
  BY <1>6, <1>7 DEF Bounded, e, cc, nn, all

(* A task that is not closing and does not begin to: nothing changes.      *)
LEMMA BoundedElsewhere ==
  ASSUME Base, Base', ExitsBounded, NEW t \in Tasks, NEW at \in Phases,
         NEW o \in Orders \union {NoOrder}, Goes(t, at, o),
         {task[t].at, at} \intersect {"closing", "replacing", "removing"} = {},
         registry' = registry, sent \subseteq sent', at = "ordering" => o \notin sent,
         \A q \in Orders : ExitRows(q)' = ExitRows(q)
  PROVE  ExitsBounded'
<1>1. \A u \in Tasks : /\ task'[u].at = IF u = t THEN at ELSE task[u].at
                       /\ task'[u].order = IF u = t THEN o ELSE task[u].order
  BY GoesTo DEF Base
<1> SUFFICES ASSUME NEW q \in Orders PROVE Bounded(q)'
  BY DEF ExitsBounded
<1>2. Closers(q)' = Closers(q) /\ Engaged(q)' = Engaged(q)
  BY <1>1 DEF Closers, Engaged
<1>3. Fresh(q)' => Fresh(q)
  BY <1>1 DEF Fresh
<1> QED
  BY <1>2, <1>3, BoundedQuiet DEF ExitsBounded, Base

(* A filled order becomes a position: nothing was written of it before.    *)
LEMMA BoundedRegisters ==
  ASSUME Base, Base', ExitsBounded, OpenedOnce, NEW t \in Tasks, NEW o, o = task[t].order,
         task[t].at = "ordering", Goes(t, "persisting", o),
         registry' = registry \union {o}, UNCHANGED <<journal, sent>>
  PROVE  ExitsBounded'
<1>0. o \in Orders /\ o \in sent
  BY DEF Base, StoreTypes, TasksHaveOrders
<1>1. \A u \in Tasks : /\ task'[u].at = IF u = t THEN "persisting" ELSE task[u].at
                       /\ task'[u].order = IF u = t THEN o ELSE task[u].order
  BY <1>0, GoesTo DEF Base, Phases
<1> SUFFICES ASSUME NEW q \in Orders PROVE Bounded(q)'
  BY DEF ExitsBounded
<1>2. /\ Closers(q)' = Closers(q) /\ Engaged(q)' = Engaged(q) /\ ExitRows(q)' = ExitRows(q)
      /\ Fresh(q)' => Fresh(q)
  BY <1>1 DEF Closers, Engaged, Fresh, ExitRows
<1>3. CASE q # o
  BY <1>2, <1>3, BoundedQuiet DEF ExitsBounded, Base
<1>4. CASE q = o
  <2>1. Fresh(o)
    BY DEF Fresh
  <2>2. ExitRows(o) = {} /\ Engaged(o) = {} /\ Closers(o) = {}
    BY <1>0, <2>1 DEF ExitsBounded, Bounded, Engaged, Closers
  <2>3. ~Fresh(o)'
    BY <1>0, <1>1 DEF Fresh, OpenedOnce, Opening
  <2>4. Cardinality({}) = 0 /\ Cardinality(Tasks) \in Nat
    BY FS_EmptySet, ExitsFinite DEF Base
  <2>5. /\ Cardinality(ExitRows(o)') + Cardinality(Closers(o)') <= Cardinality(Tasks)
        /\ Cardinality(ExitRows(o)') + Cardinality(Closers(o)') <= Cardinality(Engaged(o)')
    BY <1>2, <1>4, <2>2, <2>4
  <2> QED
    BY <1>4, <2>3, <2>5 DEF Bounded
<1> QED
  BY <1>3, <1>4

(* One more task closes a position that is still managed.                  *)
LEMMA BoundedFinds ==
  ASSUME Base, Base', ExitsBounded, NEW t \in Tasks, NEW o \in registry,
         task[t].at = "idle", Goes(t, "closing", o), UNCHANGED <<registry, journal, sent>>
  PROVE  ExitsBounded'
<1>0. o \in Orders
  BY DEF Base, StoreTypes
<1>1. \A u \in Tasks : /\ task'[u].at = IF u = t THEN "closing" ELSE task[u].at
                       /\ task'[u].order = IF u = t THEN o ELSE task[u].order
  BY <1>0, GoesTo DEF Base, Phases
<1> SUFFICES ASSUME NEW q \in Orders PROVE Bounded(q)'
  BY DEF ExitsBounded
<1>2. ExitRows(q)' = ExitRows(q) /\ (Fresh(q)' => Fresh(q))
  BY <1>1 DEF Fresh, ExitRows
<1>3. CASE q # o
  <2>1. Closers(q)' = Closers(q) /\ Engaged(q)' = Engaged(q)
    BY <1>1, <1>3 DEF Closers, Engaged
  <2> QED
    BY <1>2, <2>1, BoundedQuiet DEF ExitsBounded, Base
<1>4. CASE q = o
  <2> DEFINE e == Cardinality(ExitRows(o))
             c == Cardinality(Closers(o))
             n == Cardinality(Engaged(o))
             cc == Cardinality(Closers(o)')
             nn == Cardinality(Engaged(o)')
             all == Cardinality(Tasks)
  <2>1. /\ Closers(o)' = Closers(o) \union {t} /\ t \notin Closers(o)
        /\ Engaged(o)' = Engaged(o) \union {t} /\ t \notin Engaged(o)
    BY <1>1 DEF Closers, Engaged
  <2>2. /\ e \in Nat /\ c \in Nat /\ n \in Nat /\ all \in Nat
        /\ IsFiniteSet(Closers(o)) /\ IsFiniteSet(Engaged(o)) /\ IsFiniteSet(Tasks)
    BY ExitsFinite DEF Base
  <2>3. cc = c + 1 /\ nn = n + 1
    BY <2>1, <2>2, FS_AddElement
  <2>4. nn <= all
    <3>1. Engaged(o)' \in SUBSET Tasks
      BY DEF Engaged
    <3> QED
      BY <2>2, <3>1, FS_Subset
  <2>5. e + c <= n
    BY <1>0 DEF ExitsBounded, Bounded
  <2>6. ~Fresh(o)'
    BY <1>0, <1>2, <1>4 DEF ExitsBounded, Bounded
  <2> HIDE DEF e, c, n, cc, nn, all
  <2>7. e + cc <= nn /\ e + cc <= all
    BY <2>2, <2>3, <2>4, <2>5
  <2> QED
    BY <1>2, <1>4, <2>6, <2>7 DEF Bounded, e, cc, nn, all
<1> QED
  BY <1>3, <1>4

(* The exit is written: one row more, one task less that will write one.   *)
LEMMA BoundedWrites ==
  ASSUME Base, Base', ExitsBounded, NEW t \in Tasks, Replace(t), NEW k \in Nat,
         NEW o, o = task[t].order, TakesExit(journal, journal', o, k)
  PROVE  ExitsBounded'
<1>0. /\ o \in Orders /\ task[t].at = "replacing" /\ Goes(t, "removing", o)
      /\ UNCHANGED <<registry, sent>>
  BY DEF Replace, broker, Base, StoreTypes, TasksHaveOrders
<1>1. \A u \in Tasks : /\ task'[u].at = IF u = t THEN "removing" ELSE task[u].at
                       /\ task'[u].order = task[u].order
  BY <1>0, GoesTo DEF Base, Phases
<1>2. /\ \A q \in Orders : q # o => ExitRows(q)' = ExitRows(q)
      /\ k \notin ExitRows(o) /\ ExitRows(o)' = ExitRows(o) \union {k}
  BY <1>0, TakesExitRows
<1> SUFFICES ASSUME NEW q \in Orders PROVE Bounded(q)'
  BY DEF ExitsBounded
<1>3. Engaged(q)' = Engaged(q) /\ (Fresh(q)' => Fresh(q))
  BY <1>0, <1>1 DEF Fresh, Engaged
<1>4. CASE q # o
  <2>1. Closers(q)' = Closers(q)
    BY <1>0, <1>1, <1>4 DEF Closers
  <2> QED
    BY <1>0, <1>2, <1>3, <1>4, <2>1, BoundedQuiet DEF ExitsBounded, Base
<1>5. CASE q = o
  <2> DEFINE e == Cardinality(ExitRows(o))
             c == Cardinality(Closers(o))
             n == Cardinality(Engaged(o))
             ee == Cardinality(ExitRows(o)')
             cc == Cardinality(Closers(o)')
             all == Cardinality(Tasks)
  <2>1. Closers(o)' = Closers(o) \ {t} /\ t \in Closers(o) /\ t \in Engaged(o)
    BY <1>0, <1>1 DEF Closers, Engaged
  <2>2. /\ e \in Nat /\ c \in Nat /\ n \in Nat /\ all \in Nat
        /\ IsFiniteSet(Closers(o)) /\ IsFiniteSet(ExitRows(o))
    BY ExitsFinite DEF Base
  <2>3. ee = e + 1 /\ cc = c - 1
    <3>1. Cardinality(ExitRows(o) \union {k}) = Cardinality(ExitRows(o)) + 1
      BY <1>2, <2>2, FS_AddElement
    <3>2. Cardinality(Closers(o) \ {t}) = Cardinality(Closers(o)) - 1
      BY <2>1, <2>2, FS_RemoveElement
    <3> QED
      BY <1>2, <2>1, <3>1, <3>2
  <2>4. e + c <= all /\ (o \in registry => e + c <= n)
    BY <1>0 DEF ExitsBounded, Bounded
  <2>5. ~Fresh(o)'
    BY <1>0, <1>3, <1>5, <2>1 DEF ExitsBounded, Bounded
  <2> HIDE DEF e, c, n, ee, cc, all
  <2>6. ee + cc <= all /\ (o \in registry => ee + cc <= n)
    BY <2>2, <2>3, <2>4
  <2>7. ee + cc <= all /\ (q \in registry' => ee + cc <= Cardinality(Engaged(q)'))
    BY <1>0, <1>3, <1>5, <2>6 DEF n
  <2> QED
    BY <1>5, <2>5, <2>7 DEF Bounded, ee, cc, all
<1> QED
  BY <1>4, <1>5

(* What is written of each order stays bounded by the tasks.               *)
LEMMA ExitsStep ==
  ASSUME Base, Base', OpenedOnce, TmpTakesExit, ExitsBounded, Next
  PROVE  ExitsBounded'
<1> USE DEF broker, files
<1>0. /\ \A t \in Tasks : /\ task[t].order \in Orders \union {NoOrder}
                          /\ task[t].at \in {"persisting", "journalling", "closing", "replacing",
                                             "removing"} => task[t].order \in Orders
      /\ registry \subseteq Orders /\ NoOrder \in Orders \union {NoOrder}
      /\ {"idle", "ordering", "persisting", "journalling", "closing", "replacing", "removing"}
           = Phases
  BY DEF Base, StoreTypes, TasksHaveOrders, Phases
<1>1. CASE Startup \/ Crash \/ BrokerFills
  <2> SUFFICES ASSUME NEW q \in Orders PROVE Bounded(q)'
    BY DEF ExitsBounded
  <2>1. UNCHANGED <<journal, sent>>
    BY <1>1 DEF Startup, Crash, BrokerFills
  <2>2. ExitRows(q)' = ExitRows(q)
    BY <2>1 DEF ExitRows
  <2>3. CASE UNCHANGED <<task, registry>>
    <3>1. /\ Closers(q)' = Closers(q) /\ Engaged(q)' = Engaged(q)
          /\ Fresh(q)' => Fresh(q)
      BY <2>1, <2>3 DEF Closers, Engaged, Fresh
    <3> QED
      BY <2>2, <2>3, <3>1, BoundedQuiet DEF ExitsBounded, Base
  <2>4. CASE registry' = {} /\ \A t \in Tasks : task'[t].at = "idle"
    <3>1. /\ Closers(q)' = {} /\ Engaged(q)' = {}
          /\ Fresh(q)' => Fresh(q)
      BY <2>1, <2>4 DEF Closers, Engaged, Fresh
    <3> QED
      BY <2>2, <2>4, <3>1, BoundedQuiet DEF ExitsBounded, Base
  <2> QED
    BY <1>1, <2>3, <2>4 DEF Startup, Crash, BrokerFills, memory, Idle
<1>2. ASSUME NEW t \in Tasks, _next_position_id(t) PROVE ExitsBounded'
  <2>1. PICK o \in Orders \ sent : sent' = sent \union {o} /\ Goes(t, "ordering", o)
    BY <1>2 DEF _next_position_id
  <2>2. task[t].at = "idle" /\ registry' = registry /\ UNCHANGED journal
    BY <1>2 DEF _next_position_id, Idle
  <2>3. \A q \in Orders : ExitRows(q)' = ExitRows(q)
    BY <2>2 DEF ExitRows
  <2> QED
    BY <1>0, <2>1, <2>2, <2>3, BoundedElsewhere
<1>3. ASSUME NEW t \in Tasks, OpenReturns(t) PROVE ExitsBounded'
  <2>1. task[t].at = "ordering" /\ UNCHANGED <<journal, sent>>
    BY <1>3 DEF OpenReturns
  <2>2. CASE registry' = registry \union {task[t].order} /\ Goes(t, "persisting", task[t].order)
    BY <2>1, <2>2, BoundedRegisters
  <2>3. CASE Goes(t, "idle", NoOrder) /\ UNCHANGED registry
    <3>1. \A q \in Orders : ExitRows(q)' = ExitRows(q)
      BY <2>1 DEF ExitRows
    <3> QED
      BY <1>0, <2>1, <2>3, <3>1, BoundedElsewhere
  <2> QED
    BY <1>3, <2>2, <2>3 DEF OpenReturns
<1>4. ASSUME NEW t \in Tasks, write_position_opened(t) PROVE ExitsBounded'
  <2>1. /\ task[t].at = "persisting" /\ UNCHANGED <<journal, sent, registry>>
        /\ Goes(t, "idle", NoOrder) \/ Goes(t, "journalling", task[t].order)
    BY <1>4 DEF write_position_opened
  <2>2. \A q \in Orders : ExitRows(q)' = ExitRows(q)
    BY <2>1 DEF ExitRows
  <2> QED
    BY <1>0, <2>1, <2>2, BoundedElsewhere
<1>5. ASSUME NEW t \in Tasks, record_opened(t) PROVE ExitsBounded'
  <2>1. /\ task[t].at = "journalling" /\ UNCHANGED <<sent, registry>>
        /\ Goes(t, "idle", NoOrder)
    BY <1>5 DEF record_opened
  <2>2. \/ UNCHANGED journal
        \/ \E u \in Tasks : task[u].at = "journalling" /\ Opens(journal, journal', task[u].order)
    BY <1>5, <2>1, JournalMoves DEF record_opened, Replace
  <2>3. \A q \in Orders : ExitRows(q)' = ExitRows(q)
    <3>1. CASE UNCHANGED journal
      BY <3>1 DEF ExitRows
    <3> QED
      BY <1>0, <2>2, <3>1, OpensExitRows
  <2> QED
    BY <1>0, <2>1, <2>3, BoundedElsewhere
<1>6. ASSUME NEW t \in Tasks, ExitFound(t) PROVE ExitsBounded'
  <2>1. PICK o \in registry : Goes(t, "closing", o)
    BY <1>6 DEF ExitFound
  <2>2. task[t].at = "idle" /\ UNCHANGED <<registry, journal, sent>>
    BY <1>6 DEF ExitFound, Idle
  <2> QED
    BY <2>1, <2>2, BoundedFinds
<1>7. ASSUME NEW t \in Tasks, record_closed(t) \/ remove_position(t) PROVE ExitsBounded'
  <2>1. /\ UNCHANGED <<journal, sent>> /\ Turn(t)
        /\ \/ /\ task[t].at = "closing" /\ UNCHANGED registry
              /\ Goes(t, "removing", task[t].order) \/ Goes(t, "replacing", task[t].order)
           \/ /\ task[t].at = "removing" /\ registry' = registry \ {task[t].order}
              /\ Goes(t, "idle", NoOrder)
    BY <1>7 DEF record_closed, remove_position
  <2>2. /\ \A u \in Tasks : u # t => task'[u].at = task[u].at /\ task'[u].order = task[u].order
        /\ \/ /\ task[t].at = "closing" /\ UNCHANGED registry
              /\ task'[t].at \in {"removing", "replacing"} /\ task'[t].order = task[t].order
           \/ /\ task[t].at = "removing" /\ registry' = registry \ {task[t].order}
              /\ task'[t].at = "idle" /\ task'[t].order = NoOrder
    BY <1>0, <2>1, GoesTo DEF Base
  <2> SUFFICES ASSUME NEW q \in Orders PROVE Bounded(q)'
    BY DEF ExitsBounded
  <2>3. /\ ExitRows(q)' = ExitRows(q) /\ Closers(q)' \subseteq Closers(q)
        /\ Engaged(q)' \subseteq Engaged(q) /\ (Fresh(q)' => Fresh(q))
    BY <2>1, <2>2 DEF ExitRows, Closers, Engaged, Fresh
  <2>4. q \in registry' => q \in registry /\ Engaged(q) \subseteq Engaged(q)'
    BY <2>2 DEF Engaged
  <2> QED
    BY <2>3, <2>4, BoundedQuiet DEF ExitsBounded, Base
<1>8. ASSUME NEW t \in Tasks, Replace(t) PROVE ExitsBounded'
  <2>1. \E k \in Nat : TakesExit(journal, tmp, task[t].order, k) /\ journal' = tmp
    BY <1>8 DEF TmpTakesExit, Replace
  <2> QED
    BY <1>8, <2>1, BoundedWrites
<1> QED
  BY <1>1, <1>2, <1>3, <1>4, <1>5, <1>6, <1>7, <1>8 DEF Next, SymbolTask

(* The exit of an order is in the journal before its position is removed.  *)
LEMMA ClosedStep ==
  ASSUME Base, Base', TmpTakesExit, ClosedHaveExit, Next
  PROVE  ClosedHaveExit'
<1> USE DEF broker, files
<1>1. calls' = calls
  BY JournalMoves
<1> SUFFICES ASSUME calls = "api"
             PROVE  /\ \A o \in closed' : ExitRows(o)' # {}
                    /\ \A u \in Tasks : task'[u].at = "removing"
                                          => {i \in 1..Len(journal') :
                                                journal'[i].exit = task'[u].order} # {}
  BY <1>1 DEF ClosedHaveExit, ExitRows
<1>0. /\ \A t \in Tasks : /\ task[t].order \in Orders \union {NoOrder}
                          /\ task[t].at \notin {"idle", "ordering"} => task[t].order \in Orders
      /\ registry \subseteq Orders /\ closed \subseteq Orders
      /\ NoOrder \in Orders \union {NoOrder}
      /\ {"idle", "ordering", "persisting", "journalling", "closing", "replacing", "removing"}
           = Phases
  BY DEF Base, StoreTypes, TasksHaveOrders, Phases
<1>2. \A o \in Orders : ExitRows(o) \subseteq ExitRows(o)'
  <2>1. CASE UNCHANGED journal
    BY <2>1 DEF ExitRows
  <2>2. CASE \E t \in Tasks : task[t].at = "journalling" /\ Opens(journal, journal', task[t].order)
    BY <1>0, <2>2, OpensExitRows
  <2>3. ASSUME NEW t \in Tasks, NEW k \in Nat, Replace(t),
               TakesExit(journal, journal', task[t].order, k)
        PROVE  \A o \in Orders : ExitRows(o) \subseteq ExitRows(o)'
    <3>1. PICK p \in Orders : p = task[t].order
      BY <1>0, <2>3 DEF Replace
    <3>2. TakesExit(journal, journal', p, k)
      BY <2>3, <3>1
    <3> QED
      BY <3>2, TakesExitRows
  <2> QED
    BY <2>1, <2>2, <2>3, JournalMoves
<1>3. ASSUME NEW u \in Tasks, task'[u].at = "removing"
      PROVE  \E i \in 1..Len(journal') : journal'[i].exit = task'[u].order
  <2>1. CASE task[u].at = "removing" /\ task'[u].order = task[u].order
    <3>1. PICK p \in Orders : p = task[u].order
      BY <1>0, <2>1
    <3>2. ExitRows(p) # {}
      BY <2>1, <3>1 DEF ClosedHaveExit
    <3> QED
      BY <1>2, <2>1, <3>1, <3>2 DEF ExitRows
  <2>2. CASE Replace(u)
    <3>1. PICK k \in Nat : TakesExit(journal, tmp, task[u].order, k) /\ journal' = tmp
      BY <2>2 DEF TmpTakesExit, Replace
    <3>2. Goes(u, "removing", task[u].order) /\ task[u].order \in Orders \union {NoOrder}
      BY <1>0, <2>2 DEF Replace
    <3>3. task'[u].order = task[u].order
      BY <1>0, <3>2, GoesTo DEF Base
    <3> QED
      BY <3>1, <3>3 DEF TakesExit
  <2>3. CASE Startup \/ Crash \/ BrokerFills
    BY <1>3, <2>1, <2>3 DEF Startup, Crash, BrokerFills, memory, Idle
  <2>4. ASSUME NEW t \in Tasks, SymbolTask(t), ~Replace(u)
        PROVE  task[u].at = "removing" /\ task'[u].order = task[u].order
    <3>1. CASE _next_position_id(t) \/ ExitFound(t)
      BY <1>0, <1>3, <3>1, GoesTo DEF Base, _next_position_id, ExitFound
    <3>2. CASE OpenReturns(t) \/ write_position_opened(t) \/ record_opened(t)
      <4>1. /\ task[t].order \in Orders \union {NoOrder}
            /\ \E at \in {"idle", "persisting", "journalling"} :
                 Goes(t, at, NoOrder) \/ Goes(t, at, task[t].order)
        BY <1>0, <3>2 DEF OpenReturns, write_position_opened, record_opened
      <4> QED
        BY <1>0, <1>3, <4>1, GoesTo DEF Base
    <3>3. CASE record_closed(t)
      <4>1. Goes(t, "replacing", task[t].order)
        BY <3>3 DEF record_closed
      <4> QED
        BY <1>0, <1>3, <4>1, GoesTo DEF Base
    <3>4. CASE Replace(t)
      BY <1>0, <1>3, <2>4, <3>4, GoesTo DEF Base, Replace
    <3>5. CASE remove_position(t)
      BY <1>0, <1>3, <3>5, GoesTo DEF Base, remove_position
    <3> QED
      BY <2>4, <3>1, <3>2, <3>3, <3>4, <3>5 DEF SymbolTask
  <2> QED
    BY <2>1, <2>2, <2>3, <2>4 DEF Next
<1>4. ASSUME NEW o \in closed' PROVE ExitRows(o)' # {}
  <2>1. CASE o \in closed
    BY <1>0, <1>2, <2>1 DEF ClosedHaveExit
  <2>2. CASE o \notin closed
    <3>1. PICK t \in Tasks : remove_position(t)
      BY <2>2 DEF Next, SymbolTask, Startup, Crash, BrokerFills, _next_position_id, OpenReturns,
         write_position_opened, record_opened, ExitFound, record_closed, Replace
    <3>2. o = task[t].order /\ task[t].at = "removing"
      BY <2>2, <3>1 DEF remove_position
    <3> QED
      BY <1>0, <1>2, <3>2 DEF ClosedHaveExit
  <2> QED
    BY <2>1, <2>2
<1> QED
  BY <1>3, <1>4

-----------------------------------------------------------------------------
(* The inductive invariant                                                 *)

StoreInv ==
  /\ Base /\ OpeningInv
  /\ FirstLife /\ MainWritesNothing /\ OpenRowsOfEntries /\ TmpTakesExit
  /\ ExitsBounded /\ ClosedHaveExit /\ RowsMatch

LEMMA InitInv == Init => StoreInv
<1> SUFFICES ASSUME Init PROVE StoreInv
  OBVIOUS
<1>1. /\ \A t \in Tasks : task[t].at = "idle"
      /\ Len(rows) = 0 /\ Len(journal) = 0 /\ 1..0 = {}
      /\ registry = {} /\ closed = {} /\ sent = {} /\ running = FALSE /\ counter = 1
  BY EmptySeq DEF Init, Idle
<1>2. Base
  BY StoreInit
<1>3. OpeningInv
  <2>1. Live = {}
    BY <1>1 DEF Live
  <2>2. OpenedOnce /\ RowsOnce /\ LiveIds
    BY <1>1, <2>1 DEF OpenedOnce, Opening, RowsOnce, LiveIds
  <2>3. CounterAhead
    BY <1>1 DEF CounterAhead
  <2> QED
    BY <2>2, <2>3 DEF OpeningInv
<1>4. FirstLife /\ MainWritesNothing /\ OpenRowsOfEntries /\ TmpTakesExit /\ RowsMatch
  BY <1>1 DEF Init, FirstLife, MainWritesNothing, OpenRowsOfEntries, TmpTakesExit, RowsMatch
<1>5. ClosedHaveExit
  BY <1>1 DEF ClosedHaveExit
<1>6. ExitsBounded
  <2> SUFFICES ASSUME NEW o \in Orders PROVE Bounded(o)
    BY DEF ExitsBounded
  <2>1. ExitRows(o) = {} /\ Closers(o) = {} /\ Engaged(o) = {}
    BY <1>1 DEF ExitRows, Closers, Engaged
  <2>2. Cardinality({}) = 0 /\ Cardinality(Tasks) \in Nat
    BY <1>2, FS_EmptySet, ExitsFinite DEF Base
  <2>3. /\ Cardinality(ExitRows(o)) + Cardinality(Closers(o)) <= Cardinality(Tasks)
        /\ o \notin registry
    BY <1>1, <2>1, <2>2
  <2> QED
    BY <2>1, <2>3 DEF Bounded
<1> QED
  BY <1>2, <1>3, <1>4, <1>5, <1>6 DEF StoreInv

LEMMA StoreStep == StoreInv /\ [Next]_vars => StoreInv'
<1> SUFFICES ASSUME StoreInv, [Next]_vars PROVE StoreInv'
  OBVIOUS
<1>1. CASE Next
  <2>1. Base'
    BY <1>1, BaseStep DEF StoreInv
  <2>2. OpeningInv'
    BY <1>1, <2>1, OpeningStep DEF StoreInv
  <2>3. FirstLife' /\ MainWritesNothing' /\ TmpTakesExit'
    BY <1>1, <2>1, FirstLifeStep, MainStep, TmpStep DEF StoreInv
  <2>4. OpenRowsOfEntries' /\ RowsMatch' /\ ClosedHaveExit'
    BY <1>1, <2>1, OpenRowsStep, RowsMatchStep, ClosedStep DEF StoreInv
  <2>5. ExitsBounded'
    BY <1>1, <2>1, ExitsStep DEF StoreInv, OpeningInv
  <2> QED
    BY <2>1, <2>2, <2>3, <2>4, <2>5 DEF StoreInv
<1>2. CASE UNCHANGED vars
  <2> USE <1>2 DEF vars, memory, broker, files
  <2>1. Base'
    BY DEF StoreInv, Base, StoreTypes, TasksHaveOrders, OneRuns
  <2>2. OpenedOnce' /\ RowsOnce' /\ LiveIds' /\ FirstLife'
    BY DEF StoreInv, OpeningInv, OpenedOnce, Opening, RowsOnce, LiveIds, Live, FirstLife
  <2>3. CounterAhead'
    BY DEF StoreInv, OpeningInv, CounterAhead, Opening
  <2>4. MainWritesNothing' /\ OpenRowsOfEntries' /\ TmpTakesExit' /\ RowsMatch'
    BY DEF StoreInv, MainWritesNothing, OpenRowsOfEntries, TmpTakesExit, TakesExit, RowsMatch
  <2>5. ExitsBounded' /\ ClosedHaveExit'
    BY DEF StoreInv, ExitsBounded, Bounded, ClosedHaveExit, ExitRows, Closers, Engaged, Fresh
  <2> QED
    BY <2>1, <2>2, <2>3, <2>4, <2>5 DEF StoreInv, OpeningInv
<1> QED
  BY <1>1, <1>2

(* The table and the journal are as the invariant says, whatever the tasks, *)
(* the orders, the interleaving and the crashes (src/db/writer.py,          *)
(* src/observability/trade_journal.py).                                     *)
THEOREM StoreSafe == Spec => []StoreInv
BY InitInv, StoreStep, PTL DEF Spec

(* The positions table has fills only, each once; the next position id is   *)
(* above every row and no two managed positions share one                   *)
(* (db/recovery.py:163, main.py _next_position_id).                         *)
THEOREM RowsAlwaysFills == Spec => []RowsAreFills
<1>1. StoreInv => RowsAreFills
  <2> SUFFICES ASSUME StoreInv PROVE RowsAreFills
    OBVIOUS
  <2>1. DOMAIN rows = 1..Len(rows) /\ Len(rows) \in Nat /\ counter \in Nat
    BY LenProperties DEF StoreInv, Base, StoreTypes
  <2>2. running => Len(rows) < counter
    <3>1. running => Len(rows) + Cardinality(OpeningTasks) < counter
      BY DEF StoreInv, OpeningInv, CounterAhead, OpeningTasks
    <3> QED
      BY <2>1, <3>1, OpeningFinite
  <2>3. \A o1, o2 \in registry : pid[o1] = pid[o2] => o1 = o2
    BY DEF StoreInv, OpeningInv, LiveIds, Live
  <2>4. /\ \A i \in DOMAIN rows : rows[i] \in filled
        /\ \A i, j \in DOMAIN rows : rows[i] = rows[j] => i = j
    BY <2>1 DEF StoreInv, OpeningInv, RowsOnce
  <2> QED
    BY <2>2, <2>3, <2>4 DEF RowsAreFills
<1> QED
  BY <1>1, StoreSafe, PTL

(* Every closed position has its exit in the journal, at most once per      *)
(* task; rows of two orders are joined only after a restart; called as      *)
(* main.py calls it, the journal stays empty (trade_journal.py:195).        *)
THEOREM JournalAlwaysSound == Spec => []JournalSound
<1>1. StoreInv => JournalSound
  <2> SUFFICES ASSUME StoreInv PROVE JournalSound
    OBVIOUS
  <2>1. /\ DOMAIN journal = 1..Len(journal) /\ crashes \in Nat
        /\ calls \in {"main", "api"} /\ closed \subseteq Orders
    BY LenProperties DEF StoreInv, Base, StoreTypes
  <2>2. CASE calls = "main"
    BY <2>2 DEF StoreInv, MainWritesNothing, JournalSound
  <2>3. CASE calls = "api"
    <3>1. ASSUME NEW o \in closed
          PROVE  Cardinality({i \in DOMAIN journal : journal[i].exit = o}) \in 1..Cardinality(Tasks)
      <4>1. {i \in DOMAIN journal : journal[i].exit = o} = ExitRows(o)
        BY <2>1 DEF ExitRows
      <4>2. /\ Cardinality(ExitRows(o)) \in Nat /\ Cardinality(Closers(o)) \in Nat
            /\ Cardinality(Tasks) \in Nat /\ IsFiniteSet(ExitRows(o))
        BY ExitsFinite DEF StoreInv, Base
      <4>3. Cardinality(ExitRows(o)) + Cardinality(Closers(o)) <= Cardinality(Tasks)
        BY <2>1 DEF StoreInv, ExitsBounded, Bounded
      <4>4. ExitRows(o) # {}
        BY <2>3 DEF StoreInv, ClosedHaveExit
      <4>5. Cardinality(ExitRows(o)) # 0
        BY <4>2, <4>4, FS_EmptySet
      <4> DEFINE e == Cardinality(ExitRows(o))
                 c == Cardinality(Closers(o))
                 n == Cardinality(Tasks)
      <4>6. e \in Nat /\ c \in Nat /\ n \in Nat /\ e # 0 /\ e + c <= n
        BY <4>2, <4>3, <4>5
      <4> HIDE DEF e, c, n
      <4>7. e \in 1..n
        BY <4>6
      <4> QED
        BY <4>1, <4>7 DEF e, n
    <3>2. ASSUME NEW i \in DOMAIN journal
          PROVE  \/ NoOrder \in {journal[i].entry, journal[i].exit}
                 \/ journal[i].entry = journal[i].exit \/ crashes > 0
      <4>1. CASE crashes = 0
        BY <2>1, <4>1 DEF StoreInv, RowsMatch
      <4> QED
        BY <2>1, <4>1
    <3> QED
      BY <2>3, <3>1, <3>2 DEF JournalSound
  <2> QED
    BY <2>1, <2>2, <2>3
<1> QED
  BY <1>1, StoreSafe, PTL

(* A step leaves the rows of the journal where they are, and those of       *)
(* closed trades as they are.                                               *)
RowsStay ==
  \A i \in DOMAIN journal :
    /\ i \in DOMAIN journal'
    /\ journal'[i].position_id = journal[i].position_id
    /\ journal'[i].entry = journal[i].entry
    /\ Closed(journal[i]) => journal'[i] = journal[i]

LEMMA RowsStayStep == ASSUME StoreInv, StoreInv', Next PROVE RowsStay
<1>1. /\ DOMAIN journal = 1..Len(journal) /\ Len(journal) \in Nat
      /\ DOMAIN journal' = 1..Len(journal') /\ Len(journal') \in Nat
  BY LenProperties DEF StoreInv, Base, StoreTypes
<1> SUFFICES ASSUME NEW i \in 1..Len(journal)
             PROVE  /\ i \in 1..Len(journal')
                    /\ journal'[i].position_id = journal[i].position_id
                    /\ journal'[i].entry = journal[i].entry
                    /\ journal[i].exit # NoOrder => journal'[i] = journal[i]
  BY <1>1 DEF Closed, RowsStay
<1>2. CASE UNCHANGED journal
  BY <1>2
<1>3. ASSUME NEW t \in Tasks, Opens(journal, journal', task[t].order)
      PROVE  i \in 1..Len(journal') /\ journal'[i] = journal[i]
  BY <1>1, <1>3 DEF Opens
<1>4. ASSUME NEW t \in Tasks, NEW k \in Nat, TakesExit(journal, journal', task[t].order, k)
      PROVE  /\ i \in 1..Len(journal')
             /\ journal'[i].position_id = journal[i].position_id
             /\ journal'[i].entry = journal[i].entry
             /\ journal[i].exit # NoOrder => journal'[i] = journal[i]
  <2>1. Len(journal') = Len(journal) \/ Len(journal') = Len(journal) + 1
    BY <1>4 DEF TakesExit
  <2>2. i \in 1..Len(journal')
    <3> DEFINE m == Len(journal)
               n == Len(journal')
    <3>1. m \in Nat /\ n \in Nat /\ (n = m \/ n = m + 1) /\ i \in 1..m
      BY <1>1, <2>1
    <3> HIDE DEF m, n
    <3>2. i \in 1..n
      BY <3>1
    <3> QED
      BY <3>2 DEF n
  <2>3. CASE i = k
    <3>1. k # Len(journal) + 1
      BY <1>1, <2>3
    <3>2. /\ journal[k].exit = NoOrder
          /\ journal'[k].position_id = journal[k].position_id
          /\ journal'[k].entry = journal[k].entry
      BY <1>4, <3>1 DEF TakesExit
    <3> QED
      BY <2>2, <2>3, <3>2
  <2>4. CASE i # k
    <3>1. journal'[i] = journal[i]
      BY <1>4, <2>4 DEF TakesExit
    <3> QED
      BY <2>2, <3>1
  <2> QED
    BY <2>3, <2>4
<1> QED
  BY <1>2, <1>3, <1>4, JournalMoves DEF StoreInv

(* No step, a crash at any point included, loses or alters a closed trade;  *)
(* an open row only gains its exit (trade_journal.py:249-257).              *)
THEOREM JournalAlwaysKeepsRows == Spec => JournalKeepsRows
<1>1. StoreInv /\ StoreInv' /\ [Next]_vars => [RowsStay]_vars
  BY RowsStayStep
<1> QED
  BY <1>1, StoreSafe, PTL DEF Spec, JournalKeepsRows, RowsStay

-----------------------------------------------------------------------------
(* The figures of the report                                               *)

(* The closed trades are finitely many, and every closed position is one.   *)
LEMMA ClosedCounted ==
  StoreInv => /\ IsFiniteSet(ClosedRows)
              /\ calls = "api" => Cardinality(closed) \in Nat
                                    /\ Cardinality(closed) <= Cardinality(ClosedRows)
<1> SUFFICES ASSUME StoreInv
             PROVE  /\ IsFiniteSet(ClosedRows)
                    /\ calls = "api" => Cardinality(closed) \in Nat
                                          /\ Cardinality(closed) <= Cardinality(ClosedRows)
  OBVIOUS
<1> DEFINE Img == {journal[i].exit : i \in ClosedRows}
           f == [i \in ClosedRows |-> journal[i].exit]
<1>1. /\ DOMAIN journal = 1..Len(journal) /\ Len(journal) \in Nat
      /\ closed \subseteq Orders /\ NoOrder \notin Orders
  BY StoreAssumption, LenProperties DEF StoreInv, Base, StoreTypes
<1>2. IsFiniteSet(1..Len(journal)) /\ ClosedRows \in SUBSET (1..Len(journal))
  BY <1>1, FS_Interval DEF ClosedRows
<1>3. IsFiniteSet(ClosedRows) /\ Cardinality(ClosedRows) \in Nat
  BY <1>2, FS_Subset, FS_CardinalityType
<1>4. f \in Surjection(ClosedRows, Img)
  BY DEF Surjection
<1>5. IsFiniteSet(Img) /\ Cardinality(Img) <= Cardinality(ClosedRows)
  <2> HIDE DEF f, Img
  <2> QED
    BY <1>3, <1>4, FS_Surjection
<1>6. ASSUME calls = "api"
      PROVE  closed \in SUBSET Img
  <2> SUFFICES ASSUME NEW o \in closed PROVE o \in Img
    OBVIOUS
  <2>1. PICK i \in 1..Len(journal) : journal[i].exit = o
    BY <1>6 DEF StoreInv, ClosedHaveExit, ExitRows
  <2>2. o # NoOrder
    BY <1>1
  <2>3. i \in ClosedRows
    BY <1>1, <2>1, <2>2 DEF ClosedRows, Closed
  <2> QED
    BY <2>1, <2>3
<1>7. ASSUME calls = "api"
      PROVE  Cardinality(closed) \in Nat /\ Cardinality(closed) <= Cardinality(ClosedRows)
  <2> HIDE DEF Img
  <2>1. IsFiniteSet(closed) /\ Cardinality(closed) <= Cardinality(Img)
    BY <1>5, <1>6, <1>7, FS_Subset
  <2>2. Cardinality(closed) \in Nat /\ Cardinality(Img) \in Nat
    BY <1>5, <2>1, FS_CardinalityType
  <2> QED
    BY <1>3, <1>5, <2>1, <2>2
<1> QED
  BY <1>3, <1>7

(* Below a threshold that is no more than one, some trade is not won.       *)
LEMMA BelowThreshold ==
  ASSUME NEW n \in Nat, NEW lookback \in Nat, NEW wins \in 0..lookback
  PROVE  ~(n * lookback < wins * n)
<1>1. \A a, b, c \in Nat : a <= b => a * c <= c * b
  OBVIOUS
<1> QED
  BY <1>1

(* The drift check speaks only of trades that were journalled and not won.  *)
LEMMA DriftIsLost ==
  StoreInv /\ check_drift
    => calls = "api" /\ Count(ClosedRows, "win") < Cardinality(ClosedRows)
<1> SUFFICES ASSUME StoreInv, check_drift
             PROVE  calls = "api" /\ Count(ClosedRows, "win") < Cardinality(ClosedRows)
  OBVIOUS
<1>1. calls \in {"main", "api"}
  BY DEF StoreInv, Base, StoreTypes
<1>2. recent_trades \in SUBSET ClosedRows /\ recent_trades # {}
  BY DEF recent_trades, check_drift
<1>3. calls # "main"
  <2> SUFFICES ASSUME calls = "main" PROVE FALSE
    OBVIOUS
  <2>1. journal = <<>>
    BY DEF StoreInv, MainWritesNothing
  <2>2. ClosedRows = {}
    BY <2>1 DEF ClosedRows
  <2> QED
    BY <1>2, <2>2
<1> DEFINE Won == {i \in ClosedRows : journal[i].pnl = "win"}
           RecentWon == {i \in recent_trades : journal[i].pnl = "win"}
           w == Cardinality(Won)
           c == Cardinality(ClosedRows)
<1>4. Won \in SUBSET ClosedRows /\ IsFiniteSet(ClosedRows)
  BY ClosedCounted
<1>5. w \in Nat /\ c \in Nat /\ w <= c /\ (c = w => ClosedRows = Won)
  <2> HIDE DEF Won
  <2> QED
    BY <1>4, FS_Subset, FS_CardinalityType
<1>6. ClosedRows # Won
  <2> SUFFICES ASSUME ClosedRows = Won PROVE FALSE
    OBVIOUS
  <2>1. RecentWon = recent_trades
    BY <1>2
  <2> DEFINE n == Cardinality(recent_trades)
  <2>2. n * Lookback < MinWins * n
    BY <2>1, Zenon DEF check_drift, Count
  <2>3. n \in Nat
    BY <1>2, <1>4, FS_Subset, FS_CardinalityType
  <2>4. Lookback \in Nat /\ MinWins \in 0..Lookback
    BY StoreAssumption
  <2> HIDE DEF n
  <2> QED
    BY <2>2, <2>3, <2>4, BelowThreshold, Zenon
<1>7. w < c
  <2> HIDE DEF w, c
  <2> QED
    BY <1>5, <1>6
<1> QED
  BY <1>1, <1>3, <1>7 DEF Count

(* The figures of a report cover every position closed so far and never go  *)
(* back; called as main.py calls it, the drift check never speaks           *)
(* (daily_report.py:234, drift_detector.py:66).                             *)
THEOREM FiguresAlwaysFollow == Spec => FiguresFollowTrades
<1> DEFINE figures == generate_report.trades
           Follow == /\ calls = "api" => figures'.closed_count >= Cardinality(closed')
                     /\ figures'.closed_count >= figures.closed_count
                     /\ check_drift' => calls = "api" /\ figures'.wins < figures'.closed_count
<1>0. /\ (StoreInv => /\ IsFiniteSet(ClosedRows)
                      /\ calls = "api" => Cardinality(closed) \in Nat
                                            /\ Cardinality(closed) <= Cardinality(ClosedRows))'
      /\ (StoreInv /\ check_drift
            => calls = "api" /\ Count(ClosedRows, "win") < Cardinality(ClosedRows))'
  BY ClosedCounted, DriftIsLost, PTL
<1>1. StoreInv /\ StoreInv' /\ [Next]_vars => [Follow]_vars
  <2> SUFFICES ASSUME StoreInv, StoreInv', Next PROVE Follow
    OBVIOUS
  <2>1. /\ figures.closed_count = Cardinality(ClosedRows)
        /\ figures'.closed_count = Cardinality(ClosedRows')
        /\ figures'.wins = Count(ClosedRows, "win")'
    BY DEF generate_report, _compute_trade_stats
  <2>2. calls' = calls
    BY JournalMoves DEF StoreInv
  <2>3. ClosedRows \in SUBSET ClosedRows'
    BY RowsStayStep DEF RowsStay, ClosedRows, Closed
  <2>4. IsFiniteSet(ClosedRows) /\ IsFiniteSet(ClosedRows')
    BY <1>0, ClosedCounted
  <2>5. /\ Cardinality(ClosedRows) \in Nat /\ Cardinality(ClosedRows') \in Nat
        /\ Cardinality(ClosedRows) <= Cardinality(ClosedRows')
    BY <2>3, <2>4, FS_Subset, FS_CardinalityType
  <2>6. calls' = "api" => Cardinality(closed') \in Nat
                            /\ Cardinality(closed') <= Cardinality(ClosedRows')
    BY <1>0
  <2>7. check_drift' => calls' = "api" /\ Count(ClosedRows, "win")' < Cardinality(ClosedRows')
    BY <1>0
  <2>8. calls = "api" => figures'.closed_count >= Cardinality(closed')
    BY <2>1, <2>2, <2>5, <2>6
  <2>9. figures'.closed_count >= figures.closed_count
    BY <2>1, <2>5
  <2> QED
    BY <2>1, <2>2, <2>7, <2>8, <2>9
<1> QED
  BY <1>1, StoreSafe, PTL DEF Spec, FiguresFollowTrades

=============================================================================
