------------------------------ MODULE TradingCore ------------------------------
(***************************************************************************)
(* main.py: the per-symbol tasks of data/feed_router.py that run           *)
(* on_snapshot, sharing one PortfolioState with the nuclear guardian, the  *)
(* midnight reset and the operator.                                        *)
(*                                                                         *)
(* FeedRouter runs one task per symbol, so two snapshots of one symbol     *)
(* never overlap and snapshots of different symbols interleave at every    *)
(* await: the close of an exit, the score and alert writes, and the open   *)
(* of a new position. A stage is the await a task is suspended in.         *)
(* A snapshot that finds the breaker on returns at once and changes        *)
(* nothing, so it has no action.                                           *)
(*                                                                         *)
(* Scoring, the gate and risk checks 5 to 8 are left open: any snapshot    *)
(* may be FULL_AUTO and any proposal may still be refused. net_equity is   *)
(* starting_equity, since nothing main.py runs writes it.                  *)
(***************************************************************************)
EXTENDS NuclearController

CONSTANTS
  Symbols,        \* INSTRUMENTS: one FeedRouter task each
  MaxConcurrent,  \* MAX_CONCURRENT and the 5 of on_snapshot
  MaxId,          \* bound of the model: position ids are 1..MaxId
  Registries      \* kinds of registry that may be injected at startup

ASSUME CoreAssumption ==
  /\ IsFiniteSet(Symbols) /\ Symbols # {}
  /\ MaxConcurrent \in Nat \ {0}
  /\ MaxId \in Nat
  /\ Positions = 1..MaxId

(* "raises": PositionRegistry given a MarketSnapshot, which has no mid:    *)
(* process_tick raises AttributeError (and its plain list, which           *)
(* on_snapshot awaits, would raise TypeError). "answers": a registry whose *)
(* process_tick is a coroutine that answers, which on_snapshot is written  *)
(* for.                                                                    *)
ASSUME RegistryAssumption == Registries \subseteq {"raises", "answers"}

VARIABLES
  registry,        \* main.position_registry, fixed at startup
  pos_id_counter,  \* main._pos_id_counter
  stage,           \* per symbol: the await its task is suspended in
  exits,           \* per symbol: exits of this snapshot still to be closed
  pid,             \* per symbol: id of the order in flight
  callback_errors, \* FeedRouterMetrics.callback_errors, saturated at 1
  leaked,          \* history: positions registered since the breaker came on
  at_halt          \* history: orders in flight when the breaker came on

tasks == <<registry, stage, exits, pid, pos_id_counter, callback_errors>>
core  == <<guardian, tasks, leaked, at_halt>>

Stages == {"idle", "exiting", "scored", "opening"}

InFlight == {s \in Symbols : stage[s] = "opening"}

CoreInit ==
  /\ Init
  /\ registry \in Registries
  /\ pos_id_counter = 1
  /\ stage = [s \in Symbols |-> "idle"]
  /\ exits = [s \in Symbols |-> {}]
  /\ pid = [s \in Symbols |-> 0]
  /\ callback_errors = 0
  /\ leaked = 0
  /\ at_halt = 0

MoveTo(s, next) == stage' = [stage EXCEPT ![s] = next]

-----------------------------------------------------------------------------
(* on_snapshot *)

(* The breaker is off: process_tick refreshes unrealized_pnl and returns   *)
(* the positions to close, whose close commands are then awaited.          *)
Tick(s) ==
  /\ registry = "answers"
  /\ stage[s] = "idle"
  /\ ~circuit_breaker
  /\ \E m \in Marks : update_unrealized(m)
  /\ \E X \in SUBSET open_positions : exits' = [exits EXCEPT ![s] = X]
  /\ MoveTo(s, "exiting")
  /\ UNCHANGED <<registry, pid, pos_id_counter, callback_errors>>

(* The same when process_tick raises: its errors per position are caught,  *)
(* the one of update_unrealized's argument is not, and FeedRouter counts a *)
(* callback error.                                                         *)
TickRaises(s) ==
  /\ registry = "raises"
  /\ stage[s] = "idle"
  /\ ~circuit_breaker
  /\ callback_errors' = 1
  /\ UNCHANGED <<guardian, registry, stage, exits, pid, pos_id_counter>>

(* Mutant: a position that another task removed is booked again.           *)
MutBooksTwice(s, p) ==
  /\ stage[s] = "exiting"
  /\ p \in exits[s]
  /\ exits' = [exits EXCEPT ![s] = @ \ {p}]
  /\ IF p \in open_positions
     THEN \E r \in Results : remove_position(p, r)
     ELSE /\ \E r \in Results : realized_pnl + r \in RealizedRange
                                /\ realized_pnl' = realized_pnl + r
          /\ UNCHANGED <<commander, open_positions, unrealized_pnl, starting_equity,
                         corr_spike, halt, poll, resumed>>
  /\ UNCHANGED <<registry, stage, pid, pos_id_counter, callback_errors>>

(* commander.close_position has returned for exit p: remove_position,      *)
(* which does nothing when another task removed p during the await.        *)
ExitClosed(s, p) ==
  /\ stage[s] = "exiting"
  /\ p \in exits[s]
  /\ exits' = [exits EXCEPT ![s] = @ \ {p}]
  /\ IF p \in open_positions
     THEN \E r \in Results : remove_position(p, r)
     ELSE UNCHANGED guardian
  /\ UNCHANGED <<registry, stage, pid, pos_id_counter, callback_errors>>

(* All exits handled; the snapshot is scored. Below FULL_AUTO, or when     *)
(* scoring raises, on_snapshot returns.                                    *)
ScoredBelow(s) ==
  /\ stage[s] = "exiting" /\ exits[s] = {}
  /\ MoveTo(s, "idle")
  /\ UNCHANGED <<guardian, registry, exits, pid, pos_id_counter, callback_errors>>

(* FULL_AUTO: the score is persisted and the alert sent, both awaited.     *)
ScoredAuto(s) ==
  /\ stage[s] = "exiting" /\ exits[s] = {}
  /\ MoveTo(s, "scored")
  /\ UNCHANGED <<guardian, registry, exits, pid, pos_id_counter, callback_errors>>

(* Mutants: the cap is not checked; the breaker is not checked again after *)
(* the awaits of the score.                                                *)
MutNoCap ==
  /\ ~circuit_breaker
  /\ ~day_locked
  /\ daily_pnl * 100 < starting_equity * GainPct
  /\ daily_pnl * 100 > -(starting_equity * LossPct)

MutNoSecondCheck ==
  /\ Cardinality(open_positions) < MaxConcurrent
  /\ ~day_locked
  /\ daily_pnl * 100 < starting_equity * GainPct
  /\ daily_pnl * 100 > -(starting_equity * LossPct)

(* The checks made without an await between them: the breaker, the cap     *)
(* and the first four checks of validate_order.                            *)
MayEnter ==
  /\ ~circuit_breaker
  /\ Cardinality(open_positions) < MaxConcurrent
  /\ ~day_locked
  /\ daily_pnl * 100 < starting_equity * GainPct
  /\ daily_pnl * 100 > -(starting_equity * LossPct)

EntryRefused(s) ==
  /\ stage[s] = "scored"
  /\ MoveTo(s, "idle")
  /\ UNCHANGED <<guardian, registry, exits, pid, pos_id_counter, callback_errors>>

(* Mutant: the counter is read but not advanced.                           *)
MutSameId(s) ==
  /\ stage[s] = "scored"
  /\ MayEnter
  /\ pos_id_counter <= MaxId
  /\ MoveTo(s, "opening")
  /\ pid' = [pid EXCEPT ![s] = pos_id_counter]
  /\ UNCHANGED <<guardian, registry, exits, callback_errors, pos_id_counter>>

(* Approved: _next_position_id, then commander.open_position is awaited.   *)
EntryApproved(s) ==
  /\ stage[s] = "scored"
  /\ MayEnter
  /\ pos_id_counter <= MaxId
  /\ MoveTo(s, "opening")
  /\ pid' = [pid EXCEPT ![s] = pos_id_counter]
  /\ pos_id_counter' = pos_id_counter + 1
  /\ UNCHANGED <<guardian, registry, exits, callback_errors>>

(* open_position returned no fill. *)
OpenFailed(s) ==
  /\ stage[s] = "opening"
  /\ MoveTo(s, "idle")
  /\ pid' = [pid EXCEPT ![s] = 0]
  /\ UNCHANGED <<guardian, registry, exits, pos_id_counter, callback_errors>>

(* open_position returned a fill: the position is registered, with no      *)
(* further check. The write to the database that follows changes nothing   *)
(* here.                                                                   *)
OpenFilled(s) ==
  /\ stage[s] = "opening"
  /\ add_position(pid[s])
  /\ MoveTo(s, "idle")
  /\ pid' = [pid EXCEPT ![s] = 0]
  /\ UNCHANGED <<registry, exits, pos_id_counter, callback_errors>>

-----------------------------------------------------------------------------
Resumption(s) ==
  \/ \E p \in Positions : ExitClosed(s, p)
  \/ ScoredBelow(s)
  \/ ScoredAuto(s)
  \/ EntryRefused(s)
  \/ EntryApproved(s)
  \/ OpenFailed(s)
  \/ OpenFilled(s)

(* Records, after the step, how many orders were in flight when the        *)
(* breaker came on and how many positions were registered since.           *)
CountLeak ==
  /\ leaked' = IF circuit_breaker'
               THEN leaked + Cardinality(open_positions' \ open_positions) ELSE 0
  /\ at_halt' = IF ~circuit_breaker' THEN 0
                ELSE IF circuit_breaker THEN at_halt ELSE Cardinality(InFlight')

SnapshotStep(s)   == (Tick(s) \/ TickRaises(s)) /\ CountLeak
ResumptionStep(s) == Resumption(s) /\ CountLeak
ControllerStep    == Controller /\ UNCHANGED tasks /\ CountLeak
ClockStep         == ClockTick /\ UNCHANGED tasks /\ CountLeak
MidnightStep      == Midnight /\ UNCHANGED tasks /\ CountLeak
OperatorStep      == Operator /\ UNCHANGED tasks /\ CountLeak

CoreNext ==
  \/ \E s \in Symbols : SnapshotStep(s) \/ ResumptionStep(s)
  \/ ControllerStep
  \/ ClockStep
  \/ MidnightStep
  \/ OperatorStep

(* The guardian polls for ever; midnight comes every day; every await of   *)
(* on_snapshot ends, because the dispatcher and the fill handler wait with *)
(* timeouts. Snapshots and the operator may stop.                          *)
CoreFairness ==
  /\ WF_core(ControllerStep)
  /\ WF_core(ClockStep)
  /\ WF_core(MidnightStep)
  /\ \A s \in Symbols : WF_core(ResumptionStep(s))

CoreSpec == CoreInit /\ [][CoreNext]_core /\ CoreFairness

-----------------------------------------------------------------------------
(* Properties *)

(* Types of the tasks and of main.py's counter, and of the guardian.       *)
CoreTypeOK ==
  /\ TypeOK
  /\ registry \in Registries
  /\ pos_id_counter \in 1..(MaxId + 1)
  /\ stage \in [Symbols -> Stages]
  /\ exits \in [Symbols -> SUBSET Positions]
  /\ pid \in [Symbols -> 0..MaxId]
  /\ callback_errors \in 0..1
  /\ leaked \in Nat
  /\ at_halt \in Nat

(* main.py checks the cap of open positions and then awaits the fill, so   *)
(* several symbols may pass the check at the same count. The overshoot is  *)
(* bounded: the positions and the orders in flight together never exceed   *)
(* the cap by more than one less than the number of symbols.               *)
CapOvershootBounded ==
  Cardinality(open_positions) + Cardinality(InFlight)
    < MaxConcurrent + Cardinality(Symbols)

(* portfolio/state.py, "circuit_breaker: True = no new signals processed": *)
(* the breaker is checked before the await of the fill, so orders in       *)
(* flight when it comes on are still registered. No other position is,     *)
(* although snapshots are still awaiting their scores when it comes on:    *)
(* however long the halt lasts and however often the guardian fires in it, *)
(* no entry is started in it.                                              *)
HaltLeakBounded ==
  circuit_breaker => leaked + Cardinality(InFlight) <= at_halt

(* main._next_position_id and PositionRegistry.add_position key everything *)
(* by position id: an order in flight never has the id of an open position *)
(* or of another order in flight, so no registration overwrites another.   *)
IdsDistinct ==
  \A s \in InFlight :
    /\ pid[s] \notin open_positions
    /\ \A t \in InFlight : pid[s] = pid[t] => s = t

(* nuclear/cooldown.py: no halt is for ever. Positions stay registered     *)
(* while the breaker keeps their marks from being refreshed, so the        *)
(* guardian may fire at every poll; it is the midnight reset of the marks  *)
(* that lets a cooldown run out.                                           *)
HaltEnds == circuit_breaker ~> ~circuit_breaker

=============================================================================
