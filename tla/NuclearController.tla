--------------------------- MODULE NuclearController ---------------------------
(***************************************************************************)
(* The nuclear guardian: nuclear/controller.py, triggers.py, executor.py   *)
(* and cooldown.py acting on portfolio/state.py, together with everything  *)
(* else that writes the same PortfolioState fields: the ledger             *)
(* (portfolio/ledger.py), the operator's /pause and /resume                *)
(* (telegram/commands.py) and the midnight reset (main.py).                *)
(*                                                                         *)
(* All of them are coroutines of one event loop, so a step is the code     *)
(* between two awaits.  A poll that fires is two steps: the close commands *)
(* are awaited for up to CloseTimeout, and every other coroutine may run   *)
(* before the poll records the event.                                      *)
(*                                                                         *)
(* Time is kept relative: since_nuclear is the time since last_nuclear_ts, *)
(* saturated at Cooldown, because the code only compares it with the       *)
(* cooldown.  last_nuclear_ts = 0 (never fired) is since_nuclear =         *)
(* Cooldown.  One clock unit stands for any amount of time smaller than    *)
(* the cooldown that is common to both bounds.                             *)
(***************************************************************************)
EXTENDS Integers, FiniteSets

CONSTANTS
  Positions,        \* position ids
  Marks,            \* values the ledger may compute for unrealized_pnl
  Results,          \* realised PnL of one closed position
  RealizedRange,    \* bound of the model: realized_pnl stays inside it
  Equities,         \* values net_equity may have at midnight
  ProfitCeiling,    \* NUCLEAR_COMBINED_PROFIT_USD
  LossFloor,        \* NUCLEAR_LOSS_PROTECTION_USD
  GainPct,          \* the 0.15 of trigger_daily_gain_target, in percent
  LossPct,          \* the 0.04 of trigger_daily_loss_limit, in percent
  Cooldown,         \* COOLDOWN_DURATION_S, in clock units
  CloseTimeout,     \* CLOSE_VERIFY_TIMEOUT_S, in clock units
  LockAfter,        \* nuclear events per day that lock the day
  CountCap,         \* nuclear_count_today saturates here; only >= LockAfter is read
  Commanders        \* kinds of commander that may be injected at startup

ASSUME PnlAssumption ==
  /\ Marks \subseteq Int /\ 0 \in Marks
  /\ Results \subseteq Int
  /\ RealizedRange \subseteq Int /\ 0 \in RealizedRange
  /\ Equities \subseteq Nat /\ Equities # {}
  /\ ProfitCeiling \in Int /\ LossFloor \in Int
  /\ GainPct \in Nat /\ LossPct \in Nat

ASSUME TimeAssumption ==
  /\ Cooldown \in Nat /\ CloseTimeout \in Nat
  /\ CloseTimeout < Cooldown

ASSUME CountAssumption ==
  /\ LockAfter \in Nat \ {0} /\ CountCap \in Nat
  /\ LockAfter <= CountCap

(* "closes": the commander has the close() coroutine the executor calls   *)
(* (the tests inject one). "no_close": ExecutionCommander and              *)
(* PaperExecutionCommander, which have close_position() only.              *)
ASSUME CommanderAssumption == Commanders \subseteq {"closes", "no_close"}

VARIABLES
  commander,            \* NuclearController.commander, fixed at startup
  open_positions,       \* PortfolioState.open_positions, its keys
  realized_pnl,
  unrealized_pnl,
  starting_equity,
  corr_spike,           \* avg_pair_correlation > NUCLEAR_CORRELATION_SPIKE
  circuit_breaker,
  day_locked,
  nuclear_count_today,
  since_nuclear,        \* time since last_nuclear_ts, saturated at Cooldown
  pc,                   \* NuclearController: "sleeping" or "closing"
  targets,              \* executor: position_ids of the running close
  poll_age,             \* time since the running poll read current_time_ms
  resumed               \* history: /resume accepted since the last poll ended

pnl      == <<realized_pnl, unrealized_pnl, starting_equity>>
halt     == <<circuit_breaker, day_locked, nuclear_count_today, since_nuclear>>
poll     == <<pc, targets, poll_age>>
guardian == <<commander, open_positions, pnl, corr_spike, halt, poll, resumed>>

Init ==
  /\ commander \in Commanders
  /\ open_positions = {}
  /\ realized_pnl = 0
  /\ unrealized_pnl = 0
  /\ starting_equity \in Equities
  /\ corr_spike = FALSE
  /\ circuit_breaker = FALSE
  /\ day_locked = FALSE
  /\ nuclear_count_today = 0
  /\ since_nuclear = Cooldown
  /\ pc = "sleeping"
  /\ targets = {}
  /\ poll_age = 0
  /\ resumed = FALSE

-----------------------------------------------------------------------------
(* nuclear/triggers.py *)

daily_pnl == realized_pnl + unrealized_pnl

trigger_combined_profit   == unrealized_pnl >= ProfitCeiling
trigger_daily_gain_target == daily_pnl * 100 >= starting_equity * GainPct
trigger_loss_protection   == unrealized_pnl <= LossFloor
trigger_daily_loss_limit  == daily_pnl * 100 <= -(starting_equity * LossPct)
trigger_correlation_spike == corr_spike

(* evaluate_triggers(state) is not None; the reason it returns is only     *)
(* logged. trigger_market_exhaustion and trigger_latency_anomaly read      *)
(* avg_basket_rsi and last_fill_latency_ms, which no code of the           *)
(* repository writes: at their defaults, 50.0 and 0.0, they are false.     *)
evaluate_triggers ==
  /\ open_positions # {}
  /\ \/ trigger_combined_profit
     \/ trigger_daily_gain_target
     \/ trigger_loss_protection
     \/ trigger_daily_loss_limit
     \/ trigger_correlation_spike

-----------------------------------------------------------------------------

(* Mutant: the comparison with the cooldown is the wrong way round.        *)
MutInvertedCooldown(elapsed, count) ==
  /\ day_locked' = IF count >= LockAfter THEN TRUE ELSE day_locked
  /\ circuit_breaker' = IF elapsed < Cooldown THEN FALSE ELSE TRUE

(* nuclear/cooldown.py: the fields apply_cooldown writes, for a time that  *)
(* is elapsed after last_nuclear_ts, with count events today.              *)
apply_cooldown(elapsed, count) ==
  /\ day_locked' = IF count >= LockAfter THEN TRUE ELSE day_locked
  /\ circuit_breaker' = IF elapsed < Cooldown THEN TRUE ELSE FALSE

CountEvent ==
  IF nuclear_count_today < CountCap
  THEN nuclear_count_today + 1 ELSE nuclear_count_today

(* _poll_and_check when no trigger fires. *)
PollQuiet ==
  /\ pc = "sleeping"
  /\ ~evaluate_triggers
  /\ apply_cooldown(since_nuclear, nuclear_count_today)
  /\ resumed' = FALSE
  /\ UNCHANGED <<commander, open_positions, pnl, corr_spike, nuclear_count_today,
                 since_nuclear, poll>>

(* Mutant: only one of the open positions is closed.                       *)
MutClosesOne ==
  /\ pc = "sleeping"
  /\ evaluate_triggers
  /\ commander = "closes"
  /\ pc' = "closing"
  /\ targets' = {CHOOSE p \in open_positions : TRUE}
  /\ poll_age' = 0
  /\ UNCHANGED <<commander, open_positions, pnl, corr_spike, halt, resumed>>

(* _poll_and_check when a trigger fires: execute_nuclear_close lists the   *)
(* open positions, starts commander.close for each and awaits them.        *)
PollFires ==
  /\ pc = "sleeping"
  /\ evaluate_triggers
  /\ commander = "closes"
  /\ pc' = "closing"
  /\ targets' = open_positions
  /\ poll_age' = 0
  /\ UNCHANGED <<commander, open_positions, pnl, corr_spike, halt, resumed>>

(* The same poll when the commander has no close(): building close_tasks   *)
(* raises AttributeError outside the try of the executor, run() logs it    *)
(* and sleeps; no field has changed.                                       *)
PollRaises ==
  /\ pc = "sleeping"
  /\ evaluate_triggers
  /\ commander = "no_close"
  /\ UNCHANGED guardian

(* Mutant: the cooldown is applied before last_nuclear_ts is set.          *)
MutAppliesFirst ==
  /\ pc = "closing"
  /\ pc' = "sleeping"
  /\ targets' = {}
  /\ poll_age' = 0
  /\ since_nuclear' = poll_age
  /\ nuclear_count_today' = CountEvent
  /\ apply_cooldown(since_nuclear, CountEvent)
  /\ resumed' = FALSE
  /\ UNCHANGED <<commander, open_positions, pnl, corr_spike>>

(* The await of the close commands ends (all answered, or TimeoutError)    *)
(* and the poll records the event. last_nuclear_ts becomes the time the    *)
(* poll began. The results of the closes are only logged.                  *)
NuclearRecorded ==
  /\ pc = "closing"
  /\ pc' = "sleeping"
  /\ targets' = {}
  /\ poll_age' = 0
  /\ since_nuclear' = poll_age
  /\ nuclear_count_today' = CountEvent
  /\ apply_cooldown(0, CountEvent)
  /\ resumed' = FALSE
  /\ UNCHANGED <<commander, open_positions, pnl, corr_spike>>

(* The clock. wait_for bounds the time a close may take. *)
ClockTick ==
  /\ pc = "closing" => poll_age < CloseTimeout
  /\ since_nuclear' = IF since_nuclear < Cooldown THEN since_nuclear + 1 ELSE Cooldown
  /\ poll_age' = IF pc = "closing" THEN poll_age + 1 ELSE poll_age
  /\ UNCHANGED <<commander, open_positions, pnl, corr_spike, circuit_breaker, day_locked,
                 nuclear_count_today, pc, targets, resumed>>

-----------------------------------------------------------------------------
(* The other writers of PortfolioState. *)

(* PortfolioState.add_position *)
add_position(p) ==
  /\ p \notin open_positions
  /\ open_positions' = open_positions \union {p}
  /\ UNCHANGED <<commander, pnl, corr_spike, halt, poll, resumed>>

(* PositionRegistry.remove_position: pop, PortfolioState.remove_position   *)
(* and Ledger.record_close; unrealized_pnl is left as it was.              *)
remove_position(p, result) ==
  /\ p \in open_positions
  /\ realized_pnl + result \in RealizedRange
  /\ open_positions' = open_positions \ {p}
  /\ realized_pnl' = realized_pnl + result
  /\ UNCHANGED <<commander, unrealized_pnl, starting_equity, corr_spike, halt, poll, resumed>>

(* Ledger.update_unrealized: the sum is one of Marks, and 0 with no        *)
(* position.                                                               *)
update_unrealized(mark) ==
  /\ open_positions = {} => mark = 0
  /\ unrealized_pnl' = mark
  /\ UNCHANGED <<commander, open_positions, realized_pnl, starting_equity, corr_spike,
                 halt, poll, resumed>>

(* CorrelationEngine.update_state: fewer than two positions correlate at   *)
(* 0.0; the value stays when positions are removed later.                  *)
update_state(spike) ==
  /\ spike => Cardinality(open_positions) >= 2
  /\ corr_spike' = spike
  /\ UNCHANGED <<commander, open_positions, pnl, halt, poll, resumed>>

(* Mutants: the reset forgets the lock; it forgets the marks.              *)
MutKeepsLock(equity) ==
  /\ starting_equity' = equity
  /\ realized_pnl' = 0
  /\ unrealized_pnl' = 0
  /\ nuclear_count_today' = 0
  /\ UNCHANGED <<commander, open_positions, corr_spike, circuit_breaker, day_locked,
                 since_nuclear, poll, resumed>>

MutKeepsMarks(equity) ==
  /\ starting_equity' = equity
  /\ realized_pnl' = 0
  /\ day_locked' = FALSE
  /\ nuclear_count_today' = 0
  /\ UNCHANGED <<commander, open_positions, unrealized_pnl, corr_spike, circuit_breaker,
                 since_nuclear, poll, resumed>>

(* Ledger.reset_daily, from daily_reset_task at UTC midnight, with the     *)
(* net_equity of that moment.                                              *)
reset_daily(equity) ==
  /\ starting_equity' = equity
  /\ realized_pnl' = 0
  /\ unrealized_pnl' = 0
  /\ day_locked' = FALSE
  /\ nuclear_count_today' = 0
  /\ UNCHANGED <<commander, open_positions, corr_spike, circuit_breaker, since_nuclear,
                 poll, resumed>>

(* Telegram /pause *)
cmd_pause ==
  /\ circuit_breaker' = TRUE
  /\ UNCHANGED <<commander, open_positions, pnl, corr_spike, day_locked,
                 nuclear_count_today, since_nuclear, poll, resumed>>

(* Mutant: /resume does not look at the lock.                              *)
MutResumesLocked ==
  /\ circuit_breaker' = FALSE
  /\ resumed' = TRUE
  /\ UNCHANGED <<commander, open_positions, pnl, corr_spike, day_locked,
                 nuclear_count_today, since_nuclear, poll>>

(* Telegram /resume: refused while the day is locked. *)
cmd_resume ==
  /\ ~day_locked
  /\ circuit_breaker' = FALSE
  /\ resumed' = TRUE
  /\ UNCHANGED <<commander, open_positions, pnl, corr_spike, day_locked,
                 nuclear_count_today, since_nuclear, poll>>

-----------------------------------------------------------------------------
Controller == PollQuiet \/ PollFires \/ PollRaises \/ NuclearRecorded

Portfolio ==
  \/ \E p \in Positions : add_position(p)
  \/ \E p \in Positions, r \in Results : remove_position(p, r)
  \/ \E m \in Marks : update_unrealized(m)
  \/ \E b \in BOOLEAN : update_state(b)

Midnight == \E e \in Equities : reset_daily(e)

Operator == cmd_pause \/ cmd_resume

Next == Controller \/ ClockTick \/ Portfolio \/ Midnight \/ Operator

(* run() polls for ever and the close it awaits ends within its timeout,   *)
(* so the controller is weakly fair; time passes. The market, the operator *)
(* and the other tasks owe nothing.                                        *)
Fairness == WF_guardian(Controller) /\ WF_guardian(ClockTick)

Spec == Init /\ [][Next]_guardian /\ Fairness

-----------------------------------------------------------------------------
(* Properties *)

(* Types of the PortfolioState fields and of the controller's locals.      *)
TypeOK ==
  /\ commander \in Commanders
  /\ open_positions \subseteq Positions
  /\ realized_pnl \in RealizedRange
  /\ unrealized_pnl \in Marks
  /\ starting_equity \in Equities
  /\ corr_spike \in BOOLEAN
  /\ circuit_breaker \in BOOLEAN
  /\ day_locked \in BOOLEAN
  /\ nuclear_count_today \in 0..CountCap
  /\ since_nuclear \in 0..Cooldown
  /\ pc \in {"sleeping", "closing"}
  /\ targets \subseteq Positions
  /\ poll_age \in 0..CloseTimeout
  /\ resumed \in BOOLEAN

(* nuclear/cooldown.py, "15-minute cooldown: no new signals processed":    *)
(* from the moment a nuclear event is recorded until the cooldown has      *)
(* elapsed the circuit breaker is on, in every interleaving with ticks,    *)
(* pauses and the midnight reset. Only an accepted /resume lifts it, and   *)
(* only until the next poll ends.                                          *)
CooldownHalts == since_nuclear < Cooldown => circuit_breaker \/ resumed

(* nuclear/cooldown.py, apply_cooldown: the day is locked only when        *)
(* LockAfter events were counted since midnight; a reset that falls inside *)
(* the await of a running close does not leave a lock without its events.  *)
LockIsEarned == day_locked => nuclear_count_today >= LockAfter

(* telegram/commands.py, "Day locked - cannot resume until UTC midnight":  *)
(* on a locked day nothing turns the breaker off before the cooldown of    *)
(* the last nuclear event has run out.                                     *)
LockedDayStaysHalted ==
  [][day_locked /\ circuit_breaker /\ ~circuit_breaker' => since_nuclear = Cooldown]_guardian

(* nuclear/executor.py closes a snapshot of the open positions, so one     *)
(* that is added while the closes are awaited is not in it. While the      *)
(* trigger holds, every open position is nevertheless in the close list of *)
(* this poll or of a later one, given a commander that can close.          *)
EveryPositionReached ==
  \A p \in Positions :
    (commander = "closes" /\ p \in open_positions /\ evaluate_triggers)
      ~> (p \in targets \/ p \notin open_positions \/ ~evaluate_triggers)

(* nuclear/controller.py: with a commander that can close, a trigger that  *)
(* stays true ends in a halt, whatever the operator and the market do.     *)
TriggerHalts ==
  (commander = "closes" /\ evaluate_triggers) ~> (circuit_breaker \/ ~evaluate_triggers)

(* controller.py, "If any trigger fires: execute_nuclear_close() and       *)
(* apply_cooldown()": the same for every commander main.py may inject.     *)
FiredTriggerHalts == evaluate_triggers ~> (circuit_breaker \/ ~evaluate_triggers)

=============================================================================
