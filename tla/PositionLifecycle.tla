---------------------------- MODULE PositionLifecycle ----------------------------
(***************************************************************************)
(* The life of positions from fill to removal: positions/state_machine.py, *)
(* trail_manager.py and registry.py, portfolio/ledger.py, and the exits    *)
(* loop of on_snapshot in main.py that carries the closes out.             *)
(*                                                                         *)
(* One task per symbol. A snapshot of any symbol ticks the state machine   *)
(* of EVERY registered position with the snapshot's price, then recomputes *)
(* unrealized_pnl from the positions of its own symbol. The closes it asks *)
(* for are awaited one by one, and the tasks of other symbols tick the     *)
(* same positions meanwhile.                                               *)
(*                                                                         *)
(* A snapshot is one with the mid price and the cvd the state machine      *)
(* reads, as the tests of positions/ build it; the MarketSnapshot of       *)
(* data/schema.py has neither, which TradingCore models. Money is in price *)
(* units: lots * pip_value / pip_size is 1, and a position opens at Entry. *)
(* force_close is not modelled: nothing calls it but tests.                *)
(***************************************************************************)
EXTENDS Integers, Sequences, FiniteSets, FiniteSetsExt

CONSTANTS
  Symbols,
  Positions,      \* position ids, each used once
  SymbolOf,       \* PositionStateMachine.symbol
  Longs,          \* the positions whose direction is LONG
  Prices,         \* prices a snapshot may carry
  Entry,          \* PositionStateMachine.entry
  StopDistance,   \* from entry to hard_stop
  Modes,          \* values current_mode may take
  Trigger,        \* get_profit_trigger_for_mode
  TrailFloor,     \* get_trail_floor_for_mode
  HalfAtrs,       \* values atr_1m * 0.5 may take
  MaxDistance,    \* no trail distance is larger
  NoPosition      \* "no close is being awaited"

ASSUME ShapeAssumption ==
  /\ IsFiniteSet(Positions) /\ NoPosition \notin Positions
  /\ SymbolOf \in [Positions -> Symbols]
  /\ Longs \subseteq Positions

ASSUME MoneyAssumption ==
  /\ Prices \subseteq Int /\ Prices # {}
  /\ Entry \in Int /\ StopDistance \in Nat \ {0}
  /\ Trigger \in [Modes -> Nat \ {0}]
  /\ TrailFloor \in [Modes -> Nat \ {0}]
  /\ HalfAtrs \subseteq Nat /\ HalfAtrs # {}
  /\ MaxDistance \in Nat
  /\ \A d \in HalfAtrs : d <= MaxDistance
  /\ \A m \in Modes : TrailFloor[m] <= MaxDistance

VARIABLES
  current_mode,     \* PortfolioState.current_mode
  state,            \* PositionState of each position; "IDLE" before its fill
  trail_stop,       \* TrailManager._trail_stop; 0 while it is None
  open_positions,   \* PositionRegistry._positions and PortfolioState.open_positions
  unrealized_pnl,
  realized_pnl,
  exits,            \* per symbol: exits of the snapshot not yet reached
  closing,          \* per symbol: the position whose close is awaited
  exit_price,       \* per symbol: the price of the snapshot being handled
  current_prices,   \* main._current_prices: last mid of each symbol, Entry before
  best,             \* history: best price since the trail was armed
  stop_seen,        \* history: some tick compared since the fill was at the hard stop
  results           \* history: the results recorded per position

machines  == <<state, trail_stop>>
tasks     == <<exits, closing, exit_price>>
history   == <<best, stop_seen>>
lifecycle == <<current_mode, machines, open_positions, unrealized_pnl, realized_pnl,
               tasks, current_prices, history, results>>

Closed == {"CLOSED_PROFIT", "CLOSED_LOSS"}

Init ==
  /\ current_mode \in Modes
  /\ state = [p \in Positions |-> "IDLE"]
  /\ trail_stop = [p \in Positions |-> 0]
  /\ open_positions = {}
  /\ unrealized_pnl = 0
  /\ realized_pnl = 0
  /\ exits = [s \in Symbols |-> {}]
  /\ closing = [s \in Symbols |-> NoPosition]
  /\ exit_price = [s \in Symbols |-> 0]
  /\ current_prices = [s \in Symbols |-> Entry]
  /\ best = [p \in Positions |-> Entry]
  /\ stop_seen = [p \in Positions |-> FALSE]
  /\ results = [p \in Positions |-> <<>>]

-----------------------------------------------------------------------------
(* Prices seen from a position: gains are positive. *)

Sign(p) == IF p \in Longs THEN 1 ELSE -1

_calc_pnl(p, price) == Sign(p) * (price - Entry)

hard_stop(p) == Entry - Sign(p) * StopDistance

Better(p, x, y) == Sign(p) * x > Sign(p) * y

_hard_stop_hit(p, price) == ~Better(p, price, hard_stop(p))

-----------------------------------------------------------------------------
(* positions/trail_manager.py *)

compute_trail_distance(half_atr, mode) ==
  IF half_atr >= TrailFloor[mode] THEN half_atr ELSE TrailFloor[mode]

proposed(p, price, dist) == price - Sign(p) * dist

(* Mutants: the stop follows the price both ways; it stays where it was    *)
(* armed.                                                                  *)
MutFollows(p, price, dist) == proposed(p, price, dist)

MutStays(p, price, dist) == trail_stop[p]

update(p, price, dist) ==
  IF Better(p, proposed(p, price, dist), trail_stop[p])
  THEN proposed(p, price, dist) ELSE trail_stop[p]

is_hit(p, price, stop) == ~Better(p, price, stop)

-----------------------------------------------------------------------------
(* positions/state_machine.py *)

(* A snapshot: mid price, half the ATR, and the positions whose direction  *)
(* has a CVD divergence, or all three signs of weakness.                   *)
Snapshots == [mid : Prices, half_atr : HalfAtrs,
              cvd : {{}, Longs, Positions \ Longs, Positions},
              weak : {{}, Longs, Positions \ Longs}]

_close(p, price) == IF _calc_pnl(p, price) > 0 THEN "CLOSED_PROFIT" ELSE "CLOSED_LOSS"

(* The trail after a tick that neither the CVD override nor the hard stop  *)
(* ended.                                                                  *)
NewTrail(p, snap) ==
  LET dist == compute_trail_distance(snap.half_atr, current_mode) IN
  IF state[p] = "OPEN_UNREALIZED" /\ _calc_pnl(p, snap.mid) >= Trigger[current_mode]
  THEN proposed(p, snap.mid, dist)
  ELSE IF state[p] = "OPEN_TRAILING" THEN update(p, snap.mid, dist)
  ELSE trail_stop[p]

(* Mutant: the hard stop is only watched until the trail is armed.         *)
MutStopUntilArmed(p, snap) ==
  LET ends  == \/ p \in snap.cvd
               \/ state[p] = "OPEN_UNREALIZED" /\ _hard_stop_hit(p, snap.mid)
      trail == IF ends THEN trail_stop[p] ELSE NewTrail(p, snap)
      gives == state[p] = "OPEN_TRAILING" /\ p \in snap.weak
      arms  == /\ state[p] = "OPEN_UNREALIZED"
               /\ _calc_pnl(p, snap.mid) >= Trigger[current_mode]
  IN [exit  |-> ends \/ gives,
      trail |-> trail,
      state |-> IF ends \/ gives THEN _close(p, snap.mid)
                ELSE IF arms THEN "OPEN_TRAILING"
                ELSE state[p]]

(* on_tick: the position's state machine after the snapshot, and whether   *)
(* it returned an ExitReason. The first two exits are not guarded by the   *)
(* state: they fire for a closed position as well.                         *)
on_tick(p, snap) ==
  LET ends  == \/ p \in snap.cvd
               \/ _hard_stop_hit(p, snap.mid)
      trail == IF ends THEN trail_stop[p] ELSE NewTrail(p, snap)
      gives == /\ state[p] = "OPEN_TRAILING"
               /\ is_hit(p, snap.mid, trail) \/ p \in snap.weak
      arms  == /\ state[p] = "OPEN_UNREALIZED"
               /\ _calc_pnl(p, snap.mid) >= Trigger[current_mode]
  IN [exit  |-> ends \/ gives,
      trail |-> trail,
      state |-> IF ends \/ gives THEN _close(p, snap.mid)
                ELSE IF arms THEN "OPEN_TRAILING"
                ELSE state[p]]

-----------------------------------------------------------------------------
(* Registration of a fill, by the task of the position's symbol. *)
add_position(p) ==
  /\ state[p] = "IDLE"
  /\ closing[SymbolOf[p]] = NoPosition
  /\ state' = [state EXCEPT ![p] = "OPEN_UNREALIZED"]
  /\ open_positions' = open_positions \union {p}
  /\ UNCHANGED <<current_mode, trail_stop, unrealized_pnl, realized_pnl, tasks,
                 current_prices, history, results>>

(* Ledger.update_unrealized with the price of one symbol only. *)
update_unrealized(s, price) ==
  unrealized_pnl' =
    MapThenSumSet(LAMBDA p : _calc_pnl(p, price),
                  {p \in open_positions : SymbolOf[p] = s})

(* The exits loop up to its next await: positions that are no longer       *)
(* registered are skipped.                                                 *)
AwaitNext(s, left, open) ==
  LET live == left \intersect open IN
  \E c \in IF live = {} THEN {NoPosition} ELSE live :
    /\ closing' = [closing EXCEPT ![s] = c]
    /\ exits' = [exits EXCEPT ![s] = live \ {c}]

(* on_snapshot up to its first await: process_tick ticks every registered  *)
(* position, whatever its symbol, and the first close is sent.             *)
process_tick(s, snap) ==
  LET after == [p \in open_positions |-> on_tick(p, snap)]
      Leave == {p \in open_positions : after[p].exit}
  IN
  /\ closing[s] = NoPosition
  /\ state' = [p \in Positions |-> IF p \in open_positions THEN after[p].state ELSE state[p]]
  /\ trail_stop' =
       [p \in Positions |-> IF p \in open_positions THEN after[p].trail ELSE trail_stop[p]]
  /\ current_prices' = [current_prices EXCEPT ![s] = snap.mid]
  /\ best' = [p \in Positions |->
       IF p \notin open_positions THEN best[p]
       ELSE IF after[p].state # "OPEN_TRAILING" THEN Entry
       ELSE IF state[p] = "OPEN_TRAILING" /\ ~Better(p, snap.mid, best[p]) THEN best[p]
       ELSE snap.mid]
  /\ stop_seen' = [p \in Positions |->
       stop_seen[p] \/ (p \in open_positions /\ _hard_stop_hit(p, snap.mid))]
  /\ update_unrealized(s, snap.mid)
  /\ AwaitNext(s, Leave, open_positions)
  /\ exit_price' = [exit_price EXCEPT ![s] = IF Leave = {} THEN 0 ELSE snap.mid]
  /\ UNCHANGED <<current_mode, open_positions, realized_pnl, results>>

(* The same with a snapshot that has exactly three M5 bars and ten CVD      *)
(* minutes: check_cvd_exit takes the maximum of an empty list, on_tick     *)
(* raises before it looks at the hard stop, and process_tick logs the      *)
(* error of each position and goes on.                                     *)
TickRaises(s, price) ==
  /\ closing[s] = NoPosition
  /\ current_prices' = [current_prices EXCEPT ![s] = price]
  /\ update_unrealized(s, price)
  /\ UNCHANGED <<current_mode, machines, open_positions, realized_pnl, tasks, history,
                 results>>

(* Mutants: the result is recorded whether or not the position was still   *)
(* registered; the exits loop ends after its first close.                  *)
MutRecordsAlways(s) ==
  LET p == closing[s]
      result == _calc_pnl(p, exit_price[s])
      open == open_positions \ {p}
  IN
  /\ p # NoPosition
  /\ open_positions' = open
  /\ realized_pnl' = realized_pnl + result
  /\ results' = [results EXCEPT ![p] = Append(@, result)]
  /\ AwaitNext(s, exits[s], open)
  /\ exit_price' = [exit_price EXCEPT ![s] =
                      IF exits[s] \intersect open = {} THEN 0 ELSE @]
  /\ UNCHANGED <<current_mode, machines, unrealized_pnl, current_prices, history>>

MutClosesFirst(s) ==
  LET p == closing[s]
      result == _calc_pnl(p, exit_price[s])
      open == open_positions \ {p}
  IN
  /\ p # NoPosition
  /\ open_positions' = open
  /\ IF p \in open_positions
     THEN /\ realized_pnl' = realized_pnl + result
          /\ results' = [results EXCEPT ![p] = Append(@, result)]
     ELSE UNCHANGED <<realized_pnl, results>>
  /\ AwaitNext(s, {}, open)
  /\ exit_price' = [exit_price EXCEPT ![s] = 0]
  /\ UNCHANGED <<current_mode, machines, unrealized_pnl, current_prices, history>>

(* commander.close_position has returned, with either answer:              *)
(* remove_position drops the position and records the result computed      *)
(* before the await, unless another task removed it first.                 *)
remove_position(s) ==
  LET p == closing[s]
      result == _calc_pnl(p, exit_price[s])
      open == open_positions \ {p}
  IN
  /\ p # NoPosition
  /\ open_positions' = open
  /\ IF p \in open_positions
     THEN /\ realized_pnl' = realized_pnl + result
          /\ results' = [results EXCEPT ![p] = Append(@, result)]
     ELSE UNCHANGED <<realized_pnl, results>>
  /\ AwaitNext(s, exits[s], open)
  /\ exit_price' = [exit_price EXCEPT ![s] =
                      IF exits[s] \intersect open = {} THEN 0 ELSE @]
  /\ UNCHANGED <<current_mode, machines, unrealized_pnl, current_prices, history>>

(* The mode selector, or the operator's /setmode. *)
SetMode(m) ==
  /\ current_mode' = m
  /\ UNCHANGED <<machines, open_positions, unrealized_pnl, realized_pnl, tasks,
                 current_prices, history, results>>

Next ==
  \/ \E p \in Positions : add_position(p)
  \/ \E s \in Symbols, snap \in Snapshots : process_tick(s, snap)
  \/ \E s \in Symbols, price \in Prices : TickRaises(s, price)
  \/ \E s \in Symbols : remove_position(s)
  \/ \E m \in Modes : SetMode(m)

(* A close command is awaited with a timeout, so the exits loop goes on.   *)
(* The market owes no tick.                                                *)
Fairness == \A s \in Symbols : WF_lifecycle(remove_position(s))

Spec == Init /\ [][Next]_lifecycle /\ Fairness

-----------------------------------------------------------------------------
(* Properties *)

(* trail_manager.py, "Trail only moves in the favorable direction": once   *)
(* armed, whatever the mode, the ATR and the symbol of the ticks, the stop *)
(* of a position never moves against it.                                   *)
TrailRatchets ==
  [][\A p \in Positions : state[p] = "OPEN_TRAILING"
       => ~Better(p, trail_stop[p], trail_stop'[p])]_lifecycle

(* trail_manager.py, update: the stop keeps up with the market; it is      *)
(* never further from the best price since it was armed than the largest   *)
(* distance in use, though the mode and the ATR change between the ticks.  *)
TrailKeepsUp ==
  \A p \in Positions : state[p] = "OPEN_TRAILING"
    => Sign(p) * (best[p] - trail_stop[p]) <= MaxDistance

(* state_machine.py, on_tick: no price the state machine compared since    *)
(* the fill of a position that is still OPEN_* was beyond its hard stop,   *)
(* armed or not, and the stop of an armed one is on the right side of the  *)
(* best price.                                                             *)
StopsHonoured ==
  \A p \in open_positions : state[p] \notin Closed
    => /\ ~stop_seen[p]
       /\ state[p] = "OPEN_TRAILING" => Better(p, best[p], trail_stop[p])

(* registry.py, remove_position: several tasks may await a close of the    *)
(* same position; its result enters the ledger exactly once, when it       *)
(* leaves the registry.                                                    *)
RecordedOnce ==
  \A p \in Positions :
    Len(results[p]) = IF state[p] = "IDLE" \/ p \in open_positions THEN 0 ELSE 1

(* registry.py, "Fires exit commands when state machine returns            *)
(* ExitReason": a closed state machine does not return an ExitReason on    *)
(* its own again, so its one exit must not be lost: a position whose state *)
(* is CLOSED leaves the registry.                                          *)
ClosedLeaves ==
  \A p \in Positions : state[p] \in Closed ~> p \notin open_positions

=============================================================================
