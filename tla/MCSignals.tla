------------------------------ MODULE MCSignals ------------------------------
(* Instances of the engines and of the gate for TLC. The two share no       *)
(* variable and each property speaks of one of them, so that a behaviour    *)
(* moves one of them and leaves the other in its initial state.             *)
EXTENDS Scoring, ConfluenceGate

SignalsInit == ScoringInit /\ GateInit

SignalsNext ==
  \/ GateInit /\ ScoringNext /\ UNCHANGED gate
  \/ ScoringInit /\ GateNext /\ UNCHANGED scoring

SignalsSpec == SignalsInit /\ [][SignalsNext]_<<scoring, gate>>

-----------------------------------------------------------------------------
(* The thresholds of the most and the least permissive regime, with one     *)
(* score on each side of every bound.                                       *)
Scores == {109, 110, 134, 135, 150, 155, 175}
RegimeThresholds == {130, 155}

-----------------------------------------------------------------------------
(* Four bars, up and down, with and without volume, and five snapshots.     *)

Bars ==
  {[open |-> 10, high |-> 14, low |-> 9, close |-> 13, volume |-> 2],
   [open |-> 15, high |-> 16, low |-> 11, close |-> 12, volume |-> 1],
   [open |-> 17, high |-> 24, low |-> 17, close |-> 19, volume |-> 9],
   [open |-> 7, high |-> 8, low |-> 4, close |-> 5, volume |-> 4]}

Snapshot(price, atr_1m, atr_5m, lag, vwap, up, session, regime) ==
  [price |-> price, atr_1m |-> atr_1m, atr_5m |-> atr_5m, lag |-> lag, vwap |-> vwap,
   cvd |-> [up |-> up, sharp |-> price # 0], session |-> session, regime |-> regime]

Snapshots ==
  {Snapshot(0, 2, 3, 0, 12, TRUE, "LONDON", "TREND"),
   Snapshot(3, 5, 8, 1, 7, FALSE, "ASIA", "CHOP"),
   Snapshot(-2, 9, 3, 0, 14, FALSE, "OVERLAP", "BREAKOUT"),
   Snapshot(4, 0, 0, 0, 13, TRUE, "ASIA", "REVERSAL"),
   Snapshot(-3, 5, 8, 0, 9, TRUE, "LONDON", "TREND")}

(* In eighths. *)
Averages == <<6, 4, 2, 1>>

Windows ==
  [wing |-> 1, bos |-> 4, confirm |-> 4, confirm_look |-> 4, swing_look |-> 5, choch |-> 4,
   choch_look |-> 4, volume |-> 3, fvg_look |-> 4, ob |-> 4, ob_volume |-> 4, ob_look |-> 6,
   follow |-> 1, tests |-> 2, liquidity |-> 3, liquidity_look |-> 5, decay |-> 4, rsi |-> 3,
   cliff |-> 2, bias |-> 3, absorption |-> 3, cvd |-> 3, ribbon |-> 3]
=============================================================================
