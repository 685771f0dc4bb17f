------------------------------ MODULE ConfluenceGate ------------------------------
(***************************************************************************)
(* scoring/gate.py, the Schmitt-trigger gate that turns the confluence     *)
(* scores of each symbol into decisions, and the two ways main.py touches  *)
(* it: evaluate on every snapshot that is scored, reset when an order was  *)
(* approved. During a halt no snapshot is scored, and nothing resets the   *)
(* gate.                                                                   *)
(*                                                                         *)
(* consecutive and watchlist_decay only matter up to the constants they    *)
(* are compared with, so they saturate there; the histories saturate one   *)
(* past the bound they are about.                                          *)
(***************************************************************************)
EXTENDS Integers

CONSTANTS
  Symbols,
  Composites,      \* H_c scores considered
  Thresholds,      \* REGIME_THRESHOLDS, and the default for other regimes
  Bonus,           \* FULL_AUTO_STRONG_BONUS
  Band,            \* the 20 of the watchlist band
  Sustain,         \* SCHMITT_SUSTAIN_CYCLES
  AlertCooldown,   \* the 10 of evaluate
  Decay            \* WATCHLIST_DECAY_BARS

ASSUME ScoreAssumption ==
  /\ Composites \subseteq Int
  /\ Thresholds \subseteq Int
  /\ Bonus \in Nat /\ Band \in Nat

(* The decision tree of evaluate is written for two cycles: with three, a  *)
(* second cycle above the threshold would count as a watchlist cycle.      *)
ASSUME CycleAssumption ==
  /\ Sustain = 2
  /\ AlertCooldown \in Nat \ {0}
  /\ Decay \in Nat \ {0}

VARIABLES
  consecutive,      \* _consecutive, 0 when absent
  alert_cooldown,   \* _alert_cooldown, 0 when absent
  watchlist_decay,  \* _watchlist_decay, 0 when absent
  decision,         \* the last GateDecision of each symbol
  qualifying,       \* history: cycles at or above threshold since the last lower one
  since_alert,      \* history: cycles since the last ALERT of this signal
  on_watchlist      \* history: WATCHLIST decisions in a row

counters  == <<consecutive, alert_cooldown, watchlist_decay>>
histories == <<qualifying, since_alert, on_watchlist>>
gate      == <<counters, decision, histories>>

FullAuto  == {"FULL_AUTO", "FULL_AUTO_STRONG"}
Decisions == {"DISCARD", "WATCHLIST", "ALERT"} \union FullAuto

GateInit ==
  /\ consecutive = [s \in Symbols |-> 0]
  /\ alert_cooldown = [s \in Symbols |-> 0]
  /\ watchlist_decay = [s \in Symbols |-> 0]
  /\ decision = [s \in Symbols |-> "DISCARD"]
  /\ qualifying = [s \in Symbols |-> 0]
  /\ since_alert = [s \in Symbols |-> AlertCooldown]
  /\ on_watchlist = [s \in Symbols |-> 0]

UpTo(bound, n) == IF n <= bound THEN n ELSE bound

-----------------------------------------------------------------------------
(* evaluate: one action for each of its exits. *)

(* Mutant: a dip does not reset the counter.                               *)
MutForgivesDips(s, composite, threshold) ==
  IF composite >= threshold THEN UpTo(Sustain, consecutive[s] + 1) ELSE consecutive[s]

(* The counter of cycles at or above the threshold is updated first.       *)
NextConsecutive(s, composite, threshold) ==
  IF composite >= threshold THEN UpTo(Sustain, consecutive[s] + 1) ELSE 0

(* The dictionaries after an evaluation, and what the histories record.    *)
Update(s, composite, threshold, cooldown, decay, result) ==
  /\ consecutive' = [consecutive EXCEPT ![s] = NextConsecutive(s, composite, threshold)]
  /\ alert_cooldown' = [alert_cooldown EXCEPT ![s] = cooldown]
  /\ watchlist_decay' = [watchlist_decay EXCEPT ![s] = decay]
  /\ decision' = [decision EXCEPT ![s] = result]
  /\ qualifying' = [qualifying EXCEPT ![s] =
       IF composite >= threshold THEN UpTo(Sustain, @ + 1) ELSE 0]
  /\ since_alert' = [since_alert EXCEPT ![s] =
       IF result = "ALERT" THEN 0
       ELSE IF result \in FullAuto THEN AlertCooldown ELSE UpTo(AlertCooldown, @ + 1)]
  /\ on_watchlist' = [on_watchlist EXCEPT ![s] =
       IF result = "WATCHLIST" THEN UpTo(Decay + 1, @ + 1) ELSE 0]

(* Sustained: an order may be placed, at full size when well above.        *)
Sustained(s, composite, threshold) ==
  /\ composite >= threshold
  /\ NextConsecutive(s, composite, threshold) >= Sustain
  /\ Update(s, composite, threshold, 0, 0,
            IF composite >= threshold + Bonus THEN "FULL_AUTO_STRONG" ELSE "FULL_AUTO")

(* The first cycle above the threshold: an alert. *)
Alert(s, composite, threshold) ==
  /\ composite >= threshold
  /\ NextConsecutive(s, composite, threshold) = 1
  /\ alert_cooldown[s] = 0
  /\ Update(s, composite, threshold, AlertCooldown, 0, "ALERT")

(* The same, with an alert in cooldown: the cooldown is counted here only. *)
Suppressed(s, composite, threshold) ==
  /\ composite >= threshold
  /\ NextConsecutive(s, composite, threshold) = 1
  /\ alert_cooldown[s] > 0
  /\ Update(s, composite, threshold, alert_cooldown[s] - 1, 0, "DISCARD")

(* Mutant: the decay is compared before it is counted.                     *)
MutOneMore(s, composite, threshold) ==
  /\ composite < threshold
  /\ composite >= threshold - Band
  /\ IF watchlist_decay[s] <= Decay
     THEN Update(s, composite, threshold, alert_cooldown[s], watchlist_decay[s] + 1, "WATCHLIST")
     ELSE Update(s, composite, threshold, alert_cooldown[s], 0, "DISCARD")

(* In the band below the threshold: watched for Decay cycles, then         *)
(* discarded once and watched anew.                                        *)
Watched(s, composite, threshold) ==
  /\ composite < threshold
  /\ composite >= threshold - Band
  /\ IF watchlist_decay[s] + 1 <= Decay
     THEN Update(s, composite, threshold, alert_cooldown[s], watchlist_decay[s] + 1, "WATCHLIST")
     ELSE Update(s, composite, threshold, alert_cooldown[s], 0, "DISCARD")

(* Mutant: a low score clears the alert cooldown.                          *)
MutClearsCooldown(s, composite, threshold) ==
  /\ composite < threshold - Band
  /\ Update(s, composite, threshold, 0, watchlist_decay[s], "DISCARD")

Below(s, composite, threshold) ==
  /\ composite < threshold - Band
  /\ Update(s, composite, threshold, alert_cooldown[s], watchlist_decay[s], "DISCARD")

evaluate(s, composite, threshold) ==
  \/ Sustained(s, composite, threshold)
  \/ Alert(s, composite, threshold)
  \/ Suppressed(s, composite, threshold)
  \/ Watched(s, composite, threshold)
  \/ Below(s, composite, threshold)

-----------------------------------------------------------------------------
(* reset, from on_snapshot when the order of a FULL_AUTO decision was      *)
(* approved.                                                               *)
reset(s) ==
  /\ decision[s] \in FullAuto
  /\ consecutive' = [consecutive EXCEPT ![s] = 0]
  /\ alert_cooldown' = [alert_cooldown EXCEPT ![s] = 0]
  /\ watchlist_decay' = [watchlist_decay EXCEPT ![s] = 0]
  /\ decision' = [decision EXCEPT ![s] = "DISCARD"]
  /\ qualifying' = [qualifying EXCEPT ![s] = 0]
  /\ since_alert' = [since_alert EXCEPT ![s] = AlertCooldown]
  /\ on_watchlist' = [on_watchlist EXCEPT ![s] = 0]

GateNext ==
  \/ \E s \in Symbols, composite \in Composites, threshold \in Thresholds :
       evaluate(s, composite, threshold)
  \/ \E s \in Symbols : reset(s)

GateSpec == GateInit /\ [][GateNext]_gate

-----------------------------------------------------------------------------
(* Properties *)

(* Types of the dictionaries.                                              *)
TypeOK ==
  /\ consecutive \in [Symbols -> 0..Sustain]
  /\ alert_cooldown \in [Symbols -> 0..AlertCooldown]
  /\ watchlist_decay \in [Symbols -> 0..Decay]
  /\ decision \in [Symbols -> Decisions]
  /\ qualifying \in [Symbols -> 0..Sustain]
  /\ since_alert \in [Symbols -> 0..AlertCooldown]
  /\ on_watchlist \in [Symbols -> 0..(Decay + 1)]

(* gate.py, "Requiring N=2 consecutive cycles above threshold": a decision *)
(* that places an order rests on Sustain cycles in a row that qualified    *)
(* under the thresholds of their own regimes, none of them before the last *)
(* entry.                                                                  *)
EntryIsSustained ==
  \A s \in Symbols : decision[s] \in FullAuto => qualifying[s] = Sustain

(* gate.py, "prevents alert spam": within one signal, that is until an     *)
(* order is placed, two alerts are at least AlertCooldown cycles apart,    *)
(* however often the score crosses the threshold.                          *)
AlertsSpaced ==
  [][\A s \in Symbols :
       since_alert'[s] < since_alert[s] => since_alert[s] = AlertCooldown]_gate

(* config/constants.py, "Watchlist entry expires after N scoring cycles":  *)
(* no symbol is reported on the watchlist for more than Decay cycles in a  *)
(* row.                                                                    *)
WatchlistExpires == \A s \in Symbols : on_watchlist[s] <= Decay

=============================================================================
