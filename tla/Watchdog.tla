-------------------------------- MODULE Watchdog --------------------------------
(***************************************************************************)
(* The watchdog of src/watchdog: an OS thread beside the event loop of     *)
(* NuclearController.  Every two seconds it reads a snapshot of the        *)
(* portfolio field by field while the loop goes on writing, compares the   *)
(* daily result with the limits of src/risk/constants.py and writes the    *)
(* emergency stop to the pipe, at each poll again while the loss lasts.    *)
(*                                                                         *)
(* A step of the thread is what it reads without another thread running:   *)
(* the realised part, then the unrealised one, then the open positions,    *)
(* over which total_basket_risk iterates.  A position added or removed     *)
(* meanwhile makes the iteration raise, and the poll ends with a log line. *)
(*                                                                         *)
(* net_equity is read but no code of src writes it: NetEquity.             *)
(***************************************************************************)
EXTENDS NuclearController

CONSTANT NetEquity      \* PortfolioState.net_equity

ASSUME EquityAssumption == NetEquity \in Nat

VARIABLES
  watch,          \* WatchdogThread: "waiting", "reading" or "iterating"
  realized_seen,  \* the realised part of the running poll
  verdict,        \* limit its daily_pnl reaches: "loss", "gain" or "none"
  alarmed         \* the last finished poll wrote the emergency stop

thread == <<watch, realized_seen, verdict, alarmed>>

WatchedInit ==
  /\ Init
  /\ watch = "waiting" /\ realized_seen = 0
  /\ verdict = "none" /\ alarmed = FALSE

-----------------------------------------------------------------------------
(* The plausible bug, which tests/watchdog names: no evaluation while the  *)
(* circuit breaker is on.                                                  *)
MutSkipsHalted ==
  /\ watch = "waiting"
  /\ watch' = IF circuit_breaker THEN "waiting" ELSE "reading"
  /\ realized_seen' = realized_pnl
  /\ alarmed' = FALSE
  /\ UNCHANGED verdict

(* _poll calls the getter, which reads net_equity and realized_pnl ...     *)
_poll ==
  /\ watch = "waiting"
  /\ watch' = "reading"
  /\ realized_seen' = realized_pnl
  /\ alarmed' = FALSE
  /\ UNCHANGED verdict

reached(daily) ==
  CASE daily * 100 <= -(NetEquity * LossPct) -> "loss"
    [] daily * 100 >= NetEquity * GainPct    -> "gain"
    [] OTHER                                 -> "none"

(* ... then unrealized_pnl, which may be of a later moment.                *)
daily_pnl_read ==
  /\ watch = "reading"
  /\ watch' = "iterating"
  /\ verdict' = reached(realized_seen + unrealized_pnl)
  /\ realized_seen' = 0
  /\ UNCHANGED alarmed

(* The snapshot is complete.  The answer of emergency_nuclear_write is     *)
(* ignored; a gain is only logged, as main.py sets no halt handler.        *)
Judge ==
  /\ watch = "iterating"
  /\ watch' = "waiting"
  /\ alarmed' = (verdict = "loss")
  /\ verdict' = "none"
  /\ UNCHANGED realized_seen

Thread == _poll \/ daily_pnl_read \/ Judge

(* RuntimeError of a dictionary that changes size while it is iterated.    *)
IterationRaises ==
  /\ watch = "iterating"
  /\ open_positions' # open_positions
  /\ watch' = "waiting"
  /\ verdict' = "none"
  /\ UNCHANGED <<realized_seen, alarmed>>

WatchedNext ==
  \/ Thread /\ UNCHANGED guardian
  \/ Next /\ (UNCHANGED thread \/ IterationRaises)

(* The thread is scheduled by the operating system, whatever the loop does.*)
WatchedSpec ==
  /\ WatchedInit
  /\ [][WatchedNext]_<<guardian, thread>>
  /\ Fairness /\ WF_<<guardian, thread>>(Thread /\ UNCHANGED guardian)

-----------------------------------------------------------------------------
LossBeyondLimit == \E loss \in {-daily_pnl} : loss * 100 >= NetEquity * LossPct

(* watchdog/thread.py, "polls equity and daily PnL every 2 seconds and     *)
(* fires the emergency stop independently": while a loss beyond the limit  *)
(* lasts the stop is written again and again, in spite of torn reads and   *)
(* failed polls, unless positions are opened and closed without end.       *)
BreachAnswered ==
  <>[]LossBeyondLimit =>
    \/ []<>alarmed
    \/ []<><<open_positions' # open_positions>>_open_positions
=============================================================================
