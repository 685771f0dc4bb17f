# GHOST GRID: a TLA+ verification project

GHOST GRID is an automated forex and gold trading daemon: a Python process that
receives ticks from a MetaTrader 5 expert advisor over a Windows named pipe,
scores every snapshot of every symbol, opens positions, manages their stops, and
halts itself when the account reaches one of the "nuclear" thresholds. This
directory models the daemon from the line that comes in on the pipe to the order
that goes out on it: ticks and bars, scores, the gate, the entry path, the life
of a position, the halt and its watchdog, the bridge, what is kept on disk, and
the operator's commands.

Source paths below are relative to `src/`. Definitions carry the names of the
code they model, and `PROJECT.json` maps each of them to its lines.

## 1. The system

One Python process, one asyncio event loop, one extra OS thread. Between two
`await`s a coroutine runs alone; at an `await` any other coroutine may run. That
is the granularity of the models: *one action is the code between two awaits*.
The thread is the exception: it may run between any two lines of the loop, and
its reads are steps of their own.

| Component | Sources | State | Operations |
|---|---|---|---|
| Nuclear guardian | `nuclear/` | `circuit_breaker`, `day_locked`, `nuclear_count_today`, `last_nuclear_ts` of PortfolioState; the close list of the running poll | poll every 500 ms, evaluate 7 triggers, close everything, apply the cooldown |
| Watchdog | `watchdog/` | an OS thread, its last snapshot | read the portfolio every 2 s, compare with a floor, write the emergency stop |
| Portfolio state, ledger | `portfolio/state.py`, `ledger.py`, `correlation.py` | open positions, realised and unrealised PnL, starting equity, correlation | add, remove, mark, record a close, reset at midnight |
| Snapshot pipeline | `main.py` (`on_snapshot`), `data/feed_router.py` | one task and one queue per symbol, the position id counter | tick positions, close exits, score, check, open |
| Position lifecycle | `positions/` | a state machine, a trail and a hard stop per position; the registry | on_tick, add, remove |
| Market data | `data/`, `config/sessions.py` | per instrument: bars of three timeframes, session VWAP, CVD ring, two ATRs | process a tick, build a snapshot |
| Scoring engines | `scoring/` (`hmp`, `hlcp`, `mpp`, `fusion.py`), `regime/indicators/ema_ribbon.py` | weights learned from outcomes, an EMA ribbon per symbol | score a direction, fuse three scores |
| Confluence gate | `scoring/gate.py` | three counters per symbol | evaluate, reset |
| Mode selection | `core/mode_selector.py`, `portfolio/mode_automaton.py` | the current mode, a manual override | evaluate every 30 s, /setmode |
| Operator commands | `telegram/`, `security/rate_limiter.py` | pending confirmations, token buckets, the window of alerts | /pause, /resume, /nuke, /setmode, /close |
| Execution | `execution/` | request counter, retry count, shared fill queue | open, close, retry, paper fills |
| MT5 bridge | `bridge/` | a pipe handle and its flag, three bounded queues, a write breaker, the reconnect manager | read, parse, dispatch, write, reconnect |
| Persistence | `db/` | tables, a connection pool | write, read, recover after a crash |
| Observability | `observability/` | the trade journal (a CSV file), the drift check, the daily report | record, compare, report |
| Risk governor | `risk/` | none (reads PortfolioState) | 8 checks, lot size, basket risk |
| Regime detection | `regime/`, `data/regime.py` | none | classify a snapshot |
| Expert advisor | `mt5_ea/GhostGrid.mq5` | orders at the broker | answer the pipe |

How they interact. The reader puts parsed lines on queues; `FeedRouter` runs one
task per symbol, which builds bars and snapshots and calls `on_snapshot`, so
snapshots of one symbol are sequential and those of different symbols
interleave. All tasks, the guardian, the midnight reset, the mode selector and
the Telegram handlers share one `PortfolioState` without locks, and the watchdog
reads it from its thread. The guardian and `on_snapshot` both await the
execution layer, which shares one pipe client and one fill queue among all
orders, and everybody else runs meanwhile. `on_snapshot` writes the database and
the journal after the awaits; only these survive a crash.

What is hard, by component (PROJECT.json lists each hazard at its line):

* *guardian*: the close list is a snapshot of the positions; midnight, /resume
  and fills run while the closes are awaited; three writers share the breaker;
  an event is stamped with the time its poll began.
* *watchdog*: it reads, without a lock, fields that the loop writes one by one,
  and iterates over a dictionary that the loop changes.
* *pipeline*: the breaker, the cap of positions and the exits list are read
  before an await and used after it.
* *lifecycle*: the mode and the ATR change under a trailing stop; two exits are
  not guarded by the state; every position is ticked by every symbol's price.
* *market data*: late and missing ticks, three period boundaries, and two clocks,
  that of the ticks for bars and the wall clock for sessions.
* *scoring*: every detector has its LONG and its SHORT branch written out by hand;
  a slip in one of them is invisible to a test that only takes one side; and
  scoring itself advances the EMA ribbon it reads.
* *gate*: counters that count something else than their comments say; nothing
  resets them when the guardian fires.
* *execution*: one fill queue for all requests, late writes after a timeout,
  retries of what may have been done.
* *bridge*: lines that arrive joined or cut, bounded queues that drop, one flag
  for a connection that three tasks replace, retries that end.
* *persistence and journal*: a crash between any two writes; ids that are drawn
  from the rows that were written; a file that is read, changed and replaced by
  several tasks.
* *operator*: confirmations that expire or are overwritten, buckets at their
  limits, cleaned up while they are in use.

## 2. The modules

| Module | Models | Proofs |
|---|---|---|
| `NuclearController` | the guardian, and every writer of the state it reads | `CoreProofs` |
| `Watchdog` (EXTENDS it) | the OS thread beside the guardian | |
| `TradingCore` (EXTENDS `NuclearController`) | the tasks of `on_snapshot`, in place of the guardian's free environment | `CoreProofs` |
| `PositionLifecycle` | state machines, trails, registry, exits loop | `LifecycleProofs` |
| `MarketData` | tick to bars, VWAP, CVD, ATR and snapshot | `FeedProofs` |
| `Scoring` | three engines, weights, fusion | `SignalProofs` |
| `ConfluenceGate` | `scoring/gate.py` and its two callers | `SignalProofs` |
| `ExecutionPort` | abstract: what `on_snapshot` may rely on when it awaits the commander | |
| `OrderExecution` (implements it) | commander, dispatcher, fill handler, retries, the fill queue | `OrderProofs` |
| `InboundLink` | chunks, lines, parser, queues, symbol tasks | `FeedProofs` |
| `PipeLink` | pipe client, writer with its breaker, reconnect manager | `LinkProofs` |
| `TradeStore` | rows, id counter, recovery, journal, drift check, report figures | `StoreProofs` |
| `OperatorDesk` | command limits, confirmations, alert window | `DeskProofs` |
| `MCNuclear`, `MCCore`, `MCLifecycle`, `MCMarket`, `MCSignals` (of `Scoring` and `ConfluenceGate`), `MCExecution`, `MCInbound`, `MCLink`, `MCStore`, `MCDesk` | TLC instances | |

### NuclearController

A poll that fires is two actions. `PollFires` takes the list of open positions
and starts the closes (`pc = "closing"`); `NuclearRecorded` is what happens
after the await: the event is counted, `last_nuclear_ts` becomes the time the
poll *began*, and `apply_cooldown` runs. `PollQuiet` is a poll without a
trigger, which also calls `apply_cooldown`, and that call clears a breaker
somebody else set. `PollRaises` is the poll with the commanders `main.py`
really injects, which lack `close()`. `add_position`, `remove_position`,
`update_unrealized`, `update_state`, `reset_daily`, `cmd_pause` and `cmd_resume`
are the other writers of the same fields.

Time is relative: `since_nuclear` is the time since `last_nuclear_ts`, saturated
at the cooldown, since the code only compares it with the cooldown. PnL is
arithmetic on integers, and the trigger comparisons are those of the code with
their percentages cleared of fractions. `CountCap` saturates
`nuclear_count_today` (only `>= 2` is read) and `RealizedRange` bounds realised
PnL. `resumed` is a history variable.

Five of the seven triggers are modelled. `trigger_market_exhaustion` and
`trigger_latency_anomaly` read `avg_basket_rsi` and `last_fill_latency_ms`, which
nothing in the repository writes, so they are constantly false.

### Watchdog

`_poll` reads the realised part, `daily_pnl_read` the unrealised one,
`Judge` the positions and then writes the emergency stop or not. Between them the
guardian's module takes any of its steps; one that adds or removes a position
while the thread iterates ends the poll with an exception. The emergency close
changes no state of the daemon (its halt handler is never set), so `alarmed`,
that the last poll wrote it, is all there is to observe.

### TradingCore

One value of `stage` per symbol, the await its task is suspended in: `exiting`
(a close is awaited), `scored` (score and alert are written), `opening`
(`commander.open_position` is awaited). `MayEnter` is the block of checks that
runs without an await: breaker, cap, and checks 1 to 4 of `validate_order`.
Scoring, gate and checks 5 to 8 are left open (`ScoredAuto` or `ScoredBelow`,
`EntryApproved` or `EntryRefused`), which only adds behaviours.

`registry` tells two wirings apart. `"raises"` is the one of `main.py`:
`process_tick` reads `snap.mid`, which `MarketSnapshot` lacks, and `on_snapshot`
awaits the plain list it would return, so every snapshot is a callback error.
`"answers"` is a registry as `on_snapshot` is written for. Both are checked; the
safety properties and the proofs hold of both.

`leaked` and `at_halt` are history variables: positions registered since the
breaker came on, and orders in flight when it came on. `MaxId` bounds the id
counter.

`TradingCore` EXTENDS the guardian, and `Spec` of `NuclearController` is checked
as a PROPERTY of it (fairness included): the pipeline is one of the environments
the guardian was verified for.

### PositionLifecycle

`on_tick` is the function of the same name, with its order of checks: CVD
override, hard stop, arming, trail, weakness. `process_tick` ticks *every*
registered position with the snapshot's price, recomputes `unrealized_pnl` from
the positions of the snapshot's symbol, and sends the first close. `AwaitNext`
is the exits loop up to its next await, `remove_position` what follows one, and
`TickRaises` is a snapshot on which the CVD check raises (exactly three M5 bars)
and no stop is looked at. `SetMode` is the mode selector or /setmode. The
detectors of CVD divergence and weakness are inputs of the snapshot.

A snapshot here has the `mid` and `cvd` that the tests of `positions/` give it.

### MarketData

One action, the tick that `SnapshotBuilder` processes: aggregation into M1, M3
and M5, VWAP, CVD, both ATRs, and the snapshot that is offered to the classifier
once the buffers are warm. The timestamp of a tick, which cuts the bars, and the
session the wall clock gives, which resets VWAP and CVD, are chosen apart. The
CVD arithmetic is abstracted to the session of each entry, which is what the
markers and resets are about; of the ATR only whether it is there and positive is
kept. `data/regime.py` raises on every snapshot of the builder (it asks one bar
for its length), so no snapshot reaches `on_snapshot`; `offered` is what the
classifier was called with.

### Scoring

Pure functions of a chart: swings, breaks of structure, gaps, order blocks,
liquidity and sweeps, volume, momentum and absorption, with both branches of
every detector translated apart from each other. Charts are lists, as the engines
and their tests take them. The z-score of the CVD is an input, the windows of the
code are the fields of `Span`.

One engine keeps state: `calculate_hlcp` feeds the symbol's EMA ribbon whenever it
scores a direction. `ribbon_calc` is that calculator, of one symbol; `update` is
its method, with each average a fraction over a common `unit` (the alphas of the
code, 2/9, 1/7, 1/11 and 2/35, are 770, 495, 315 and 198 over 3465) where the code
has floats. `EngineScores` passes `Fed(ribbon_calc)` to LONG and
`Fed(Fed(ribbon_calc))` to SHORT, in the order of `fusion.py`, and gives no trend
points before the ribbon was fed `Span.ribbon` times. The state machine grows a chart
by a bar (`NewBar`), scores a snapshot (`Scored`, which leaves the ribbon fed twice)
or counts a closed trade for the weights (`Closed`).

### ConfluenceGate

One action per exit of `evaluate`. The composite score and the threshold of its
regime are inputs; regimes change between cycles of one symbol. `reset` is the
call after an approved entry. Histories saturate one past the bound they are
about.

### OrderExecution and ExecutionPort

`pc` is the await each call of the commander is suspended in: `writing`,
`reading` (the response on the commands pipe), `waiting` (for the fill queue),
`backoff`. The calls share `last_response` and `fill_queue`; `attempt` is the
loop of `_dispatch_with_retry`, `retries` the tracker of `retry.py`. An action is
what runs between two awaits: `Written`, `Paper` and `DispatchFails` are the ends
of a dispatch, `Respond` of the read, `TakeMessage` and `WaitTimesOut` of the
wait, and each goes on through `Proceed`, `Fallback`, `TryAgain` or `should_retry`
to the next await or to the end of the call.

`LateWrite` is the write that goes on in its executor thread after
`asyncio.wait_for` gave up on it. `Answer` is the expert advisor. Messages carry
the call they belong to for the properties only; the code cannot see it, since
every ORDER has position id 0. A line that no parser accepts and a line that is
lost have the same effect, and are one case. `paper_mode` is the environment
variable `PAPER_MODE`, fixed for a behaviour. `PipeMax` and `LateCalls` bound the
model, the former the lines on the commands pipe, the latter the calls whose
writes may be late. `sent`, `filled` and `confirmed_by` are history.

Left out: the leverage and the size of an order, which no branch reads; metrics;
`PipeClient`'s locks, whose only effect here is the order in which calls proceed
(`PipeLink` has them).

`ExecutionPort` is the promise: a call returns once, it hands over at most so
many orders, none on paper, and a live success has handed one over. It does not
promise that a failed call left no order behind, because that is not so.

### InboundLink

`ReadLine` is one turn of the reader's loop: the chunk a `ReadFile` gave, taken as a
line, parsed and put on its queue or counted as an error. A line is a version, a
type and fields, of each of which only what the parser can tell apart is kept; lines
that arrive cut or joined have too few fields or too many. `TakeTick` and
`CallbackEnds` are the symbol task, `TakeFill` the wait of the execution layer. The
parse counters (`verdicts`, `total_parsed`) are global to `protocol.py` and have a
second writer: `ParseResponse` is `FillHandler.parse_response`, which parses a V1
response of the commands pipe with the same `parse_inbound` and dispatches nothing;
the handler's own counters are left out. `responses`, a history variable, is its
share of `verdicts`. What the router does with a tick, the builder, is `MarketData`.

### PipeLink

The pipe client as its three users share it: the dispatcher (`DispatchBegins`,
`DispatchConnects`, `DispatchWrites`, `DispatchEnds`, then the response with
`DispatchListens`, `DispatchReads`, `DispatchHears`, and `DispatchTimesOut`), the
queue writer with its breaker (`WriterGets` to `BreakerResets`) and the
reconnect manager (`ManagerWakes`, `BackoffEnds`, `ManagerConnects`). `handle` is
the newest handle, `using` the one a transfer under way was begun with; a failed
read or write clears `connected` whoever set it. Whether an open succeeds and when the
advisor drops the connection is left open.

### TradeStore

The rows of the positions table, the id counter, the journal file and the
registry, written by symbol tasks that may die at any step, in the middle of a
synchronous stretch included; `Startup` is the recovery of `main.py`, which reads
the highest id and logs the rest. `calls` tells two wirings apart: `"main"`
passes the journal the keywords `main.py` uses, which its methods do not take, so
each call raises and is caught; `"api"` passes those they take. `record_opened` is
one step, because its row is one buffered write when the file is closed; a failure
of the machine that leaves half a row is not modelled. `check_drift` and
`generate_report` are functions of the journal, by the indexes of its closed
rows; `filled` and `closed` are history. A result of exactly 0 is `"even"`: the
code counts it neither as a win nor as a loss.

### OperatorDesk

`Command` is an update of one operator, through the rate limiter and into its
handler: a request that leaves a pending confirmation, a confirmation, a
cancellation, or a command that needs none. `force_nuclear` is the end of the
await of a confirmed /nuke. `Sends` is an outgoing alert, `Elapse` the clock.
Tokens are counted in fractions of one, as the refill is. `Controllers` has the
three things `nuclear_controller` may be: absent, the one of `main.py`, which
lacks `force_nuclear`, and one that has it, as in the tests.

## 3. The runs

Every passing run explores its whole state space. `signals` moves the engines or the
gate and leaves the other in its initial state: the two share no variable, and no
property speaks of both. `nuclear`, `core`, `lifecycle` and `link` check for deadlock;
in the others the number of calls, reads, orders, ticks or bars is bounded and the model
ends when they are used up.

| Run | Size | Properties | What it shows |
|---|---|---|---|
| `nuclear` | 133 k states, 2 positions, cooldown 2, close timeout 1, with the watchdog | `CooldownHalts`, `LockIsEarned`, `LockedDayStaysHalted`, `EveryPositionReached`, `TriggerHalts`, `BreachAnswered` | a recorded event halts trading for the whole cooldown; a lock has its events even when midnight falls inside a close; the close list of some poll reaches every position, *if the commander can close*; a loss that lasts is answered by the watchdog in spite of torn reads |
| `core` | 92 k, 2 symbols, cap 1, 3 ids | `CapOvershootBounded`, `HaltLeakBounded`, `IdsDistinct`, `HaltEnds`, `Spec` | by how much check-then-await overshoots the cap; only orders in flight survive into a halt; ids never collide; a halt ends |
| `lifecycle` | 139 k, a long and a short of two symbols | `TrailRatchets`, `TrailKeepsUp`, `StopsHonoured`, `RecordedOnce`, `ClosedLeaves` | stops only tighten and keep up although mode and price source change; one result per position although two tasks close it |
| `market` | 415 k, 2 sessions, 5 ticks | `BarsAreHistory`, `SnapshotSound` | each bar is the one a replay of the ticks gives; nothing of another session is in the VWAP or, unmarked, in the CVD of a snapshot |
| `signals` | 209 k; engines: charts of up to 6 of 4 bars, 5 snapshots, 2 of them scored, 1 trade; gate: 2 symbols, a score on each side of every bound | `Mirrored`, `EntryIsSustained`, `WatchlistExpires`, `AlertsSpaced` | LONG and SHORT agree on mirrored charts, for the ribbon after as many updates; the counters of the gate mean what the callers rely on |
| `execution` | 389 k, 2 orders and a close, 2 attempts, a queue of 1 | `OpenedIsFilled`, `TrackersFollow`, `ImplementsPort` | no live success without a fill; no call outlives its tracker or hands over more orders than attempts, late ones included; every call returns |
| `inbound` | 70 k, 2 instruments, a stranger, queues of 2 and 1, 4 lines read or parsed as responses | `Accounted`, `NewestKept`, `SoundDelivered`, `TicksServed` | less the share of the responses, what is lost is counted where the code says so; the newest ticks survive; nothing unsound reaches a task; a waiting tick is served |
| `link` | 75 k, a dispatch, a queue of 2, 2 failures, 2 attempts, 3 messages | `TypeOK`, `WriterConserves`, `LinkSettles`, `CommandsLeave` | no accepted command is lost uncounted or written twice or out of order; the link comes back or the manager has used up its attempts; the queue empties |
| `store` | 610 k, 2 tasks, 3 orders, 1 crash | `RowsAreFills`, `JournalSound`, `JournalKeepsRows`, `FiguresFollowTrades` | rows are fills, in every life of the process; the journal has an exit for each closed position and loses none; the figures follow it, and the drift check speaks only when some trade was not won |
| `desk` | 1.4 M, 2 operators, limit 2 in a window of 3, 5 calls | `LimitsHold`, `ConfirmedOnce` | no window holds more than the limiters allow and nobody is refused too early; each close answers its own prompt |

Why the bounds are enough. *nuclear*: two positions give a close list that misses
one; a timeout of one unit lets every other action fall inside a close; a cooldown
of two leaves room before, inside and after; `CountCap` 3 is past the locking 2. The
marks are one beyond each threshold and one between. *core*: with a cap of one and
two symbols both can pass the check at the same count; three ids let a position be
closed and reopened while another is in flight. *lifecycle*: prices 0, 3, 5 around
entry 2 give a stop hit, an arming, and a second higher price the trail has to
follow, from both sides; the two modes have different trigger and floor. *market*:
advances of -1, 0, 1 and 5 minutes are a late tick, one in the same bar, one on the
next boundary and a gap longer than every period; buffers of two and a ring of three
wrap; two changes let a session come back. *scoring*: windows shortened as `Span`
says; four bars, up and down, with gaps, high and low volume, and every point value
of every detector occurs; two scored snapshots feed the ribbon four times, past its
warm-up of three, between any bars. *gate*: 109, 110, 134, 135, 150, 155 and 175 lie
on each side of threshold, watch band and bonus of the most and least permissive
regime; `AlertCooldown` and `Decay` are 3 in place of 10 and 5, which keeps every
comparison (below, at, past). *execution*: two orders are enough to take each
other's fill, response and place in the queue; a queue of one is full with the
message of the close; two attempts are those of the code. Writes may be late for one
of the orders, which gives late writes before, between and after its attempts.
*inbound*: three ticks overflow a queue of two, two fills one of one, and the fourth
read follows an overflow, or a response is parsed before, between or after three
reads. *link*: three messages overflow the queue of two; two failures open the
breaker and two attempts use up the manager. *store*: a crash between any two steps
and a second life with orders of its own; a third order gives a failed one between
two filled ones; a trade that is not won has result 0, which the figures and the
drift check treat as they treat a loss, but that it is not counted as one. *desk*: a
window of 3 with limit 2 has fractions of a token; buckets idle for 3 units are
dropped by a cleanup due after 2.

Fairness. The guardian's loop polls for ever and its await ends by its timeout,
so `Controller` is weakly fair; time passes. The watchdog is scheduled by the
operating system whatever the loop does. In `TradingCore` midnight comes, and
each symbol's task resumes from every await, because dispatcher and fill
handler wait with timeouts. In `PositionLifecycle` the await of a close ends.
In `OrderExecution` some suspended call resumes, because each of its awaits has a
timeout (the connection in `PAPER_MODE` has its 30 attempts); the expert advisor
may stay silent for ever. In `InboundLink` each symbol task runs, the reader
need not. In `PipeLink` the manager's and each dispatch's awaits end; the writer
is strongly fair, because `asyncio.Lock` wakes its waiters in turn.
`TradeStore`, `OperatorDesk`, `MarketData` and `Scoring` have no liveness
properties and no fairness. Nothing is assumed of the market, the operator, or
the arrival of snapshots.

### Disagreements between code and documents

`fired_trigger_halts` is a run in which TLC finds the documents' statement
violated: `execute_nuclear_close` calls `commander.close`, which neither commander
has. The AttributeError is raised outside the executor's `try`; nothing is
closed, counted or halted, at any poll.

`composite_is_sum` is a second one, on `MCSignals` with charts of up to 4 bars. `fusion.py:11` speaks of the
"sum of all three strategy scores (max 180)", as do line 3, `scoring/models.py:145`
and `tests/integration/test_full_scoring_pipeline.py:91`. The code takes their
weighted mean, at most 60 and 63 with the multiplier of the regime, and the gate
compares it with thresholds of 130 and more, so that no score ever qualifies. What the
code gives instead is `FusedIsPlainMean`, proved in section 4.

Met while modelling, and not the subject of a run of their own.

*Halt and pipeline*

* The next quiet poll of the guardian, half a second later at most, clears the
  breaker that /pause set.
* No snapshot gets past `process_tick`: it reads `snap.mid`, which
  `MarketSnapshot` lacks, and `on_snapshot` awaits a plain list.
* `main.py` gathers `fill_handler.run` and a `run_polling` of the Telegram
  application, neither of which exists, and builds `ValidatedOrder` with keyword
  arguments the class does not take.
* The gate is not reset when the guardian fires: what was sustained before a halt
  counts after it.
* `DAILY_LOSS_LIMIT` is a "permanent day halt" in `nuclear/controller.py:17`; in the
  code a day is locked by its second event, whatever the trigger.
* `unrealized_pnl` is recomputed only in `process_tick`, although
  `portfolio/ledger.py:30` says "Called every 500ms by NuclearController"; a tick of
  one symbol drops the other symbols' positions from the sum, and from the
  removal of a position to the next tick its result is in `realized_pnl` and in
  `unrealized_pnl`, and a halt in between keeps it in both until midnight.
* The watchdog may take a loss of yesterday for one of today when its reads
  straddle midnight. The docstrings of its tests say that polls are skipped while
  `day_locked` or `circuit_breaker` is set; the code polls on. The pipe it writes
  the emergency stop to is not the one the expert advisor opens.
* `mode_selector_task` always passes the selector TREND and LONDON.
* `CorrelationEngine` and the equity tracker are started by nothing.

*Positions*

* With three M5 bars and ten CVD minutes `check_cvd_exit` takes the maximum of an
  empty slice and raises before the mandatory hard stop is compared.
* The answer of a close is ignored, so local books and broker may differ.

*Market data, regime and scoring*

* `data/regime.py:146` asks one bar for its length; `classify` raises on every
  warm snapshot and no snapshot is produced, although
  `tests/integration/test_pipe_to_snapshot.py:47` wants "at least one". The
  engines expect lists of bars as well, where the builder gives a bar.
* The ATRs are given no previous close, so that a true range is `bar.high`; the
  first tick of a bar is missing in its volume; sessions are names, not dates, so
  a VWAP goes on over a day's gap.
* `regime/indicators/ema_ribbon.py:59` says "Call update() per bar" and line 76 "Feed
  one completed OHLCV bar"; `scoring/hlcp/engine.py:57` feeds the last closed bar at
  every call, and fusion calls it for LONG and for SHORT, once per tick that makes a
  snapshot. SHORT is scored with averages one update ahead of those of LONG, and the
  34th update is that of SHORT in the 17th snapshot, so in that one SHORT alone can get
  trend points.
* Each close reports its outcome for all three strategies
  (`positions/state_machine.py:164`), so their weights never differ.
* Where LONG and SHORT are not mirror images (`Mirrored` leaves these cases out):
  SHORT is scored with the ribbon one update later (`Mirrored` compares the two
  after as many updates); the clustering of equal levels starts from the lowest
  price; a price on the VWAP counts as below; a CVD that stands still counts as
  falling; an RSI of unmoved closes is 100. The session bias needs five of six bars
  where its comment says four. "Absorption" divides up to nine volumes by ten.

*Risk*

* The reward-to-risk check of `validate_order` receives the same distance for
  both and refuses every proposal; `Tick.spread` is set by nobody and its check
  always passes.

*Execution and bridge*

* `wait_for_fill` returns the first fill of the shared queue, whoever ordered it;
  with a late fill or two orders in flight a position is registered with the
  price of another.
* A REJECT taken from the fill queue leads to another attempt
  (`execution/commander.py:211`); `execution/retry.py:37` lists it under "Abort
  conditions (permanent)", but `should_retry` is only called without a result.
* An order that is filled but not confirmed is sent again, with the same position
  id 0: up to `max_attempts` positions at the broker for one approved entry.
* With `settings.paper_trading` off and `PAPER_MODE` unset the live commander
  writes nothing and reports SENT, and the position is registered.
* The paper commander numbers positions from 1000 on its own, so the ids
  `main.py` closes are unknown to it.
* Python writes `V1|ORDER|...` (on Python 3.11 and later `V1|OutboundType.ORDER|...`,
  the format of a `str` enumeration); the expert advisor compares the first field
  with `ORDER`, and sends `TICK|...` without the version the parser expects, and
  `FILL` with five fields where the legacy parser wants six.
* The protocol comment gives FILL eight fields with its version
  (`bridge/protocol.py:339`); `parse_inbound` refuses fewer than nine (line 340).
* Two messages that one read returns are one line to the parser. For most types a
  field of it is no number, and both are lost as one parse error; a FILL of nine
  fields or a REJECT is taken, and the message behind it lost without a count.
* `get_parse_metrics` counts the ticks pipe and the responses of the commands pipe
  together, while `total_lines_read` and the reader's counters of dispatched messages
  are of the ticks pipe alone (`execution/fill_handler.py:48`): the counters by
  themselves do not balance. `Accounted` says by how much they differ, and a reader
  of the metrics has no counter for that.
* `bridge/reconnect.py:112` says "Continue retrying with max backoff"; after
  `RECONNECT_MAX_ATTEMPTS` the branch only sleeps. `pause_flag` is read by nobody,
  and stays set when another task reopens the link.
* `main.py` connects the commands pipe only; the client of the ticks pipe, which
  the reader reads from, is connected by nobody, and `PipeWriter.enqueue` is called
  by nobody.

*Persistence and reports*

* `main.py` calls the journal with keywords its methods do not take; the
  TypeError is caught, the journal stays empty, the report's figures are zero and
  the drift check never speaks. The report says "OK" for the drift in any case,
  and its figures are of the whole file, not of the day. Called as the journal
  wants it, a trade that ends at 0 lowers the win rate and is not among the losses.
* Two tasks that close one position leave two closed rows in the journal. After a
  crash ids may be given out again, and a row of the journal then joins the entry
  of one order to the exit of another.
* `db/recovery.py:3` speaks of rebuilding "system state from database on reconnect";
  startup logs what it finds and registers nothing. `main.py` sets no row to CLOSED,
  and the id of a row is not the id of its position.
* The minimal tables of `run_migrations` lack columns that `write_signal`,
  `write_regime`, `write_snapshot`, `update_exit` and `get_current_regime` name; a
  statistics query has WHERE twice; `verify_database_integrity` reads a missing key.

*Operator*

* `/nuke` calls the guardian without its `force_nuclear` (`telegram/commands.py:163`);
  the buttons of its keyboard have no handler.
* "max 3 nukes per minute": a token bucket allows almost twice its limit in a
  window. `security/rate_limiter.py:54` says "1 token per second"; a bucket gains
  its limit per window, a sixtieth of its limit per second. `_last_cleanup` is never
  advanced, so a cleanup runs at every command once the first interval is over;
  `LimitsHold` shows that this is harmless.
* The audit pool is never passed by `main.py`; the row would be written before the close.
* The alert cooldown of the gate, "10-cycle" in a comment (`scoring/gate.py:110`),
  is counted down only on suppressed first crossings, so it is longer.

## 4. The proofs

TLC shows the properties on the instances above; the theorems hold for every
value of the constants under the named ASSUMEs. These say what the code's
configuration says: finitely many symbols and tasks, positive caps, windows and
queue sizes, a close timeout below the cooldown, counters at least as wide as
what they are compared with, a drift threshold of at most 100%, a rate limiter
that forgets a bucket only after a window of silence (`IdleFor >= Window`, an hour
and a minute in the code), an ATR period within the warm-up and a warm-up within
the bar buffers, positive prices, a least threshold above 63 (130 in the code), and
names that differ (no dispatch is called "writer" or "free").

`CoreProofs`, the guardian. `GuardianInv` is `TypeOK /\ CooldownHalts /\
LockIsEarned`; it is inductive as it stands. The step of interest is `ClockTick`:
the age of a running poll stays below the cooldown only because the closes are
awaited with a timeout. `CooldownCorrect`, `LockCorrect` and `TypeCorrect` follow;
`LockedDayCorrect` is an action property proved from `LockIsEarned`: a quiet
poll that turns the breaker off has seen the cooldown elapse, and /resume is
refused on a locked day.

`CoreProofs`, the pipeline. `CapOvershootBounded` is inductive with the types; the other two
need a strengthening. `HaltLeakBounded` needs that nothing has leaked while the
breaker is off (`LeakInv`); `IdsDistinct` needs the counter to be above every id
in use, open or in flight (`IdsBelowCounter`). `StepCases` reduces the twelve
actions to five: nothing changes, one position closes, one order is approved,
fails, or fills; each invariant is then proved over those. The counts are
cardinalities of finite sets, moved by one in each case (`CountsAfter`).
`CoreRefinesGuardian` proves that every step of the pipeline is a step of the
guardian or leaves its state alone; `CoreGuardianSafe` transfers the guardian's
safety to the pipeline.

`SignalProofs`, the gate. None of the three properties is inductive: they speak of
histories, the code only has counters. `CountersAgree` relates them: `consecutive`
equals the number of qualifying cycles, `on_watchlist` is at most `watchlist_decay`,
and `alert_cooldown + since_alert` is at least the cooldown. The last is why the
alerts are spaced although the cooldown is not counted on every cycle.

`OrderProofs`. `ExecInv` strengthens `TypeOK` and `OpenedIsFilled` by two parts.
`CallInv` relates, for each call, its await, attempt and tracker to its orders:
those on the pipe and those that may still get there together never exceed the
attempts made, and are fewer while a write is going on. `MessagesInv` says that
every fill lying about was sent by the broker. Every resumption but a write that
is done in time is a `Turn`, one relation with a lemma for each way a call goes
on, so the invariant and the refinement are each proved once for all of them.
`ExecutionImplementsPort` maps every step to one of `ExecutionPort` or a stutter.
No number of calls and no size of the queue is assumed, not even that the calls
are finitely many.

`LifecycleProofs`. `StopsHonoured`, `TrailKeepsUp` and `RecordedOnce` are inductive
together with the types and three facts about the collections: a position
before its fill is in none of them and has seen no stop (`IdleIsFresh`); the exits
lists and the closes under way hold closed positions only, although other tasks
tick and remove the same positions (`ExitsAreClosed`); a position that is in no
registry is closed (`RemovedAreClosed`). The arithmetic is that of one call of
`update`, which moves a stop in favour of its position or not at all and keeps it
within `MaxDistance` of the price. `TrailAlwaysRatchets` follows for every mode, ATR
and symbol a tick may have.

`LinkProofs`. `TypeOK` says who may be where while who holds the lock, and is
inductive in three parts, one per user of the client. `WriterConserves` is split:
what is written is in order and older than what is in hand, which is older than
what waits (`WrittenInOrder`); the counters account for every message, and the
queue holds the newest without a gap (`Counted`); a message is in hand exactly
while its write is under way (`WriterState`).

`StoreProofs`. `RowsAreFills` needs that an order is opened by one task and has no
row before its insert (`OpenedOnce`), and that the counter is ahead of the rows by
the orders still on their way (`CounterAhead`), which a restart establishes anew
because it has none of them. For `JournalSound` the close that is being written
is followed through the temporary file, which is the journal with one exit more
(`TmpTakesExit`) because nobody else runs between the write and the rename.
`ExitsBounded` counts, per order, the rows written and the tasks that may still
write one; `FirstLife` says that ids are distinct until the first crash, so that
the row an exit is put into is its own. `JournalKeepsRows` then holds of each way
the journal moves, and `FiguresFollowTrades` of the closed rows: each closed
position is the exit of one, and a step loses none.

`FeedProofs`, sums. `SumFunction` and `SumFunctionOnSet` of the community modules
fold a function over a finite set, and the installed provers take no induction
theorem that has an operator as a parameter. A sum of naturals is therefore
identified with a cardinality: `Units(f, S)` has `f[x]` elements for each `x`, and
`SumIsUnits` proves that the fold counts them, by `SetByElements`, an induction
over a finite set that is stated with a *set* of subsets in the place of the
predicate and follows from the least counterexample. Adding, changing and
comparing sums are then lemmas of first-order logic; the ends of a set of integers
(`EndsOf`) are found in the same way.

`FeedProofs`, the link. Lines are sequences over three classes of fields. That
damaging, cutting and joining lines yields lines, and what the checks of the
parser let pass, are lemmas about the operators. `NewestKept` rests on the ticks
of a queue being consecutive and younger than any taken (`TicksInOrder`).
`Accounted` follows from an invariant per counter, each less what the responses
added to it (`ReadAccounted`; a parsed line adds one to exactly one outcome,
`OneMoreParsed`, and a response to both sides, `ResponseAccounted`), and one for the sum
(`LostCounted`): the ticks a queue has lost grow by what its overflow adds, and a
tick taken from a queue loses none (`LostFollows`).

`FeedProofs`, the builder. `BarsAreHistory` compares with a reference that looks at
all ticks at once, so the proof is about how that reference grows by a tick.
Timestamps may go back; the bar of a tick is that of the latest time seen, which
does not (`TopGrows`, `BarsOf`), so a new tick either joins the newest bar or
begins a later one (`StartsOf`), and every other bar keeps its members. For the
newest bar, open, close, high, low and volume are extended by one tick each
(`SameBar`); `Book` says that a list of bars is that of the newest periods, in order
and none missing, and has a lemma for a bar appended to the deque, which may drop
its oldest, and one for a bar updated. `Cut` is that invariant for one timeframe,
`CutIsHistory` derives the property from it. `SnapshotSound` needs that VWAP and
price history are those of the running session *before* a snapshot is offered
(`SessionKept`), that no ATR can be without a value once the buffers are warm
(`RangesKept`), and that the CVD ring changes session only across a marker
(`Averages`). `MarketInv` is all of it; TLC checked it as an invariant of the run
`market` first.

`SignalProofs`, the engines. `AlwaysPlainMean` says what the fusion gives in place of
the sum that `composite_is_sum` refutes. It has a small invariant, that no
outcome tells the strategies apart; then the weighted mean is the plain one
because a common factor cancels in the rounded quotient (`PlainMean`), each engine
gives at most 60, rounding is monotone, and the largest multiplier leaves the score
at 63 or below. `Mirrored` holds of every chart, not only of those a behaviour reaches:
a lemma per detector shows that its SHORT branch does to the mirror image what its
LONG branch does to the chart. They rest on the mirror image of a window, of all
bars but the last and of a sum of volumes (`MirrorSubSeq`, `MirrorRecent`,
`MirrorFront`, `MirrorTotal`), on swing highs being the swing lows upside down
(`MirrorSwings`), and for the momentum on gains and losses changing places and
not both vanishing on closes that move (`MirrorGains`, `GainsAreNat`). The ribbon
is compared after as many updates: an update with the mirrored close takes the
mirrored ribbon to the mirror image of the updated one (`MirrorUpdate`), whatever the
ribbon, so by the steps of a behaviour the two stay mirror images; and the points of
one are those of the other (`MirrorTrend`), before and after the warm-up and without an
ATR. The ribbon's own type, four integers over a unit, is the only invariant that
takes. The alphas are any four fractions above 0 and at most 1 over one unit. The windows
are any positive numbers; the sweep reads two bars, so its window is longer
than one (`ScoringAssumption`).

`DeskProofs`. The token buckets need an invariant of their own, `BucketOK`, which
bounds what a bucket holds by the commands it granted and the time since, on
both sides: from above, so that no window exceeds `BucketBound`; from below, so
that a refusal is earned. A bucket that is not there is as good as a full one,
which is what makes the clean-up harmless; here `IdleFor >= Window` is used.
Refill, consumption and forgetting are one lemma each over a single bucket. The
stamps of the alert window are the last alerts sent, in order, and those it
dropped are older than the window (`StampsAreLast`), so their number is that of the
alerts in the window. `ConfirmedOnce` needs that a pending request is the last
thing its user did (`RequestsKnown`).

What the proofs changed in the models, each time because an obligation could not
be proved: two guards of a CASE in `PositionLifecycle` overlapped; a dispatch
named "free" would have passed for a free lock; a union in `InboundLink` was read
in another way by the prover than by TLC; a trade closed at exactly 0 is no loss,
so the drift check may speak without one.

The type invariants are proved, and run only where they say more than types. The
safety properties, of states and of steps, that the passing runs check are all
proved.

Only model-checked: liveness (`EveryPositionReached`, `TriggerHalts`,
`BreachAnswered`, `HaltEnds`, `ClosedLeaves`, `TicksServed`, `LinkSettles`,
`CommandsLeave`) and the fairness part of the refinements, which the prover cannot
treat. `score_liquidity`, `score_killzone` and `cvd_pts` are in no statement about
mirror images; the sorting and the folds of `_find_equal_levels` compute what only
an induction over data could say.

## 5. What is not modelled

* Checks 5 to 8 of the risk governor, lot sizing and basket risk: arithmetic of
  one order; they are a free choice of `TradingCore`. As wired they refuse every
  order (see above).
* The paper commander and `execution/leverage.py`: an immediate answer and a pure function.
* `regime/`: numeric code that no path of `main.py` calls; which mode a selector
  chooses; the z-score of the CVD, which is an input of `Scoring`;
  `scoring/mpp/footprint.py`, called by nobody.
* Telegram output, rendering of reports, metrics, `bridge/health.py`, the audit
  log and sanitisation: text and I/O, read by nothing that is modelled.
* The statistics of `db/reader.py`, the tables that `main.py` fills with nothing,
  and the pool, which never makes a task wait here.
* `max_profit`, `force_close` and `exit_engine.py` of `positions/`: written or
  defined, used by nothing outside tests. The equity tracker: started by nobody.
* The broker's own view of a position, which needs a model of the expert advisor:
  its exits, its risk check and its tracker.
* A row of the journal torn in the middle by a failure of the machine.
* Two hazards of PROJECT.json have no property: that a halt also stops the exits
  (point 4 of the plan) and that an unsent close is booked (it takes the broker's view).
* Shutdown: `main.py` cancels the tasks and closes the pipes in any state.

## 6. Plan

1. *Done*: `NuclearController`, `TradingCore`, `PositionLifecycle`,
   `ConfluenceGate`, `ExecutionPort`, `OrderExecution` with the proofs above.
2. *Done*: `Watchdog`, `InboundLink`, `PipeLink`, `TradeStore`, `OperatorDesk`,
   `MarketData`, `Scoring`, model-checked.
3. *Done*: the safety properties of `PositionLifecycle`, `PipeLink`, `TradeStore`,
   `InboundLink`, `OperatorDesk`, `MarketData` and `Scoring` proved.
4. A composition of `PositionLifecycle` with the guardian: a halt returns before
   `process_tick`, so stops of open positions are not watched during it.
5. A composition of `TradingCore` with `ExecutionPort` in place of its free
   choice between `OpenFilled` and `OpenFailed`, so that the orders the broker
   holds can be compared with the portfolio.
6. The arithmetic of the risk governor: basket risk and lot sizing against
   reference definitions.
