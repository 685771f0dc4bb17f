------------------------------ MODULE MarketData ------------------------------
(***************************************************************************)
(* The builder of one instrument: data/snapshot_builder.py hands each tick *)
(* to the bar aggregator, the session VWAP, the CVD ring buffer and the    *)
(* two ATRs, and asks the regime classifier of data/regime.py once the     *)
(* buffers are warm.                                                       *)
(*                                                                         *)
(* Bars are cut by the timestamp of the tick, sessions by the wall clock   *)
(* when it is processed: two clocks that nothing keeps together. A tick    *)
(* may be older than the one before it.                                    *)
(*                                                                         *)
(* Time is in minutes, a price is a positive number standing for the mid.  *)
(* A CVD value is the session it was read in, an entry of the moving       *)
(* average the sessions that have a part in it, a marker neither; of an    *)
(* ATR only whether it has its average yet, and is positive, is kept:      *)
(* _true_range is given no previous close, and is never below bar.high.    *)
(***************************************************************************)
EXTENDS Integers, Sequences, FiniteSetsExt

CONSTANTS
  Sessions,     \* names get_current_session returns
  Quotes,       \* price and tick_volume of a tick
  FirstTicks,   \* timestamps of the first tick
  Advances,     \* from one timestamp to the next
  MaxSize,      \* max_size of the bar buffer of a timeframe
  RingSize,     \* CVD_RING_BUFFER_SIZE
  PriceWindow,  \* prices kept for the divergence
  Period,       \* of both ATRs
  WarmM1, WarmM5,  \* bars wanted before a snapshot
  MaxTicks,     \* bound of the model: ticks
  MaxChanges    \* bound of the model: session changes of the wall clock

Timeframes == {"M1", "M3", "M5"}
TIMEFRAME == [M1 |-> 1, M3 |-> 3, M5 |-> 5]

Marker == "marker"

(* 14 true ranges, 20 and 14 bars, buffers of 300 and 100 bars. With one   *)
(* M5 bar there might be no M3 bar yet.                                    *)
ASSUME MarketAssumption ==
  /\ {RingSize, PriceWindow, WarmM1, WarmM5} \subseteq Nat \ {0}
  /\ MaxSize \in [Timeframes -> Nat \ {0}]
  /\ Period \in 1..WarmM1 /\ Period \in 1..WarmM5 /\ WarmM5 > 1
  /\ WarmM1 <= MaxSize["M1"] /\ WarmM5 <= MaxSize["M5"]
  /\ Marker \notin Sessions
  /\ Quotes \subseteq [price : Nat \ {0}, volume : Nat]
  /\ FirstTicks \subseteq Nat /\ Advances \subseteq Int

VARIABLES
  session,       \* what get_current_session returns now
  changes,       \* how often it changed
  open_bars,     \* per timeframe the bar in progress, or none
  buffers,       \* per timeframe the completed bars, oldest first
  vwap,          \* _cum_tp_volume, _cum_volume and _last_session
  cvd,           \* _buffer, _smoothed and _last_session of the CVD engine
  atr,           \* per ATR the true ranges gathered and _initialised
  price_history, \* of this session, newest last
  last_session,  \* _last_session of the builder
  offered,       \* the snapshot given to the classifier by the last tick, or none
  answer,        \* of the last tick: "none", "raised" or "snapshot"
  ticks          \* history: the ticks processed

market == <<session, changes, open_bars, buffers, vwap, cvd, atr, price_history, last_session,
          offered, answer, ticks>>

MarketInit ==
  /\ session \in Sessions
  /\ changes = 0
  /\ open_bars = [tf \in Timeframes |-> <<>>]
  /\ buffers = [tf \in Timeframes |-> <<>>]
  /\ vwap = [tp_volume |-> 0, volume |-> 0, of |-> {}]
  /\ cvd = [buffer |-> <<>>, smoothed |-> <<>>, of |-> {}]
  /\ atr = [tf \in {"M1", "M5"} |-> [ranges |-> 0, initialised |-> FALSE]]
  /\ price_history = <<>>
  /\ last_session = {}
  /\ offered = <<>>
  /\ answer = "none"
  /\ ticks = <<>>

-----------------------------------------------------------------------------
(* schema.py, aggregator.py *)

(* The newest n of a sequence: BarBuffer.append and a deque with maxlen.   *)
Newest(seq, n) == SubSeq(seq, IF Len(seq) > n THEN Len(seq) - n + 1 ELSE 1, Len(seq))

Snapped(ts, tf) == (ts \div TIMEFRAME[tf]) * TIMEFRAME[tf]

(* _OpenBar: the tick that opens a bar gives its prices and not its volume. *)
OpenBar(tick, tf) ==
  [open_ts |-> Snapped(tick.ts, tf), volume |-> 0,
   open |-> tick.price, high |-> tick.price, low |-> tick.price, close |-> tick.price]

Updated(bar, tick) ==
  [open_ts |-> bar.open_ts, volume |-> bar.volume + tick.volume,
   open |-> bar.open, high |-> Max({bar.high, tick.price}), low |-> Min({bar.low, tick.price}),
   close |-> tick.price]

(* Mutant: any other period closes the bar, an earlier one too.            *)
MutOtherPeriod(bar, tick, tf) == Snapped(tick.ts, tf) # bar.open_ts

(* A late tick closes nothing and goes to the bar in progress. *)
should_close(bar, tick, tf) == Snapped(tick.ts, tf) > bar.open_ts

Completed(tick) ==
  {tf \in Timeframes : open_bars[tf] # <<>> /\ should_close(open_bars[tf][1], tick, tf)}

Aggregate(tick) ==
  LET done == Completed(tick) IN
  /\ open_bars' = [tf \in Timeframes |->
       IF open_bars[tf] = <<>> \/ tf \in done
       THEN <<OpenBar(tick, tf)>> ELSE <<Updated(open_bars[tf][1], tick)>>]
  /\ buffers' = [tf \in Timeframes |->
       IF tf \in done THEN Newest(buffers[tf] \o open_bars[tf], MaxSize[tf]) ELSE buffers[tf]]

-----------------------------------------------------------------------------
(* vwap.py, cvd_engine.py, atr.py *)

(* Mutant: a tick without volume is skipped before the session is compared. *)
MutSkipsFirst(tick) ==
  LET fresh == tick.session \notin vwap.of
      tp == IF fresh THEN 0 ELSE vwap.tp_volume
      volume == IF fresh THEN 0 ELSE vwap.volume
  IN IF tick.volume = 0 THEN vwap
     ELSE [tp_volume |-> tp + tick.price * tick.volume,
           volume |-> volume + tick.volume, of |-> {tick.session}]

(* VWAPCalculator.update: a new session starts from nothing, a tick        *)
(* without volume adds nothing. The typical price of a tick is its mid.    *)
VwapUpdate(tick) ==
  LET fresh == tick.session \notin vwap.of
      tp == IF fresh THEN 0 ELSE vwap.tp_volume
      volume == IF fresh THEN 0 ELSE vwap.volume
  IN [tp_volume |-> tp + tick.price * tick.volume,
      volume |-> volume + tick.volume, of |-> {tick.session}]

(* CVDEngine.on_bar_close: a marker goes into both rings when the session  *)
(* is another one than at the last close, then the value. The average of a *)
(* marker, 0.0, and a value has a part in that value only.                 *)
on_bar_close(s) ==
  LET changed == cvd.of # {} /\ cvd.of # {s}
      buffer == IF changed THEN Newest(Append(cvd.buffer, Marker), RingSize) ELSE cvd.buffer
      smoothed == IF changed THEN Newest(Append(cvd.smoothed, {}), RingSize) ELSE cvd.smoothed
      before == IF smoothed = <<>> THEN {} ELSE smoothed[Len(smoothed)]
  IN [buffer |-> Newest(Append(buffer, s), RingSize),
      smoothed |-> Newest(Append(smoothed, before \union {s}), RingSize),
      of |-> {s}]

(* ATRCalculator.update: the first Period true ranges make the average. *)
AtrUpdate(a) ==
  IF a.initialised THEN a
  ELSE [ranges |-> a.ranges + 1, initialised |-> a.ranges + 1 = Period]

-----------------------------------------------------------------------------
(* snapshot_builder.py, regime.py *)

Latest(tf) == Newest(buffers'[tf], 1)

(* The snapshot before its regime is known. *)
Assembled(tick) ==
  [m1 |-> Latest("M1"), m3 |-> Latest("M3"), m5 |-> Latest("M5"),
   cvd_history |-> cvd'.buffer, vwap |-> vwap', session |-> tick.session,
   atr_1m |-> atr'["M1"].initialised, atr_5m |-> atr'["M5"].initialised]

(* RegimeClassifier.classify: without both ATRs the regime is CHOP. With   *)
(* them _compute_ema_separation asks for len(snap.m1), which is one bar    *)
(* and no list: TypeError, whatever the bar holds.                         *)
classify(snapshot) == IF snapshot.atr_1m /\ snapshot.atr_5m THEN "raised" ELSE "snapshot"

Warm == Len(buffers'["M1"]) >= WarmM1 /\ Len(buffers'["M5"]) >= WarmM5

(* SnapshotBuilder.on_tick. An exception leaves it after the updates; the  *)
(* loop of feed_router.py logs it and goes on with the next tick.          *)
on_tick(ts, quote) ==
  LET tick == [ts |-> ts, price |-> quote.price, volume |-> quote.volume, session |-> session]
      done == Completed(tick)
  IN /\ last_session' = {session}
     /\ price_history' =
          Newest(Append(IF last_session = {session} THEN price_history ELSE <<>>, tick.price),
                 PriceWindow)
     /\ Aggregate(tick)
     /\ vwap' = VwapUpdate(tick)
     /\ cvd' = IF "M1" \in done THEN on_bar_close(session) ELSE cvd
     /\ atr' = [tf \in {"M1", "M5"} |-> IF tf \in done THEN AtrUpdate(atr[tf]) ELSE atr[tf]]
     /\ offered' = IF Warm THEN <<Assembled(tick)>> ELSE <<>>
     /\ answer' = IF Warm THEN classify(Assembled(tick)) ELSE "none"
     /\ ticks' = Append(ticks, tick)
     /\ UNCHANGED <<session, changes>>

Timestamps ==
  IF ticks = <<>> THEN FirstTicks
  ELSE {Max({0, ticks[Len(ticks)].ts + a}) : a \in Advances}

TickArrives ==
  /\ Len(ticks) < MaxTicks
  /\ \E ts \in Timestamps, quote \in Quotes : on_tick(ts, quote)

(* get_current_session reads the wall clock. *)
SessionChanges ==
  /\ changes < MaxChanges
  /\ changes' = changes + 1
  /\ session' \in Sessions \ {session}
  /\ UNCHANGED <<open_bars, buffers, vwap, cvd, atr, price_history, last_session,
                 offered, answer, ticks>>

MarketNext == TickArrives \/ SessionChanges

MarketSpec == MarketInit /\ [][MarketNext]_market

-----------------------------------------------------------------------------
(* The reference: what the buffers should hold, said of the history alone. *)

Volumes(history) == [i \in DOMAIN history |-> history[i].volume]
Turnovers(history) == [i \in DOMAIN history |-> history[i].price * history[i].volume]

(* The bar a tick belongs to is that of the newest timestamp so far.       *)
BarOf(history, i, tf) == Snapped(Max({history[j].ts : j \in 1..i}), tf)
Starts(history, tf) == {BarOf(history, i, tf) : i \in DOMAIN history}
Members(history, start, tf) == {i \in DOMAIN history : BarOf(history, i, tf) = start}

ReferenceBar(history, start, tf) ==
  LET members == Members(history, start, tf)
      prices == {history[i].price : i \in members}
  IN [open_ts |-> start,
      open |-> history[Min(members)].price, close |-> history[Max(members)].price,
      high |-> Max(prices), low |-> Min(prices),
      volume |-> SumFunctionOnSet(Volumes(history), members \ {Min(members)})]

(* The ticks since the session last changed from one tick to the next.     *)
SessionTicks(history) ==
  LET n == Len(history) IN
  {i \in 1..n : \A j \in i..n : history[j].session = history[n].session}

-----------------------------------------------------------------------------
(* Properties *)

(* aggregator.py:99, "Prevents micro-gaps or overlaps in bar timing": with *)
(* late and missing ticks the bars of every timeframe are those of the     *)
(* history, aligned, in order, each period once, each tick in exactly one  *)
(* bar of each timeframe, whose volume lacks its first tick only; the      *)
(* buffer holds the newest completed ones and none is missing among them.  *)
BarsAreHistory ==
  \A tf \in Timeframes :
    LET starts == Starts(ticks, tf)
        bars == buffers[tf] \o open_bars[tf]
        kept == {bars[i].open_ts : i \in DOMAIN bars}
    IN /\ Cardinality(kept) = Len(bars)
       /\ Len(bars) = Min({Cardinality(starts), MaxSize[tf] + 1})
       /\ kept \subseteq starts /\ \A t \in starts \ kept, k \in kept : t < k
       /\ \A i \in DOMAIN bars : bars[i] = ReferenceBar(ticks, bars[i].open_ts, tf)
       /\ \A i, j \in DOMAIN bars : i < j => bars[i].open_ts < bars[j].open_ts

(* vwap.py:9, "using a continuous VWAP across session boundaries           *)
(* contaminates the calculation", and cvd_engine.py:6: what the classifier *)
(* is offered has its three bars and both ATRs, a VWAP and a price history *)
(* of the ticks of this session alone, and CVD values of two sessions only *)
(* with a marker between them; no average mixes two sessions, and it stays *)
(* beside the value it is subtracted from.                                 *)
SnapshotSound ==
  \A i \in DOMAIN offered :
    LET s == offered[i]
        h == s.cvd_history
    IN /\ s.m1 # <<>> /\ s.m3 # <<>> /\ s.m5 # <<>>
       /\ s.atr_1m /\ s.atr_5m
       /\ s.vwap.volume = SumFunctionOnSet(Volumes(ticks), SessionTicks(ticks))
       /\ s.vwap.tp_volume = SumFunctionOnSet(Turnovers(ticks), SessionTicks(ticks))
       /\ Len(price_history) = Min({PriceWindow, Cardinality(SessionTicks(ticks))})
       /\ \A k \in 1..Len(h) - 1 : Marker \in {h[k], h[k + 1]} \/ h[k] = h[k + 1]
       /\ Len(cvd.smoothed) = Len(h)
       /\ \A k \in DOMAIN h : cvd.smoothed[k] = {h[k]} \ {Marker}
=============================================================================
