------------------------------- MODULE Scoring -------------------------------
(***************************************************************************)
(* The three engines of scoring/ and their fusion, as functions of charts: *)
(* the structure engine hmp, the trend and liquidity engine hlcp and the   *)
(* footprint engine mpp score a direction, and fusion.py weighs the three. *)
(* Every detector of the code has a LONG and a SHORT branch written out    *)
(* apart from each other; so have the definitions here.                    *)
(*                                                                         *)
(* Prices are integers, and fractions are compared crosswise. The window   *)
(* lengths of the code are the fields of Span. What a snapshot holds       *)
(* beside its bars is an input: the price, the VWAP, the ATRs, and of the  *)
(* CVD its course and whether its z-score is beyond two. The engines are   *)
(* functions of these but for one: the trend engine keeps an EMA ribbon    *)
(* per symbol and feeds it whenever it scores a direction.                 *)
(*                                                                         *)
(* The charts are lists, as the engines and their tests take them; a chart *)
(* grows by a bar at a time. M1 and M3 have the same bars here, and M5 is  *)
(* some bars behind. Every closed trade is counted for the weights.        *)
(***************************************************************************)
EXTENDS Integers, SequencesExt

CONSTANTS
  Shapes,      \* the bars a chart is made of
  MaxBars,     \* bound of the model: bars of a chart
  MaxTrades,   \* bound of the model: closed trades
  MaxCycles,   \* bound of the model: snapshots scored
  Inputs,      \* what the snapshots considered hold beside their bars
  Span,        \* window lengths, see SpanAssumption
  Tolerance,   \* EQUAL_LEVEL_TOLERANCE
  Alphas,      \* the alphas of the four averages of the ribbon, ...
  AlphaUnit,   \* ... over this: 770, 495, 315 and 198 of 3465 in the code
  LeastThreshold   \* the least of REGIME_THRESHOLDS

(* wing 2, bos 10, confirm 8, confirm_look 15, swing_look 30, choch 10,    *)
(* choch_look 20, volume 20, fvg_look 20, ob 15, ob_volume 20, ob_look 30, *)
(* follow 3, tests 3, liquidity 10, liquidity_look 50, decay 10, rsi 7,    *)
(* cliff 3, bias 6, absorption 10, cvd 11, ribbon 34 in the code.          *)
ASSUME SpanAssumption ==
  \A f \in {"wing", "bos", "confirm", "confirm_look", "swing_look", "choch", "choch_look",
            "volume", "fvg_look", "ob", "ob_volume", "ob_look", "follow", "tests", "liquidity",
            "liquidity_look", "decay", "rsi", "cliff", "bias", "absorption", "cvd", "ribbon"} :
    Span[f] \in Nat \ {0}

REGIME_MULTIPLIERS == [TREND |-> 105, CHOP |-> 85, BREAKOUT |-> 100, REVERSAL |-> 90]

(* The least threshold in the code is 130, and a reclaim takes two bars.   *)
ASSUME ScoringAssumption ==
  /\ Span.absorption > 1
  /\ Shapes \subseteq [open : Int, high : Int, low : Int, close : Int, volume : Nat]
  /\ LeastThreshold \in Int /\ LeastThreshold > 63
  /\ AlphaUnit \in Nat \ {0} /\ Alphas \in [1..4 -> 1..AlphaUnit]
  /\ MaxCycles \in Nat
  /\ \A i \in Inputs :
       /\ {i.price, i.vwap} \subseteq Int /\ {i.atr_1m, i.atr_5m, i.lag} \subseteq Nat
       /\ i.regime \in DOMAIN REGIME_MULTIPLIERS

Strategies == {"HMP", "HLCP", "MPP"}

VARIABLES
  chart,      \* the bars, oldest first
  outcomes,   \* outcomes[s]: alpha and beta of the strategy in strategy_weights
  ribbon_calc \* the EMARibbonCalculator of the symbol

scoring == <<chart, outcomes, ribbon_calc>>

-----------------------------------------------------------------------------
(* schema.py *)

Abs(x) == IF x < 0 THEN -x ELSE x
Recent(bars, n) == SubSeq(bars, IF Len(bars) > n THEN Len(bars) - n + 1 ELSE 1, Len(bars))
Total(bars) == SumFunction([i \in DOMAIN bars |-> bars[i].volume])

is_bullish(bar) == bar.close > bar.open
is_bearish(bar) == bar.close < bar.open
body(bar) == Abs(bar.close - bar.open)
upper_wick(bar) == bar.high - Max({bar.open, bar.close})
lower_wick(bar) == Min({bar.open, bar.close}) - bar.low

-----------------------------------------------------------------------------
(* scoring/hmp *)

(* The last bar whose high is above those of Span.wing bars on each side;  *)
(* its high, or nothing.                                                   *)
SwingHigh(bars, lookback) ==
  LET s == Recent(bars, lookback)
      swings == {i \in Span.wing + 1..Len(s) - Span.wing :
                   \A j \in (i - Span.wing..i + Span.wing) \ {i} : s[j].high < s[i].high}
  IN {s[i].high : i \in {k \in swings : \A j \in swings : j <= k}}

SwingLow(bars, lookback) ==
  LET s == Recent(bars, lookback)
      swings == {i \in Span.wing + 1..Len(s) - Span.wing :
                   \A j \in (i - Span.wing..i + Span.wing) \ {i} : s[j].low > s[i].low}
  IN {s[i].low : i \in {k \in swings : \A j \in swings : j <= k}}

(* The bars before the last one have a swing that its close has broken. *)
Broken(bars, lookback, direction) ==
  LET close == bars[Len(bars)].close IN
  \/ direction = "LONG" /\ \E swing \in SwingHigh(Front(bars), lookback) : close > swing
  \/ direction = "SHORT" /\ \E swing \in SwingLow(Front(bars), lookback) : close < swing

_check_m3_bos(m3, direction) ==
  Len(m3) >= Span.confirm /\ Broken(Recent(m3, Span.confirm_look), Span.swing_look, direction)

(* detect_bos and its points: 20 with momentum above 0.7, else 10; 8 less  *)
(* without M3.                                                             *)
bos_pts(m5, m3, direction, atr) ==
  IF Len(m5) < Span.bos \/ atr = 0 \/ ~Broken(m5, Span.swing_look, direction) THEN 0
  ELSE LET close == m5[Len(m5)].close
           swings == IF direction = "LONG" THEN SwingHigh(Front(m5), Span.swing_look)
                     ELSE SwingLow(Front(m5), Span.swing_look)
           base == IF \E swing \in swings : 10 * Abs(close - swing) > 7 * atr THEN 20 ELSE 10
       IN IF _check_m3_bos(m3, direction) THEN base ELSE Max({0, base - 8})

_m5_confirms(m5, level, direction) ==
  /\ Len(m5) >= 2
  /\ IF direction = "LONG" THEN m5[Len(m5)].close > level ELSE m5[Len(m5)].close < level

(* More than 1.2 times the average of the bars before the last. *)
HighVolume(bars) ==
  /\ Len(bars) > Span.volume
  /\ LET sum == Total(Recent(Front(bars), Span.volume)) IN
     sum > 0 /\ 10 * bars[Len(bars)].volume * Span.volume > 12 * sum

(* detect_choch and its points: a wick alone is low quality and gets none. *)
choch_pts(m3, m5, direction) ==
  IF Len(m3) < Span.choch THEN 0
  ELSE LET close == m3[Len(m3)].close
           levels == IF direction = "LONG"
                     THEN {l \in SwingHigh(Front(m3), Span.choch_look) : close > l}
                     ELSE {l \in SwingLow(Front(m3), Span.choch_look) : close < l}
       IN IF levels = {} THEN 0
          ELSE IF HighVolume(m3) /\ \A l \in levels : _m5_confirms(m5, l, direction)
          THEN 15 ELSE 8

(* Mutant: a bearish gap is unfilled until price reaches its lower end.    *)
MutLowerEnd(m3, price, direction) ==
  LET s == Recent(m3, Span.fvg_look) IN
  {Abs(price - IF direction = "LONG" THEN s[i].high ELSE s[i].low) :
     i \in {k \in 1..Len(s) - 2 :
       \/ direction = "LONG" /\ s[k + 2].low > s[k].high /\ price > s[k].high
       \/ direction = "SHORT" /\ s[k + 2].high < s[k].low /\ price < s[k + 2].high}}

(* _check_fvg: how far the price is from the unfilled gaps of three bars. *)
UnfilledGaps(m3, price, direction) ==
  LET s == Recent(m3, Span.fvg_look) IN
  {Abs(price - IF direction = "LONG" THEN s[i].high ELSE s[i].low) :
     i \in {k \in 1..Len(s) - 2 :
       \/ direction = "LONG" /\ s[k + 2].low > s[k].high /\ price > s[k].high
       \/ direction = "SHORT" /\ s[k + 2].high < s[k].low /\ price < s[k].low}}

fvg_pts(m3, price, atr, direction) ==
  LET gaps == UnfilledGaps(m3, price, direction) IN
  IF Len(m3) < 3 \/ atr = 0 \/ gaps = {} THEN 0
  ELSE IF 2 * Min(gaps) < atr THEN 15 ELSE IF 2 * Min(gaps) < 3 * atr THEN 7 ELSE 0

(* _find_bullish_ob, _find_bearish_ob: the last bar against the direction  *)
(* that Span.follow bars with it follow and whose zone the price is near.  *)
BullishBlocks(s, price) ==
  {i \in 3..Len(s) - Span.follow :
     /\ is_bearish(s[i])
     /\ \A j \in i + 1..i + Span.follow : is_bullish(s[j])
     /\ price >= s[i].close
     /\ price <= s[i].open + (s[i].open - s[i].close) * 2}

BearishBlocks(s, price) ==
  {i \in 3..Len(s) - Span.follow :
     /\ is_bullish(s[i])
     /\ \A j \in i + 1..i + Span.follow : is_bearish(s[j])
     /\ price <= s[i].close
     /\ price >= s[i].open - (s[i].close - s[i].open) * 2}

_count_ob_tests(after, top, bottom) ==
  Cardinality({k \in DOMAIN after : after[k].low <= top /\ after[k].high >= bottom})

ob_pts(m5, price, direction) ==
  LET s == Recent(m5, Span.ob_look)
      blocks == IF direction = "LONG" THEN BullishBlocks(s, price) ELSE BearishBlocks(s, price)
      i == Max(blocks)
      tests == _count_ob_tests(SubSeq(s, i + Span.follow + 1, Len(s)),
                               Max({s[i].open, s[i].close}), Min({s[i].open, s[i].close}))
      recent == Recent(m5, Span.ob_volume)
  IN IF Len(m5) < Span.ob \/ blocks = {} THEN 0
     ELSE IF /\ tests < Span.tests /\ Total(recent) > 0
             /\ 10 * s[i].volume * Len(recent) > 6 * Total(recent)
     THEN 10 ELSE 4

calculate_hmp(m3, m5, price, atr, direction) ==
  Min({60, bos_pts(m5, m3, direction, atr) + choch_pts(m3, m5, direction)
           + fvg_pts(m3, price, atr, direction) + ob_pts(m5, price, direction)})

-----------------------------------------------------------------------------
(* scoring/hlcp *)

(* EMARibbonCalculator.update: the first close starts the four averages;   *)
(* average k is emas[k] / unit.                                            *)
update(ribbon, close) ==
  IF ribbon.bar_count = 0
  THEN [bar_count |-> 1, unit |-> 1, emas |-> [k \in 1..4 |-> close]]
  ELSE [bar_count |-> ribbon.bar_count + 1,
        unit |-> ribbon.unit * AlphaUnit,
        emas |-> [k \in 1..4 |-> ribbon.emas[k] * (AlphaUnit - Alphas[k])
                                + ribbon.unit * (close * Alphas[k])]]

(* The neighbours among the four averages that are in order. *)
Ordered(emas, direction) ==
  {i \in 1..3 : IF direction = "LONG" THEN emas[i] > emas[i + 1] ELSE emas[i] < emas[i + 1]}

full_alignment(ribbon, direction) == Ordered(ribbon.emas, direction) = 1..3
partial_alignment(ribbon, direction) == \E i, j \in Ordered(ribbon.emas, direction) : i # j

(* The slope strength, the distance of the outer averages over the ATR, is *)
(* above n / d; without an ATR it is zero.                                 *)
Steeper(ribbon, atr, n, d) ==
  atr > 0 /\ d * Abs(ribbon.emas[1] - ribbon.emas[4]) > n * (atr * ribbon.unit)

score_trend_alignment(ribbon, atr, direction) ==
  IF full_alignment(ribbon, direction)
  THEN IF Steeper(ribbon, atr, 3, 4) THEN 25 ELSE IF Steeper(ribbon, atr, 2, 5) THEN 18 ELSE 10
  ELSE IF partial_alignment(ribbon, direction) THEN 12 ELSE 0

(* The calculator has no state to give before it was fed Span.ribbon times. *)
trend_pts(ribbon, atr, direction) ==
  IF ribbon.bar_count < Span.ribbon THEN 0 ELSE score_trend_alignment(ribbon, atr, direction)

(* _find_equal_levels: clusters, from the lowest price up, of what is      *)
(* within the tolerance of the first; those of two or more.                *)
_find_equal_levels(prices) ==
  LET Gather(clusters, p) ==
        IF clusters # <<>> /\ p - clusters[Len(clusters)][1] <= Tolerance
        THEN [clusters EXCEPT ![Len(clusters)] = Append(@, p)]
        ELSE Append(clusters, <<p>>)
  IN {c \in ToSet(FoldLeft(Gather, <<>>, SortSeq(prices, <))) : Len(c) >= 2}

(* map_liquidity: the level of a cluster is its average; its distance in   *)
(* the direction of the trade, times the size of the cluster.              *)
Voids(m5, price, direction) ==
  LET s == Recent(m5, Span.liquidity_look)
      levels == _find_equal_levels([i \in DOMAIN s |->
                  IF direction = "LONG" THEN s[i].high ELSE s[i].low])
      Distance(c) == LET d == FoldLeft(+, 0, c) - price * Len(c) IN
                     IF direction = "LONG" THEN d ELSE -d
  IN {[distance |-> Distance(c), size |-> Len(c)] : c \in {k \in levels : Distance(k) > 0}}

(* The nearest level decides: 20, 12 or 6 within one, two or three ATRs. *)
score_liquidity(m5, price, atr, direction) ==
  LET voids == IF Len(m5) < Span.liquidity \/ atr = 0 THEN {} ELSE Voids(m5, price, direction)
      Within(n) == \E v \in voids : v.distance < n * atr * v.size
  IN IF Within(1) THEN 20 ELSE IF Within(2) THEN 12 ELSE IF Within(3) THEN 6 ELSE 0

(* _rsi7: with no loss among the closes it is 100, also when none moved.   *)
Gains(closes) ==
  SumFunction([i \in 1..Len(closes) - 1 |-> Max({closes[i + 1] - closes[i], 0})])
Losses(closes) ==
  SumFunction([i \in 1..Len(closes) - 1 |-> Max({closes[i] - closes[i + 1], 0})])
RsiCloses(m1) ==
  LET s == Recent(m1, Span.rsi + 1) IN [i \in DOMAIN s |-> s[i].close]

rsi_extreme(m1, direction) ==
  LET gain == Gains(RsiCloses(m1))
      loss == Losses(RsiCloses(m1))
  IN IF direction = "LONG"
     THEN loss = 0 \/ 100 * gain > 72 * (gain + loss)
     ELSE loss > 0 /\ 100 * gain < 28 * (gain + loss)

_volume_decaying(m1) ==
  LET s == Recent(m1, Span.cliff) IN
  Len(m1) > Span.cliff /\ \A i \in 2..Len(s) : s[i].volume < s[i - 1].volume

score_momentum_decay(m1, direction) ==
  LET extreme == Len(m1) > Span.rsi /\ rsi_extreme(m1, direction) IN
  IF Len(m1) < Span.decay THEN 0
  ELSE IF extreme /\ _volume_decaying(m1) THEN 15
  ELSE IF extreme THEN 8 ELSE IF _volume_decaying(m1) THEN 4 ELSE 0

score_killzone(session) == IF session \in {"LONDON", "OVERLAP"} THEN 5 ELSE 0

(* The ribbon is that of the symbol once the last bar was fed to it.       *)
calculate_hlcp(m1, m5, price, atr_1m, atr_5m, direction, ribbon, session) ==
  Min({60, trend_pts(ribbon, atr_1m, direction) + score_liquidity(m5, price, atr_5m, direction)
           + score_momentum_decay(m1, direction) + score_killzone(session)})

-----------------------------------------------------------------------------
(* scoring/mpp *)

(* detect_cvd_divergence: price against CVD over the window. A sharp       *)
(* divergence counts for the direction of the CVD, agreement for both.     *)
cvd_pts(m1, cvd, direction) ==
  LET price_up == m1[Len(m1)].close > m1[Len(m1) - Span.cvd + 1].close IN
  IF Len(m1) < Span.cvd THEN 0
  ELSE IF price_up = cvd.up THEN 12
  ELSE IF cvd.sharp /\ direction = (IF cvd.up THEN "LONG" ELSE "SHORT") THEN 25 ELSE 0

(* compute_session_bias: 0.67 of six bars are five bars. *)
bias_pts(m1, vwap, price, direction) ==
  LET s == Recent(m1, Span.bias)
      along == Cardinality({k \in DOMAIN s :
                 IF direction = "LONG" THEN is_bullish(s[k]) ELSE is_bearish(s[k])})
      vwap_aligned == IF direction = "LONG" THEN price > vwap ELSE ~(price > vwap)
      bar_aligned == 100 * along >= 67 * Span.bias
  IN IF Len(m1) < Span.bias \/ vwap = 0 THEN 0
     ELSE IF vwap_aligned /\ bar_aligned THEN 20
     ELSE IF vwap_aligned \/ bar_aligned THEN 9 ELSE 0

_detect_sweep_reclaim(bar, prev, direction) ==
  IF direction = "LONG" THEN bar.low < prev.low /\ bar.close > prev.low
  ELSE bar.high > prev.high /\ bar.close < prev.high

(* detect_absorption: the sum of the bars before the last is divided by    *)
(* Span.absorption also when they are one fewer.                           *)
abs_pts(m1, direction) ==
  LET bar == m1[Len(m1)]
      before == Total(Recent(Front(m1), Span.absorption))
      wick == IF direction = "LONG" THEN lower_wick(bar) ELSE upper_wick(bar)
  IN IF Len(m1) < Span.absorption THEN 0
     ELSE IF _detect_sweep_reclaim(bar, m1[Len(m1) - 1], direction) THEN 15
     ELSE IF before > 0 /\ bar.volume * Span.absorption > 2 * before /\ wick > 2 * body(bar)
     THEN 10
     ELSE IF 10 * bar.volume * Span.absorption > 18 * before THEN 6 ELSE 0

calculate_mpp(m1, price, vwap, cvd, direction) ==
  Min({60, cvd_pts(m1, cvd, direction) + bias_pts(m1, vwap, price, direction)
           + abs_pts(m1, direction)})

-----------------------------------------------------------------------------
(* scoring/fusion.py *)

(* round() of a quotient: the nearest integer, of two the even one. *)
Rounded(n, d) ==
  LET q == n \div d
      r == n % d
  IN IF 2 * r < d \/ (2 * r = d /\ q % 2 = 0) THEN q ELSE q + 1

(* get_normalized_weights: alpha / (alpha + beta), over a common denominator. *)
Weight(s, r, t) ==
  outcomes[s].alpha * (outcomes[r].alpha + outcomes[r].beta)
                    * (outcomes[t].alpha + outcomes[t].beta)

Composite(scores) ==
  LET hmp == Weight("HMP", "HLCP", "MPP")
      hlcp == Weight("HLCP", "HMP", "MPP")
      mpp == Weight("MPP", "HMP", "HLCP")
  IN Min({Rounded(hmp * scores.HMP + hlcp * scores.HLCP + mpp * scores.MPP,
                  hmp + hlcp + mpp), 180})

Price(i) == chart[Len(chart)].close + i.price
LaggedM5(i) == SubSeq(chart, 1, Len(chart) - i.lag)

(* What a call of calculate_hlcp makes of the ribbon. *)
Fed(ribbon) == update(ribbon, chart[Len(chart)].close)

(* What the three engines say of a snapshot: of LONG first, and then of    *)
(* SHORT, for which the ribbon is fed the same bar once more.              *)
EngineScores(i) ==
  LET Of(direction, ribbon) ==
        [HMP  |-> calculate_hmp(chart, LaggedM5(i), Price(i), i.atr_5m, direction),
         HLCP |-> calculate_hlcp(chart, LaggedM5(i), Price(i), i.atr_1m, i.atr_5m, direction,
                                 ribbon, i.session),
         MPP  |-> calculate_mpp(chart, Price(i), i.vwap, i.cvd, direction)]
  IN [LONG |-> Of("LONG", Fed(ribbon_calc)), SHORT |-> Of("SHORT", Fed(Fed(ribbon_calc)))]

score_confluence(engines, regime) ==
  LET long == Composite(engines.LONG)
      short == Composite(engines.SHORT)
  IN [direction |-> IF long >= short THEN "LONG" ELSE "SHORT",
      composite |-> Rounded(Max({long, short}) * REGIME_MULTIPLIERS[regime], 100)]

-----------------------------------------------------------------------------
(* BayesianWeightUpdater.update *)
Counted(row, won) == IF won THEN [row EXCEPT !.alpha = @ + 1] ELSE [row EXCEPT !.beta = @ + 1]

ScoringInit ==
  /\ chart = <<>>
  /\ outcomes = [s \in Strategies |-> [alpha |-> 1, beta |-> 1]]
  /\ ribbon_calc = [bar_count |-> 0, unit |-> 1, emas |-> [k \in 1..4 |-> 0]]

NewBar(bar) ==
  /\ Len(chart) < MaxBars
  /\ chart' = Append(chart, bar)
  /\ UNCHANGED <<outcomes, ribbon_calc>>

(* What score_confluence leaves behind when a snapshot was scored: the     *)
(* ribbon, fed by the call for LONG and by that for SHORT.                 *)
Scored ==
  /\ chart # <<>>
  /\ ribbon_calc.bar_count < 2 * MaxCycles
  /\ ribbon_calc' = Fed(Fed(ribbon_calc))
  /\ UNCHANGED <<chart, outcomes>>

Trades == outcomes["HMP"].alpha + outcomes["HMP"].beta - 2

(* PositionStateMachine._close: every strategy gets the outcome. *)
Closed(won) ==
  /\ Trades < MaxTrades
  /\ outcomes' = [s \in Strategies |-> Counted(outcomes[s], won)]
  /\ UNCHANGED <<chart, ribbon_calc>>

ScoringNext ==
  \/ \E bar \in Shapes : NewBar(bar)
  \/ Scored
  \/ \E won \in BOOLEAN : Closed(won)

ScoringSpec == ScoringInit /\ [][ScoringNext]_scoring

-----------------------------------------------------------------------------
(* The chart and the ribbon turned upside down. *)
Mirror(bars) ==
  [i \in DOMAIN bars |-> [open |-> -bars[i].open, high |-> -bars[i].low, low |-> -bars[i].high,
                          close |-> -bars[i].close, volume |-> bars[i].volume]]
MirrorRibbon(ribbon) == [ribbon EXCEPT !.emas = [k \in 1..4 |-> -ribbon.emas[k]]]

(* What favours LONG on a chart favours SHORT as much on its mirror image: *)
(* the two branches that every detector of scoring/ writes out apart from  *)
(* each other agree, in how they read swings, gaps, blocks, sweeps, volume *)
(* and momentum, and the ribbon that the mirrored closes were fed to is    *)
(* the mirror image after every update, and gets the same points. Where    *)
(* the code itself is lopsided is left out. fusion.py scores LONG first,   *)
(* so that SHORT sees the ribbon one update later: the branches are        *)
(* compared after as many updates. Levels of equal highs and lows are      *)
(* gathered from the lowest price up, a price on the VWAP and a CVD that   *)
(* stands still count as below and down, and with no close moving the RSI  *)
(* is 100.                                                                 *)
Mirrored ==
  chart # <<>> => \A i \in Inputs :
    LET m5 == LaggedM5(i)
        price == Price(i)
        moved == \E k \in DOMAIN RsiCloses(chart) : RsiCloses(chart)[k] # RsiCloses(chart)[1]
        mirrored == update(MirrorRibbon(ribbon_calc), -chart[Len(chart)].close)
    IN /\ calculate_hmp(chart, m5, price, i.atr_5m, "LONG")
            = calculate_hmp(Mirror(chart), Mirror(m5), -price, i.atr_5m, "SHORT")
       /\ mirrored = MirrorRibbon(Fed(ribbon_calc))
       /\ trend_pts(Fed(ribbon_calc), i.atr_1m, "LONG") = trend_pts(mirrored, i.atr_1m, "SHORT")
       /\ moved => score_momentum_decay(chart, "LONG") = score_momentum_decay(Mirror(chart), "SHORT")
       /\ price # i.vwap =>
            bias_pts(chart, i.vwap, price, "LONG") = bias_pts(Mirror(chart), -i.vwap, -price, "SHORT")
       /\ abs_pts(chart, "LONG") = abs_pts(Mirror(chart), "SHORT")

(* fusion.py, "H_c (winning direction) = sum of all three strategy scores  *)
(* (max 180)", before the multiplier of the regime.                        *)
CompositeIsSum ==
  chart # <<>> => \A i \in Inputs : \A engines \in {EngineScores(i)} :
    LET fused == score_confluence(engines, i.regime)
        won == engines[fused.direction]
    IN fused.composite
         = Rounded(Min({won.HMP + won.HLCP + won.MPP, 180}) * REGIME_MULTIPLIERS[i.regime], 100)

(* What the fusion gives instead of the sum: the plain mean of the three   *)
(* engines on the better side, whatever trades were won and lost, since    *)
(* every close counts for all strategies and the weights never tell them   *)
(* apart. It stays below the least threshold of the gate.                  *)
FusedIsPlainMean ==
  chart # <<>> => \A i \in Inputs : \A engines \in {EngineScores(i)} :
    LET Mean(scores) == Rounded(scores.HMP + scores.HLCP + scores.MPP, 3)
        fused == score_confluence(engines, i.regime)
        mean == Mean(engines[fused.direction])
    IN /\ fused.composite = Rounded(mean * REGIME_MULTIPLIERS[i.regime], 100)
       /\ \A direction \in DOMAIN engines : Mean(engines[direction]) <= mean
       /\ fused.composite < LeastThreshold
=============================================================================
