------------------------------ MODULE SignalProofs ------------------------------
(* Safety of the scores for any charts, windows and closed trades, and of  *)
(* the confluence gate for any symbols, scores and thresholds and any      *)
(* cooldown and decay. The lemmas on sums and finite sets are those of     *)
(* FeedProofs.                                                             *)
EXTENDS Scoring, ConfluenceGate, FeedProofs

-----------------------------------------------------------------------------
(* The scoring engines                                                     *)

(* The quotient and the remainder of a division are its only ones.         *)
LEMMA Division ==
  ASSUME NEW d \in Nat \ {0}, NEW q \in Nat, NEW r \in Nat, r < d
  PROVE  (d * q + r) \div d = q /\ (d * q + r) % d = r
<1> DEFINE a == d * q + r
           p == a \div d
           s == a % d
<1>1. a \in Nat
  OBVIOUS
<1>2. p \in Nat /\ s \in Nat /\ s < d /\ a = d * p + s
  BY <1>1
<1>3. d * q + r = d * p + s
  BY <1>2
<1> HIDE DEF p, s, a
<1>4. p = q
  <2>1. CASE p > q
    <3>1. d * (p - q) >= d
      BY <1>2, <2>1
    <3> QED
      BY <1>2, <1>3, <3>1
  <2>2. CASE q > p
    <3>1. d * (q - p) >= d
      BY <1>2, <2>2
    <3> QED
      BY <1>2, <1>3, <3>1
  <2> QED
    BY <1>2, <2>1, <2>2
<1> QED
  BY <1>2, <1>3, <1>4 DEF p, s, a

(* A common factor of a quotient is lost in rounding.                      *)
LEMMA RoundedThird ==
  ASSUME NEW w \in Nat \ {0}, NEW n \in Nat
  PROVE  Rounded(w * n, 3 * w) = Rounded(n, 3)
<1> DEFINE q == n \div 3
           r == n % 3
<1>1. q \in Nat /\ r \in {0, 1, 2} /\ n = 3 * q + r
  OBVIOUS
<1> HIDE DEF q, r
<1>2. /\ 3 * w \in Nat \ {0} /\ w * r \in Nat /\ w * r < 3 * w
  BY <1>1
<1>3. w * n = (3 * w) * q + w * r
  BY <1>1
<1>4. (w * n) \div (3 * w) = q /\ (w * n) % (3 * w) = w * r
  BY <1>1, <1>2, <1>3, Division
<1>5. /\ 2 * (w * r) < 3 * w <=> 2 * r < 3
      /\ 2 * (w * r) # 3 * w /\ 2 * r # 3
  BY <1>1
<1> QED
  BY <1>4, <1>5 DEF Rounded, q, r

(* What a strategy has won and lost.                                       *)
Results == [alpha : Nat \ {0}, beta : Nat \ {0}]
(* The bars of a chart.                                                    *)
Candle == [open : Int, high : Int, low : Int, close : Int, volume : Nat]

(* The state of an EMA ribbon. *)
Ribbon == [bar_count : Nat, unit : Nat, emas : [1..4 -> Int]]

(* No outcome tells the strategies apart. *)
ScoringInv ==
  /\ chart \in Seq(Candle) /\ ribbon_calc \in Ribbon
  /\ \E row \in Results : outcomes = [s \in Strategies |-> row]

(* An update keeps the averages whole numbers over their unit.             *)
LEMMA UpdateTyped ==
  ASSUME NEW ribbon \in Ribbon, NEW close \in Int
  PROVE  update(ribbon, close) \in Ribbon
<1>1. /\ ribbon.bar_count \in Nat /\ ribbon.unit \in Nat /\ AlphaUnit \in Nat
      /\ \A k \in 1..4 : ribbon.emas[k] \in Int /\ Alphas[k] \in Int
  BY ScoringAssumption DEF Ribbon
<1> DEFINE first == [k \in 1..4 |-> close]
           next == [k \in 1..4 |-> ribbon.emas[k] * (AlphaUnit - Alphas[k])
                                  + ribbon.unit * (close * Alphas[k])]
           unit == ribbon.unit * AlphaUnit
<1>2. \A e, b, u, c, a \in Int : e * (b - a) + u * (c * a) \in Int
  OBVIOUS
<1>3. first \in [1..4 -> Int] /\ next \in [1..4 -> Int]
  BY <1>1, <1>2
<1>4. unit \in Nat /\ ribbon.bar_count + 1 \in Nat
  BY <1>1
<1>5. update(ribbon, close)
        = IF ribbon.bar_count = 0 THEN [bar_count |-> 1, unit |-> 1, emas |-> first]
          ELSE [bar_count |-> ribbon.bar_count + 1, unit |-> unit, emas |-> next]
  BY DEF update
<1> HIDE DEF first, next, unit
<1> QED
  BY <1>3, <1>4, <1>5 DEF Ribbon

(* Bars are candles and all strategies have the same outcomes.             *)
LEMMA ScoringKept == ScoringSpec => []ScoringInv
<1>1. ScoringInit => ScoringInv
  <2> SUFFICES ASSUME ScoringInit PROVE ScoringInv
    OBVIOUS
  <2>1. [alpha |-> 1, beta |-> 1] \in Results
    BY DEF Results
  <2>2. ribbon_calc \in Ribbon
    BY DEF ScoringInit, Ribbon
  <2> QED
    BY <2>1, <2>2 DEF ScoringInit, ScoringInv
<1>2. ScoringInv /\ [ScoringNext]_scoring => ScoringInv'
  <2> SUFFICES ASSUME ScoringInv, [ScoringNext]_scoring PROVE ScoringInv'
    OBVIOUS
  <2>1. ASSUME NEW bar \in Shapes, NewBar(bar) PROVE ScoringInv'
    <3>1. bar \in Candle
      BY ScoringAssumption DEF Candle
    <3>2. chart' \in Seq(Candle)
      BY <2>1, <3>1, AppendProperties DEF NewBar, ScoringInv
    <3> QED
      BY <2>1, <3>2 DEF NewBar, ScoringInv
  <2>2. ASSUME NEW won \in BOOLEAN, Closed(won) PROVE ScoringInv'
    <3>1. PICK row \in Results : outcomes = [s \in Strategies |-> row]
      BY DEF ScoringInv
    <3>2. outcomes' = [s \in Strategies |-> Counted(row, won)]
      BY <2>2, <3>1 DEF Closed
    <3>3. Counted(row, won) \in Results
      <4>1. [row EXCEPT !.alpha = @ + 1] \in Results /\ [row EXCEPT !.beta = @ + 1] \in Results
        BY DEF Results
      <4> QED
        BY <4>1 DEF Counted
    <3> QED
      BY <2>2, <3>2, <3>3 DEF ScoringInv, Closed
  <2>3. CASE Scored
    <3>1. chart \in Seq(Candle) /\ chart # <<>> /\ ribbon_calc \in Ribbon
      BY <2>3 DEF Scored, ScoringInv
    <3>2. Len(chart) \in 1..Len(chart)
      BY <3>1, EmptySeq, LenProperties
    <3>3. chart[Len(chart)].close \in Int
      <4>1. chart[Len(chart)] \in Candle
        BY <3>1, <3>2, ElementOfSeq
      <4> QED
        BY <4>1 DEF Candle
    <3>4. Fed(ribbon_calc) \in Ribbon
      BY <3>1, <3>3, UpdateTyped DEF Fed
    <3>5. Fed(Fed(ribbon_calc)) \in Ribbon
      BY <3>3, <3>4, UpdateTyped DEF Fed
    <3> QED
      BY <2>3, <3>5 DEF ScoringInv, Scored
  <2>4. CASE UNCHANGED scoring
    BY <2>4 DEF ScoringInv, scoring
  <2> QED
    BY <2>1, <2>2, <2>3, <2>4 DEF ScoringNext
<1> QED
  BY <1>1, <1>2, PTL DEF ScoringSpec

-----------------------------------------------------------------------------
(* What the engines give.                                                  *)
Scores == [HMP : 0..60, HLCP : 0..60, MPP : 0..60]

(* Equal outcomes weigh the engines alike.                                 *)
LEMMA PlainMean ==
  ASSUME ScoringInv, NEW scores \in Scores
  PROVE  LET mean == Rounded(scores.HMP + scores.HLCP + scores.MPP, 3)
         IN  Composite(scores) = mean /\ mean \in 0..60
<1>1. PICK row \in Results : outcomes = [s \in Strategies |-> row]
  BY DEF ScoringInv
<1> DEFINE w == row.alpha * (row.alpha + row.beta) * (row.alpha + row.beta)
           x == scores.HMP
           y == scores.HLCP
           z == scores.MPP
           n == x + y + z
           mean == Rounded(n, 3)
<1>2. w \in Nat \ {0}
  <2>1. row.alpha \in Nat \ {0} /\ row.beta \in Nat \ {0}
    BY DEF Results
  <2>2. row.alpha + row.beta \in Nat \ {0}
    BY <2>1
  <2>3. \A a, b \in Nat \ {0} : a * b \in Nat \ {0}
    OBVIOUS
  <2>4. row.alpha * (row.alpha + row.beta) \in Nat \ {0}
    BY <2>1, <2>2, <2>3
  <2> QED
    BY <2>2, <2>3, <2>4
<1>3. \A s \in Strategies : outcomes[s] = row
  BY <1>1
<1>4. /\ Weight("HMP", "HLCP", "MPP") = w /\ Weight("HLCP", "HMP", "MPP") = w
      /\ Weight("MPP", "HMP", "HLCP") = w
  BY <1>3 DEF Weight, Strategies
<1>5. x \in 0..60 /\ y \in 0..60 /\ z \in 0..60
  BY DEF Scores
<1> HIDE DEF w, x, y, z
<1>6. w * x + w * y + w * z = w * n /\ w + w + w = 3 * w /\ n \in Nat /\ n <= 180
  BY <1>2, <1>5
<1>7. Rounded(w * n, 3 * w) = mean
  BY <1>2, <1>6, RoundedThird
<1>8. mean \in 0..60
  BY <1>6 DEF Rounded
<1> HIDE DEF n, mean
<1>9. Composite(scores) = Min({mean, 180})
  BY <1>4, <1>6, <1>7 DEF Composite, x, y, z
<1>10. Min({mean, 180}) = mean
  BY <1>8, MinOfTwo
<1> QED
  BY <1>8, <1>9, <1>10 DEF mean, n, x, y, z

(* Each engine gives sixty points at most.                                 *)
LEMMA AtMostSixty ==
  ASSUME NEW n \in Nat
  PROVE  Min({60, n}) \in 0..60
<1>1. 60 \in Int /\ n \in Int
  OBVIOUS
<1>2. Min({60, n}) = IF 60 <= n THEN 60 ELSE n
  BY <1>1, MinOfTwo
<1> QED
  BY <1>2

LEMMA StructureScores ==
  ASSUME NEW m3, NEW m5, NEW price, NEW range, NEW direction
  PROVE  calculate_hmp(m3, m5, price, range, direction) \in 0..60
<1>1. bos_pts(m5, m3, direction, range) \in Nat
  <2>1. Max({0, 20 - 8}) \in Nat /\ Max({0, 10 - 8}) \in Nat
    BY MaxOfTwo
  <2> QED
    BY <2>1 DEF bos_pts
<1>2. choch_pts(m3, m5, direction) \in Nat
  BY DEF choch_pts
<1>3. fvg_pts(m3, price, range, direction) \in Nat
  BY DEF fvg_pts
<1>4. ob_pts(m5, price, direction) \in Nat
  BY DEF ob_pts
<1> QED
  BY <1>1, <1>2, <1>3, <1>4, AtMostSixty DEF calculate_hmp

LEMMA TrendScores ==
  ASSUME NEW m1, NEW m5, NEW price, NEW short, NEW range, NEW direction, NEW ribbon, NEW s
  PROVE  calculate_hlcp(m1, m5, price, short, range, direction, ribbon, s) \in 0..60
<1>1. trend_pts(ribbon, short, direction) \in Nat
  BY DEF trend_pts, score_trend_alignment
<1>2. score_liquidity(m5, price, range, direction) \in Nat
  BY DEF score_liquidity
<1>3. score_momentum_decay(m1, direction) \in Nat
  BY DEF score_momentum_decay
<1>4. score_killzone(s) \in Nat
  BY DEF score_killzone
<1> QED
  BY <1>1, <1>2, <1>3, <1>4, AtMostSixty DEF calculate_hlcp

LEMMA FootprintScores ==
  ASSUME NEW m1, NEW price, NEW average, NEW course, NEW direction
  PROVE  calculate_mpp(m1, price, average, course, direction) \in 0..60
<1>1. cvd_pts(m1, course, direction) \in Nat
  BY DEF cvd_pts
<1>2. bias_pts(m1, average, price, direction) \in Nat
  BY DEF bias_pts
<1>3. abs_pts(m1, direction) \in Nat
  BY DEF abs_pts
<1> QED
  BY <1>1, <1>2, <1>3, AtMostSixty DEF calculate_mpp

LEMMA EnginesScore ==
  ASSUME NEW i
  PROVE  EngineScores(i) \in [{"LONG", "SHORT"} -> Scores]
<1>1. /\ EngineScores(i).LONG \in Scores /\ EngineScores(i).SHORT \in Scores
  BY StructureScores, TrendScores, FootprintScores DEF EngineScores, Scores
<1> QED
  BY <1>1 DEF EngineScores

(* The score of the better side is a mean of at most 60, times 1.05.       *)
LEMMA PlainFused ==
  ASSUME NEW x \in 0..60, NEW m \in {105, 85, 100, 90}
  PROVE  Rounded(x * m, 100) \in 0..63
<1> DEFINE y == x * m
<1>1. y \in Nat /\ y <= 6300
  OBVIOUS
<1> HIDE DEF y
<1>2. Rounded(y, 100) \in 0..63
  BY <1>1 DEF Rounded
<1> QED
  BY <1>2 DEF y

(* With equal weights the fusion is a mean.                                *)
LEMMA MeanFollows == ScoringInv => FusedIsPlainMean
<1> SUFFICES ASSUME ScoringInv, NEW i \in Inputs
             PROVE  LET engines == EngineScores(i)
                        Mean(scores) == Rounded(scores.HMP + scores.HLCP + scores.MPP, 3)
                        fused == score_confluence(engines, i.regime)
                        mean == Mean(engines[fused.direction])
                    IN  /\ fused.composite = Rounded(mean * REGIME_MULTIPLIERS[i.regime], 100)
                        /\ \A direction \in DOMAIN engines : Mean(engines[direction]) <= mean
                        /\ fused.composite < LeastThreshold
  BY DEF FusedIsPlainMean
<1> DEFINE engines == EngineScores(i)
           Mean(scores) == Rounded(scores.HMP + scores.HLCP + scores.MPP, 3)
           long == Mean(engines.LONG)
           short == Mean(engines.SHORT)
           m == REGIME_MULTIPLIERS[i.regime]
           fused == score_confluence(engines, i.regime)
<1>1. DOMAIN engines = {"LONG", "SHORT"} /\ engines.LONG \in Scores /\ engines.SHORT \in Scores
  BY EnginesScore
<1> HIDE DEF engines
<1>2. /\ Composite(engines.LONG) = long /\ Composite(engines.SHORT) = short
      /\ long \in 0..60 /\ short \in 0..60
  BY <1>1, PlainMean
<1> HIDE DEF Mean
<1>3. /\ fused.direction = IF long >= short THEN "LONG" ELSE "SHORT"
      /\ fused.composite = Rounded(Max({long, short}) * m, 100)
  BY <1>2 DEF score_confluence
<1>4. m \in {105, 85, 100, 90}
  BY ScoringAssumption DEF REGIME_MULTIPLIERS
<1> DEFINE best == Max({long, short})
<1>5. best = IF long <= short THEN short ELSE long
  <2>1. long \in Int /\ short \in Int
    BY <1>2
  <2> HIDE DEF long, short
  <2> QED
    BY <2>1, MaxOfTwo
<1>6. best \in 0..60
  BY <1>2, <1>5
<1>7. Mean(engines[fused.direction]) = best
  BY <1>2, <1>3, <1>5
<1>8. \A direction \in DOMAIN engines : Mean(engines[direction]) <= best
  BY <1>1, <1>2, <1>5
<1>9. fused.composite = Rounded(best * m, 100)
  BY <1>3
<1>10. LeastThreshold \in Int /\ LeastThreshold > 63
  BY ScoringAssumption
<1> HIDE DEF long, short, best, m, fused
<1>11. Rounded(best * m, 100) \in 0..63
  BY <1>4, <1>6, PlainFused
<1>12. fused.composite < LeastThreshold
  BY <1>9, <1>10, <1>11
<1>13. /\ fused.composite = Rounded(Mean(engines[fused.direction]) * m, 100)
       /\ \A direction \in DOMAIN engines :
            Mean(engines[direction]) <= Mean(engines[fused.direction])
       /\ fused.composite < LeastThreshold
  BY <1>7, <1>8, <1>9, <1>12, Zenon
<1> QED
  BY <1>13, Zenon DEF engines, fused, Mean, m

(* A bar upside down. *)
Flip(bar) == [open |-> -bar.open, high |-> -bar.low, low |-> -bar.high, close |-> -bar.close,
              volume |-> bar.volume]

(* What a bar upside down holds.                                           *)
LEMMA Flipped ==
  ASSUME NEW bar \in Candle
  PROVE  /\ Flip(bar) \in Candle
         /\ Flip(bar).open = -bar.open /\ Flip(bar).close = -bar.close
         /\ Flip(bar).high = -bar.low /\ Flip(bar).low = -bar.high
         /\ Flip(bar).volume = bar.volume
         /\ bar.open \in Int /\ bar.close \in Int /\ bar.high \in Int /\ bar.low \in Int
         /\ bar.volume \in Nat
BY DEF Flip, Candle

(* The mirror image has the bars upside down, in the same order.           *)
LEMMA MirrorOf ==
  ASSUME NEW bars \in Seq(Candle)
  PROVE  /\ Mirror(bars) \in Seq(Candle) /\ Len(Mirror(bars)) = Len(bars) /\ Len(bars) \in Nat
         /\ DOMAIN bars = 1..Len(bars) /\ DOMAIN Mirror(bars) = 1..Len(bars)
         /\ \A i \in 1..Len(bars) : bars[i] \in Candle /\ Mirror(bars)[i] = Flip(bars[i])
<1>1. /\ Len(bars) \in Nat /\ DOMAIN bars = 1..Len(bars) /\ \A i \in 1..Len(bars) : bars[i] \in Candle
  BY LenProperties, ElementOfSeq
<1>2. Mirror(bars) = [i \in 1..Len(bars) |-> Flip(bars[i])]
  BY <1>1 DEF Mirror, Flip
<1>3. \A i \in 1..Len(bars) : Flip(bars[i]) \in Candle
  BY <1>1, Flipped
<1>4. Mirror(bars) \in [1..Len(bars) -> Candle]
  BY <1>2, <1>3
<1>5. Mirror(bars) \in Seq(Candle) /\ Len(Mirror(bars)) = Len(bars)
  BY <1>1, <1>4, SeqDef
<1> QED
  BY <1>1, <1>2, <1>5

(* The mirror image of a part is the part of the mirror image.             *)
LEMMA MirrorSubSeq ==
  ASSUME NEW bars \in Seq(Candle), NEW m \in Int, NEW n \in Int, 1 <= m, n <= Len(bars)
  PROVE  /\ SubSeq(bars, m, n) \in Seq(Candle)
         /\ Len(SubSeq(bars, m, n)) = IF m <= n THEN n - m + 1 ELSE 0
         /\ SubSeq(Mirror(bars), m, n) = Mirror(SubSeq(bars, m, n))
<1> DEFINE a == SubSeq(bars, m, n)
           b == SubSeq(Mirror(bars), m, n)
           l == IF m <= n THEN n - m + 1 ELSE 0
<1>1. /\ Mirror(bars) \in Seq(Candle) /\ Len(bars) \in Nat
      /\ \A i \in 1..Len(bars) : bars[i] \in Candle /\ Mirror(bars)[i] = Flip(bars[i])
      /\ \A i \in 1..Len(bars) : Mirror(bars)[i] \in Candle
  BY MirrorOf, Flipped
<1>2. \A i \in m..n : i \in 1..Len(bars)
  BY <1>1
<1>3. /\ a \in Seq(Candle) /\ Len(a) = l
      /\ \A i \in 1..n - m + 1 : a[i] = bars[m + i - 1]
  BY <1>1, <1>2, SubSeqProperties
<1>4. /\ b \in Seq(Candle) /\ Len(b) = l
      /\ \A i \in 1..n - m + 1 : b[i] = Mirror(bars)[m + i - 1]
  BY <1>1, <1>2, SubSeqProperties
<1>5. /\ Mirror(a) \in Seq(Candle) /\ Len(Mirror(a)) = Len(a)
      /\ \A i \in 1..Len(a) : Mirror(a)[i] = Flip(a[i])
  BY <1>3, MirrorOf
<1> HIDE DEF a, b
<1>6. \A i \in 1..l : i \in 1..n - m + 1 /\ m + i - 1 \in 1..Len(bars)
  BY <1>1
<1> HIDE DEF l
<1>7. \A i \in 1..l : b[i] = Mirror(a)[i]
  BY <1>1, <1>3, <1>4, <1>5, <1>6
<1>8. b = Mirror(a)
  BY <1>3, <1>4, <1>5, <1>7, SeqEqual
<1> QED
  BY <1>3, <1>8 DEF a, b, l

(* So are the last bars, and all but the last, those of the mirror image.  *)
LEMMA MirrorRecent ==
  ASSUME NEW bars \in Seq(Candle), NEW n \in Nat \ {0}
  PROVE  /\ Recent(bars, n) \in Seq(Candle)
         /\ Recent(Mirror(bars), n) = Mirror(Recent(bars, n))
         /\ Len(Recent(bars, n)) = IF Len(bars) > n THEN n ELSE Len(bars)
<1> DEFINE l == Len(bars)
           m == IF l > n THEN l - n + 1 ELSE 1
<1>1. l \in Nat /\ Len(Mirror(bars)) = l
  BY MirrorOf
<1> HIDE DEF l
<1>2. m \in Int /\ 1 <= m /\ l <= l /\ l \in Int
  BY <1>1
<1>3. (IF m <= l THEN l - m + 1 ELSE 0) = IF l > n THEN n ELSE l
  BY <1>1
<1> HIDE DEF m
<1>4. /\ SubSeq(bars, m, l) \in Seq(Candle)
      /\ Len(SubSeq(bars, m, l)) = IF m <= l THEN l - m + 1 ELSE 0
      /\ SubSeq(Mirror(bars), m, l) = Mirror(SubSeq(bars, m, l))
  BY <1>2, MirrorSubSeq DEF l
<1>5. Recent(bars, n) = SubSeq(bars, m, l) /\ Recent(Mirror(bars), n) = SubSeq(Mirror(bars), m, l)
  BY <1>1 DEF Recent, l, m
<1> QED
  BY <1>3, <1>4, <1>5 DEF l

LEMMA MirrorFront ==
  ASSUME NEW bars \in Seq(Candle)
  PROVE  /\ Front(bars) \in Seq(Candle) /\ Front(Mirror(bars)) = Mirror(Front(bars))
         /\ Len(bars) # 0 => Len(Front(bars)) = Len(bars) - 1
<1>1. Len(bars) \in Nat /\ Len(Mirror(bars)) = Len(bars)
  BY MirrorOf
<1> DEFINE n == Len(bars) - 1
<1>2. n \in Int /\ n <= Len(bars) /\ 1 <= 1 /\ 1 \in Int
  BY <1>1
<1>3. (Len(bars) # 0) => (IF 1 <= n THEN n - 1 + 1 ELSE 0) = n
  BY <1>1
<1> HIDE DEF n
<1>4. /\ SubSeq(bars, 1, n) \in Seq(Candle)
      /\ Len(SubSeq(bars, 1, n)) = IF 1 <= n THEN n - 1 + 1 ELSE 0
      /\ SubSeq(Mirror(bars), 1, n) = Mirror(SubSeq(bars, 1, n))
  BY <1>2, MirrorSubSeq
<1>5. Front(bars) = SubSeq(bars, 1, n) /\ Front(Mirror(bars)) = SubSeq(Mirror(bars), 1, n)
  BY <1>1 DEF Front, n
<1> QED
  BY <1>3, <1>4, <1>5 DEF n

(* Volumes have no direction.                                              *)
LEMMA MirrorTotal ==
  ASSUME NEW bars \in Seq(Candle)
  PROVE  Total(Mirror(bars)) = Total(bars)
<1>1. /\ DOMAIN Mirror(bars) = DOMAIN bars
      /\ \A i \in DOMAIN bars : Mirror(bars)[i].volume = bars[i].volume
  BY MirrorOf, Flipped
<1>2. [i \in DOMAIN Mirror(bars) |-> Mirror(bars)[i].volume] = [i \in DOMAIN bars |-> bars[i].volume]
  BY <1>1
<1> QED
  BY <1>2 DEF Total

(* Distances have no direction.                                            *)
LEMMA MirrorAbs ==
  ASSUME NEW x \in Int, NEW y \in Int
  PROVE  Abs((-x) - (-y)) = Abs(x - y) /\ Abs(x) \in Nat
BY DEF Abs

(* A low of the mirror image is a high upside down.                        *)
LEMMA MirrorSwings ==
  ASSUME NEW bars \in Seq(Candle), NEW n \in Nat \ {0}
  PROVE  /\ SwingLow(Mirror(bars), n) = {-x : x \in SwingHigh(bars, n)}
         /\ SwingHigh(bars, n) \subseteq Int
<1> DEFINE s == Recent(bars, n)
           t == Recent(Mirror(bars), n)
           w == Span.wing
           l == Len(s)
           highs == {i \in w + 1..l - w : \A j \in (i - w..i + w) \ {i} : s[j].high < s[i].high}
           lows == {i \in w + 1..l - w : \A j \in (i - w..i + w) \ {i} : t[j].low > t[i].low}
           last == {k \in highs : \A j \in highs : j <= k}
<1>1. /\ s \in Seq(Candle) /\ t = Mirror(s)
  BY MirrorRecent
<1>2. /\ l \in Nat /\ Len(t) = l
      /\ \A i \in 1..l : s[i] \in Candle /\ t[i] = Flip(s[i])
  BY <1>1, MirrorOf
<1>3. w \in Nat \ {0}
  BY SpanAssumption
<1>4. /\ SwingHigh(bars, n) = {s[i].high : i \in last}
      /\ SwingLow(Mirror(bars), n) = {t[i].low : i \in {k \in lows : \A j \in lows : j <= k}}
  BY <1>2 DEF SwingHigh, SwingLow
<1> HIDE DEF s, t, w, l
<1>5. \A i \in 1..l : s[i].high \in Int /\ t[i].low = -s[i].high
  BY <1>2, Flipped
<1>6. \A i \in w + 1..l - w : i \in 1..l /\ \A j \in i - w..i + w : j \in 1..l
  BY <1>2, <1>3
<1>7. \A x, y \in Int : -x > -y <=> x < y
  OBVIOUS
<1>8. \A i \in w + 1..l - w : \A j \in i - w..i + w : t[j].low > t[i].low <=> s[j].high < s[i].high
  BY <1>5, <1>6, <1>7
<1>9. lows = highs
  BY <1>8
<1>10. \A i \in highs : i \in 1..l
  BY <1>6
<1> HIDE DEF lows, highs
<1>11. SwingLow(Mirror(bars), n) = {t[i].low : i \in last}
  BY <1>4, <1>9
<1>12. \A i \in last : i \in 1..l
  BY <1>10
<1> HIDE DEF last
<1>13. \A i \in last : s[i].high \in Int /\ t[i].low = -s[i].high
  BY <1>5, <1>12
<1>14. {s[i].high : i \in last} \subseteq Int
  BY <1>13
<1>15. {t[i].low : i \in last} = {-x : x \in {s[i].high : i \in last}}
  BY <1>13, Zenon
<1> QED
  BY <1>4, <1>11, <1>14, <1>15, Zenon

(* The windows the lemmas are about.                                       *)
LEMMA Spans ==
  /\ Span.wing \in Nat \ {0} /\ Span.bos \in Nat \ {0} /\ Span.confirm \in Nat \ {0}
  /\ Span.confirm_look \in Nat \ {0} /\ Span.swing_look \in Nat \ {0} /\ Span.choch \in Nat \ {0}
  /\ Span.choch_look \in Nat \ {0} /\ Span.volume \in Nat \ {0} /\ Span.fvg_look \in Nat \ {0}
  /\ Span.ob \in Nat \ {0} /\ Span.ob_volume \in Nat \ {0} /\ Span.ob_look \in Nat \ {0}
  /\ Span.follow \in Nat \ {0} /\ Span.tests \in Nat \ {0} /\ Span.decay \in Nat \ {0}
  /\ Span.rsi \in Nat \ {0} /\ Span.cliff \in Nat \ {0} /\ Span.bias \in Nat \ {0}
  /\ Span.absorption \in Nat \ {0} /\ Span.absorption > 1
BY SpanAssumption, ScoringAssumption

(* The last bar of the mirror image.                                       *)
LEMMA MirrorLast ==
  ASSUME NEW bars \in Seq(Candle), Len(bars) # 0
  PROVE  /\ Len(bars) \in 1..Len(bars) /\ Len(Mirror(bars)) = Len(bars)
         /\ bars[Len(bars)] \in Candle
         /\ Mirror(bars)[Len(bars)] = Flip(bars[Len(bars)])
         /\ bars[Len(bars)].close \in Int
         /\ Mirror(bars)[Len(bars)].close = -bars[Len(bars)].close
<1>1. Len(bars) \in 1..Len(bars)
  BY MirrorOf
<1> QED
  BY <1>1, MirrorOf, Flipped

(* A high is broken up where its mirror image is broken down.              *)
LEMMA MirrorBroken ==
  ASSUME NEW bars \in Seq(Candle), Len(bars) # 0, NEW n \in Nat \ {0}
  PROVE  Broken(Mirror(bars), n, "SHORT") <=> Broken(bars, n, "LONG")
<1> DEFINE c == bars[Len(bars)].close
           highs == SwingHigh(Front(bars), n)
           lows == SwingLow(Front(Mirror(bars)), n)
<1>1. c \in Int /\ Mirror(bars)[Len(Mirror(bars))].close = -c
  BY MirrorLast
<1>2. Front(bars) \in Seq(Candle) /\ Front(Mirror(bars)) = Mirror(Front(bars))
  BY MirrorFront
<1>3. lows = {-x : x \in highs} /\ highs \subseteq Int
  BY <1>2, MirrorSwings
<1> HIDE DEF lows, highs, c
<1>4. (\E x \in lows : -c < x) <=> (\E x \in highs : c > x)
  <2>1. \A x \in highs : (c > x) <=> (-c < -x)
    <3>1. \A x, y \in Int : (y > x) <=> (-y < -x)
      OBVIOUS
    <3>2. c \in Int /\ \A x \in highs : x \in Int
      BY <1>1, <1>3
    <3> QED
      BY <3>1, <3>2
  <2>2. ASSUME NEW x \in highs, c > x PROVE \E y \in lows : -c < y
    <3>1. -x \in lows /\ -c < -x
      BY <1>3, <2>1, <2>2
    <3> QED
      BY <3>1
  <2>3. ASSUME NEW y \in lows, -c < y PROVE \E x \in highs : c > x
    <3>1. PICK x \in highs : y = -x
      BY <1>3
    <3> QED
      BY <2>1, <2>3, <3>1
  <2> QED
    BY <2>2, <2>3
<1>5. /\ Broken(bars, n, "LONG") <=> \E x \in highs : c > x
      /\ Broken(Mirror(bars), n, "SHORT") <=> \E x \in lows : -c < x
  BY <1>1 DEF Broken, lows, highs, c
<1> QED
  BY <1>4, <1>5

(* detect_bos and its points.                                              *)
LEMMA MirrorBos ==
  ASSUME NEW m3 \in Seq(Candle), NEW m5 \in Seq(Candle), NEW a
  PROVE  bos_pts(Mirror(m5), Mirror(m3), "SHORT", a) = bos_pts(m5, m3, "LONG", a)
<1>1. /\ Len(Mirror(m5)) = Len(m5) /\ Len(m5) \in Nat
      /\ Len(Mirror(m3)) = Len(m3) /\ Len(m3) \in Nat
  BY MirrorOf
<1>2. _check_m3_bos(Mirror(m3), "SHORT") <=> _check_m3_bos(m3, "LONG")
  <2>1. CASE Len(m3) >= Span.confirm
    <3> DEFINE r == Recent(m3, Span.confirm_look)
    <3>1. /\ r \in Seq(Candle) /\ Recent(Mirror(m3), Span.confirm_look) = Mirror(r)
          /\ Len(r) # 0
      <4>1. /\ r \in Seq(Candle) /\ Recent(Mirror(m3), Span.confirm_look) = Mirror(r)
            /\ Len(r) = IF Len(m3) > Span.confirm_look THEN Span.confirm_look ELSE Len(m3)
        BY MirrorRecent, Spans
      <4>2. Len(m3) # 0 /\ Span.confirm_look # 0
        <5> DEFINE l == Len(m3)
                   w == Span.confirm
        <5>1. l \in Nat /\ w \in Nat \ {0} /\ l >= w
          BY <1>1, <2>1, Spans
        <5>2. Span.confirm_look # 0
          BY Spans
        <5> HIDE DEF l, w
        <5>3. l # 0
          BY <5>1
        <5> QED
          BY <5>2, <5>3 DEF l
      <4> HIDE DEF r
      <4> QED
        BY <4>1, <4>2
    <3>2. Broken(Mirror(r), Span.swing_look, "SHORT") <=> Broken(r, Span.swing_look, "LONG")
      BY <3>1, MirrorBroken, Spans
    <3> QED
      BY <1>1, <3>1, <3>2 DEF _check_m3_bos
  <2>2. CASE ~(Len(m3) >= Span.confirm)
    BY <1>1, <2>2 DEF _check_m3_bos
  <2> QED
    BY <2>1, <2>2
<1>3. CASE Len(m5) < Span.bos
  BY <1>1, <1>3 DEF bos_pts
<1>4. CASE ~(Len(m5) < Span.bos)
  <2> DEFINE n == Span.swing_look
             c == m5[Len(m5)].close
             highs == SwingHigh(Front(m5), n)
             lows == SwingLow(Front(Mirror(m5)), n)
  <2>1. Len(m5) # 0
    <3> DEFINE l == Len(m5)
               w == Span.bos
    <3>1. l \in Nat /\ w \in Nat \ {0} /\ ~(l < w)
      BY <1>1, <1>4, Spans
    <3> HIDE DEF l, w
    <3>2. l # 0
      BY <3>1
    <3> QED
      BY <3>2 DEF l
  <2>2. Broken(Mirror(m5), n, "SHORT") <=> Broken(m5, n, "LONG")
    BY <2>1, MirrorBroken, Spans
  <2>3. c \in Int /\ Mirror(m5)[Len(Mirror(m5))].close = -c
    BY <2>1, MirrorLast
  <2>4. Front(m5) \in Seq(Candle) /\ Front(Mirror(m5)) = Mirror(Front(m5))
    BY MirrorFront
  <2>5. lows = {-x : x \in highs} /\ highs \subseteq Int
    BY <2>4, MirrorSwings, Spans
  <2> HIDE DEF lows, highs, c, n
  <2> DEFINE Far == \E x \in highs : 10 * Abs(c - x) > 7 * a
             Deep == \E x \in lows : 10 * Abs((-c) - x) > 7 * a
  <2>6. Deep <=> Far
    <3>1. \A x \in highs : Abs((-c) - (-x)) = Abs(c - x)
      BY <2>3, <2>5, MirrorAbs
    <3> QED
      BY <2>5, <3>1, Zenon
  <2>7. bos_pts(m5, m3, "LONG", a) =
          IF a = 0 \/ ~Broken(m5, n, "LONG") THEN 0
          ELSE LET base == IF Far THEN 20 ELSE 10
               IN IF _check_m3_bos(m3, "LONG") THEN base ELSE Max({0, base - 8})
    BY <1>4 DEF bos_pts, highs, c, n
  <2>8. bos_pts(Mirror(m5), Mirror(m3), "SHORT", a) =
          IF a = 0 \/ ~Broken(Mirror(m5), n, "SHORT") THEN 0
          ELSE LET base == IF Deep THEN 20 ELSE 10
               IN IF _check_m3_bos(Mirror(m3), "SHORT") THEN base ELSE Max({0, base - 8})
    BY <1>1, <1>4, <2>3 DEF bos_pts, lows, n
  <2> HIDE DEF Far, Deep
  <2> DEFINE High == IF Far THEN 20 ELSE 10
             Low == IF Deep THEN 20 ELSE 10
  <2>9. Low = High
    BY <2>6
  <2>10. /\ bos_pts(m5, m3, "LONG", a) =
              IF a = 0 \/ ~Broken(m5, n, "LONG") THEN 0
              ELSE IF _check_m3_bos(m3, "LONG") THEN High ELSE Max({0, High - 8})
         /\ bos_pts(Mirror(m5), Mirror(m3), "SHORT", a) =
              IF a = 0 \/ ~Broken(Mirror(m5), n, "SHORT") THEN 0
              ELSE IF _check_m3_bos(Mirror(m3), "SHORT") THEN Low ELSE Max({0, Low - 8})
    BY <2>7, <2>8
  <2> HIDE DEF High, Low
  <2> QED
    BY <1>2, <2>2, <2>9, <2>10
<1> QED
  BY <1>3, <1>4

(* High volume has no direction.                                           *)
LEMMA MirrorVolume ==
  ASSUME NEW bars \in Seq(Candle)
  PROVE  HighVolume(Mirror(bars)) <=> HighVolume(bars)
<1>1. Len(Mirror(bars)) = Len(bars) /\ Len(bars) \in Nat
  BY MirrorOf
<1>2. CASE Len(bars) = 0
  BY <1>1, <1>2, Spans DEF HighVolume
<1>3. CASE Len(bars) # 0
  <2> DEFINE f == Front(bars)
             r == Recent(f, Span.volume)
  <2>1. f \in Seq(Candle) /\ Front(Mirror(bars)) = Mirror(f)
    BY MirrorFront
  <2>2. r \in Seq(Candle) /\ Recent(Mirror(f), Span.volume) = Mirror(r)
    BY <2>1, MirrorRecent, Spans
  <2>3. Total(Mirror(r)) = Total(r)
    BY <2>2, MirrorTotal
  <2>4. Mirror(bars)[Len(bars)].volume = bars[Len(bars)].volume
    BY <1>3, MirrorLast, Flipped
  <2>5. Total(Recent(Front(Mirror(bars)), Span.volume)) = Total(r)
    BY <2>1, <2>2, <2>3
  <2> HIDE DEF f, r
  <2> QED
    BY <1>1, <2>4, <2>5, Zenon DEF HighVolume, f, r
<1> QED
  BY <1>2, <1>3

(* detect_choch and its points.                                            *)
LEMMA MirrorChoch ==
  ASSUME NEW m3 \in Seq(Candle), NEW m5 \in Seq(Candle)
  PROVE  choch_pts(Mirror(m3), Mirror(m5), "SHORT") = choch_pts(m3, m5, "LONG")
<1>1. /\ Len(Mirror(m5)) = Len(m5) /\ Len(m5) \in Nat
      /\ Len(Mirror(m3)) = Len(m3) /\ Len(m3) \in Nat
  BY MirrorOf
<1>2. CASE Len(m3) < Span.choch
  BY <1>1, <1>2 DEF choch_pts
<1>3. CASE ~(Len(m3) < Span.choch)
  <2> DEFINE n == Span.choch_look
             c == m3[Len(m3)].close
             highs == SwingHigh(Front(m3), n)
             lows == SwingLow(Front(Mirror(m3)), n)
             above == {l \in highs : c > l}
             below == {l \in lows : -c < l}
             Up == \A l \in above : _m5_confirms(m5, l, "LONG")
             Down == \A l \in below : _m5_confirms(Mirror(m5), l, "SHORT")
  <2>1. Len(m3) # 0
    BY <1>1, <1>3, Spans
  <2>2. HighVolume(Mirror(m3)) <=> HighVolume(m3)
    BY MirrorVolume
  <2>3. c \in Int /\ Mirror(m3)[Len(Mirror(m3))].close = -c
    BY <2>1, MirrorLast
  <2>4. Front(m3) \in Seq(Candle) /\ Front(Mirror(m3)) = Mirror(Front(m3))
    BY MirrorFront
  <2>5. lows = {-x : x \in highs} /\ highs \subseteq Int
    BY <2>4, MirrorSwings, Spans
  <2>6. choch_pts(m3, m5, "LONG") = IF above = {} THEN 0 ELSE IF HighVolume(m3) /\ Up THEN 15 ELSE 8
    BY <1>3 DEF choch_pts
  <2>7. choch_pts(Mirror(m3), Mirror(m5), "SHORT") =
          IF below = {} THEN 0 ELSE IF HighVolume(Mirror(m3)) /\ Down THEN 15 ELSE 8
    BY <1>1, <1>3, <2>3 DEF choch_pts
  <2> HIDE DEF lows, highs, c, n
  <2>8. below = {-x : x \in above}
    <3>1. \A x \in highs : -c < -x <=> c > x
      BY <2>3, <2>5
    <3> QED
      BY <2>5, <3>1, Zenon
  <2>9. \A x \in Int : _m5_confirms(Mirror(m5), -x, "SHORT") <=> _m5_confirms(m5, x, "LONG")
    <3>1. CASE Len(m5) >= 2
      <4>1. m5[Len(m5)].close \in Int /\ Mirror(m5)[Len(m5)].close = -m5[Len(m5)].close
        BY <1>1, <3>1, MirrorLast
      <4> QED
        BY <1>1, <4>1 DEF _m5_confirms
    <3>2. CASE ~(Len(m5) >= 2)
      BY <1>1, <3>2 DEF _m5_confirms
    <3> QED
      BY <3>1, <3>2
  <2>10. above \subseteq Int
    BY <2>5
  <2> HIDE DEF above, below
  <2>11. Up <=> Down
    BY <2>8, <2>9, <2>10
  <2>12. above = {} <=> below = {}
    BY <2>8
  <2> HIDE DEF Up, Down
  <2> QED
    BY <2>2, <2>6, <2>7, <2>11, <2>12
<1> QED
  BY <1>2, <1>3

(* _check_fvg: the gaps unfilled above mirror those below.                 *)
LEMMA MirrorGaps ==
  ASSUME NEW m3 \in Seq(Candle), NEW price \in Int, NEW a
  PROVE  fvg_pts(Mirror(m3), -price, a, "SHORT") = fvg_pts(m3, price, a, "LONG")
<1> DEFINE s == Recent(m3, Span.fvg_look)
           t == Recent(Mirror(m3), Span.fvg_look)
           l == Len(s)
           up == {k \in 1..l - 2 : s[k + 2].low > s[k].high /\ price > s[k].high}
           down == {k \in 1..l - 2 : t[k + 2].high < t[k].low /\ -price < t[k].low}
<1>1. s \in Seq(Candle) /\ t = Mirror(s)
  BY MirrorRecent, Spans
<1>2. /\ l \in Nat /\ Len(t) = l
      /\ \A i \in 1..l : s[i] \in Candle /\ t[i] = Flip(s[i])
  BY <1>1, MirrorOf
<1>3. /\ UnfilledGaps(m3, price, "LONG") = {Abs(price - s[i].high) : i \in up}
      /\ UnfilledGaps(Mirror(m3), -price, "SHORT") = {Abs((-price) - t[i].low) : i \in down}
  BY <1>2 DEF UnfilledGaps
<1> HIDE DEF s, t, l
<1>4. \A i \in 1..l : /\ s[i].high \in Int /\ t[i].low = -s[i].high
                      /\ s[i].low \in Int /\ t[i].high = -s[i].low
  BY <1>2, Flipped
<1>5. \A k \in 1..l - 2 : k \in 1..l /\ k + 2 \in 1..l
  BY <1>2
<1>6. down = up
  <2>1. ASSUME NEW k \in 1..l - 2
        PROVE  /\ (t[k + 2].high < t[k].low) <=> (s[k + 2].low > s[k].high)
               /\ (-price < t[k].low) <=> (price > s[k].high)
    <3> DEFINE x == s[k + 2].low
               y == s[k].high
    <3>1. x \in Int /\ y \in Int /\ t[k + 2].high = -x /\ t[k].low = -y
      BY <1>4, <1>5
    <3> HIDE DEF x, y
    <3>2. (-x < -y <=> x > y) /\ (-price < -y <=> price > y)
      BY <3>1
    <3> QED
      BY <3>1, <3>2 DEF x, y
  <2> QED
    BY <2>1
<1>7. \A i \in up : Abs((-price) - t[i].low) = Abs(price - s[i].high)
  <2> SUFFICES ASSUME NEW i \in up PROVE Abs((-price) - t[i].low) = Abs(price - s[i].high)
    OBVIOUS
  <2>1. s[i].high \in Int /\ t[i].low = -s[i].high
    BY <1>4, <1>5
  <2> QED
    BY <2>1, MirrorAbs
<1> HIDE DEF up, down
<1>8. UnfilledGaps(Mirror(m3), -price, "SHORT") = UnfilledGaps(m3, price, "LONG")
  <2>1. {Abs((-price) - t[i].low) : i \in up} = {Abs(price - s[i].high) : i \in up}
    BY <1>7, Zenon
  <2> QED
    BY <1>3, <1>6, <2>1
<1>9. Len(Mirror(m3)) = Len(m3)
  BY MirrorOf
<1> QED
  BY <1>8, <1>9 DEF fvg_pts

(* Bodies and wicks of a bar upside down.                                  *)
LEMMA MirrorSides ==
  ASSUME NEW bar \in Candle
  PROVE  /\ is_bullish(Flip(bar)) <=> is_bearish(bar)
         /\ is_bearish(Flip(bar)) <=> is_bullish(bar)
         /\ body(Flip(bar)) = body(bar)
         /\ upper_wick(Flip(bar)) = lower_wick(bar)
         /\ Max({Flip(bar).open, Flip(bar).close}) = -Min({bar.open, bar.close})
         /\ Min({Flip(bar).open, Flip(bar).close}) = -Max({bar.open, bar.close})
         /\ Min({bar.open, bar.close}) \in Int /\ Max({bar.open, bar.close}) \in Int
<1> DEFINE o == bar.open
           c == bar.close
           f == Flip(bar)
<1>1. /\ f.open = -o /\ f.close = -c /\ f.high = -bar.low /\ o \in Int /\ c \in Int
      /\ bar.low \in Int
  BY Flipped
<1> HIDE DEF f, o, c
<1>2. /\ Max({-o, -c}) = IF -o <= -c THEN -c ELSE -o
      /\ Min({-o, -c}) = IF -o <= -c THEN -o ELSE -c
      /\ Min({o, c}) = IF o <= c THEN o ELSE c
      /\ Max({o, c}) = IF o <= c THEN c ELSE o
  <2>1. -o \in Int /\ -c \in Int
    BY <1>1
  <2> QED
    BY <1>1, <2>1, MaxOfTwo, MinOfTwo
<1>3. /\ Max({-o, -c}) = -Min({o, c}) /\ Min({-o, -c}) = -Max({o, c})
      /\ Min({o, c}) \in Int /\ Max({o, c}) \in Int
  <2>1. CASE o <= c
    BY <1>1, <1>2, <2>1
  <2>2. CASE ~(o <= c)
    BY <1>1, <1>2, <2>2
  <2> QED
    BY <2>1, <2>2
<1>4. Abs((-c) - (-o)) = Abs(c - o)
  BY <1>1, MirrorAbs
<1>5. (-bar.low) - (-Min({o, c})) = Min({o, c}) - bar.low
  BY <1>1, <1>3
<1>6. (-c > -o <=> c < o) /\ (-c < -o <=> c > o)
  BY <1>1
<1>7. upper_wick(f) = lower_wick(bar)
  BY <1>1, <1>3, <1>5 DEF upper_wick, lower_wick, o, c
<1>8. body(f) = body(bar)
  BY <1>1, <1>4 DEF body, o, c
<1>9. (is_bullish(f) <=> is_bearish(bar)) /\ (is_bearish(f) <=> is_bullish(bar))
  BY <1>1, <1>6 DEF is_bullish, is_bearish, o, c
<1> QED
  BY <1>1, <1>3, <1>7, <1>8, <1>9 DEF f, o, c

(* _count_ob_tests: as many bars touch the zone.                           *)
LEMMA MirrorTests ==
  ASSUME NEW bars \in Seq(Candle), NEW top \in Int, NEW bottom \in Int
  PROVE  _count_ob_tests(Mirror(bars), -bottom, -top) = _count_ob_tests(bars, top, bottom)
<1>1. /\ DOMAIN bars = 1..Len(bars) /\ DOMAIN Mirror(bars) = 1..Len(bars)
      /\ \A k \in 1..Len(bars) : bars[k] \in Candle /\ Mirror(bars)[k] = Flip(bars[k])
  BY MirrorOf
<1>2. ASSUME NEW k \in 1..Len(bars)
      PROVE  /\ (Mirror(bars)[k].low <= -bottom) <=> (bars[k].high >= bottom)
             /\ (Mirror(bars)[k].high >= -top) <=> (bars[k].low <= top)
  <2> DEFINE x == bars[k].high
             y == bars[k].low
  <2>1. x \in Int /\ y \in Int /\ Mirror(bars)[k].low = -x /\ Mirror(bars)[k].high = -y
    BY <1>1, Flipped
  <2> HIDE DEF x, y
  <2>2. (-x <= -bottom <=> x >= bottom) /\ (-y >= -top <=> y <= top)
    BY <2>1
  <2> QED
    BY <2>1, <2>2 DEF x, y
<1>3. {k \in DOMAIN Mirror(bars) : Mirror(bars)[k].low <= -bottom /\ Mirror(bars)[k].high >= -top}
      = {k \in DOMAIN bars : bars[k].low <= top /\ bars[k].high >= bottom}
  BY <1>1, <1>2
<1> QED
  BY <1>3 DEF _count_ob_tests

(* _find_bullish_ob and _find_bearish_ob find the same bars.               *)
LEMMA MirrorBlocks ==
  ASSUME NEW s \in Seq(Candle), NEW price \in Int
  PROVE  BearishBlocks(Mirror(s), -price) = BullishBlocks(s, price)
<1> DEFINE t == Mirror(s)
           l == Len(s)
           w == Span.follow
<1>1. /\ l \in Nat /\ Len(t) = l
      /\ \A i \in 1..l : s[i] \in Candle /\ t[i] = Flip(s[i])
  BY MirrorOf
<1>2. w \in Nat \ {0}
  BY Spans
<1> HIDE DEF t, l
<1>3. \A i \in 3..l - w : i \in 1..l /\ \A j \in i + 1..i + w : j \in 1..l
  <2> HIDE DEF w
  <2> QED
    BY <1>1, <1>2
<1>4. ASSUME NEW i \in 3..l - w
      PROVE  /\ is_bullish(t[i]) <=> is_bearish(s[i])
             /\ \A j \in i + 1..i + w : is_bearish(t[j]) <=> is_bullish(s[j])
             /\ (-price <= t[i].close) <=> (price >= s[i].close)
             /\ (-price >= t[i].open - (t[i].close - t[i].open) * 2)
                <=> (price <= s[i].open + (s[i].open - s[i].close) * 2)
  <2>1. is_bullish(t[i]) <=> is_bearish(s[i])
    <3>1. i \in 1..l
      BY <1>3
    <3>2. s[i] \in Candle /\ t[i] = Flip(s[i])
      BY <1>1, <3>1
    <3>3. is_bullish(Flip(s[i])) <=> is_bearish(s[i])
      BY <3>2, MirrorSides
    <3> QED
      BY <3>2, <3>3
  <2>2. \A j \in i + 1..i + w : is_bearish(t[j]) <=> is_bullish(s[j])
    <3> SUFFICES ASSUME NEW j \in i + 1..i + w
                 PROVE  is_bearish(t[j]) <=> is_bullish(s[j])
      OBVIOUS
    <3>1. j \in 1..l
      BY <1>3
    <3>2. s[j] \in Candle /\ t[j] = Flip(s[j])
      BY <1>1, <3>1
    <3>3. is_bearish(Flip(s[j])) <=> is_bullish(s[j])
      BY <3>2, MirrorSides
    <3> QED
      BY <3>2, <3>3
  <2> DEFINE x == s[i].open
             y == s[i].close
  <2>3. x \in Int /\ y \in Int /\ t[i].open = -x /\ t[i].close = -y
    BY <1>1, <1>3, Flipped
  <2> HIDE DEF x, y
  <2>4. /\ (-price <= -y) <=> (price >= y)
        /\ (-price >= (-x) - ((-y) - (-x)) * 2) <=> (price <= x + (x - y) * 2)
    BY <2>3
  <2> QED
    BY <2>1, <2>2, <2>3, <2>4 DEF x, y
<1> HIDE DEF w
<1>5. {i \in 3..l - w :
         /\ is_bullish(t[i])
         /\ \A j \in i + 1..i + w : is_bearish(t[j])
         /\ -price <= t[i].close
         /\ -price >= t[i].open - (t[i].close - t[i].open) * 2}
      = {i \in 3..l - w :
         /\ is_bearish(s[i])
         /\ \A j \in i + 1..i + w : is_bullish(s[j])
         /\ price >= s[i].close
         /\ price <= s[i].open + (s[i].open - s[i].close) * 2}
  BY <1>4, Zenon
<1> QED
  BY <1>1, <1>5 DEF BearishBlocks, BullishBlocks, t, l, w

(* The block found last, its tests and its volume decide the points.       *)
LEMMA MirrorBlock ==
  ASSUME NEW m5 \in Seq(Candle), NEW price \in Int
  PROVE  ob_pts(Mirror(m5), -price, "SHORT") = ob_pts(m5, price, "LONG")
<1> DEFINE s == Recent(m5, Span.ob_look)
           t == Recent(Mirror(m5), Span.ob_look)
           blocks == BullishBlocks(s, price)
           recent == Recent(m5, Span.ob_volume)
           image == Recent(Mirror(m5), Span.ob_volume)
           i == Max(blocks)
           from == i + Span.follow + 1
           top == Max({s[i].open, s[i].close})
           bottom == Min({s[i].open, s[i].close})
           tests == _count_ob_tests(SubSeq(s, from, Len(s)), top, bottom)
           mirrored == _count_ob_tests(SubSeq(t, from, Len(t)),
                         Max({t[i].open, t[i].close}), Min({t[i].open, t[i].close}))
<1>1. s \in Seq(Candle) /\ t = Mirror(s) /\ recent \in Seq(Candle) /\ image = Mirror(recent)
  BY MirrorRecent, Spans
<1>2. Len(Mirror(m5)) = Len(m5)
  BY MirrorOf
<1>3. Total(image) = Total(recent) /\ Len(image) = Len(recent)
  BY <1>1, MirrorTotal, MirrorOf
<1>4. BearishBlocks(t, -price) = blocks
  BY <1>1, MirrorBlocks
<1>5. CASE blocks = {}
  BY <1>2, <1>4, <1>5 DEF ob_pts
<1>6. CASE blocks # {}
  <2>1. blocks \subseteq 3..Len(s) - Span.follow
    BY DEF BullishBlocks
  <2> HIDE DEF s, t, blocks
  <2>2. /\ Len(s) \in Nat /\ Len(t) = Len(s)
        /\ \A k \in 1..Len(s) : s[k] \in Candle /\ t[k] = Flip(s[k])
    BY <1>1, MirrorOf
  <2>3. i \in blocks
    <3> DEFINE l == Len(s)
               w == Span.follow
               m == l - w
    <3>1. l \in Int /\ w \in Int
      BY <2>2, Spans
    <3> HIDE DEF l, w
    <3>2. 3 \in Int /\ m \in Int
      BY <3>1
    <3> HIDE DEF m
    <3>3. IsFiniteSet(3..m) /\ 3..m \in SUBSET Int
      BY <3>2, FS_Interval
    <3>4. blocks \subseteq 3..m
      BY <2>1 DEF m, l, w
    <3>5. IsFiniteSet(blocks) /\ blocks \in SUBSET Int
      BY <3>3, <3>4, FS_Subset
    <3> QED
      BY <1>6, <3>5, EndsOf
  <2>4. i \in 1..Len(s) /\ from \in Int /\ 1 <= from
    <3> DEFINE l == Len(s)
               w == Span.follow
    <3>1. i \in 3..l - w
      BY <2>1, <2>3
    <3>2. l \in Nat /\ w \in Nat
      BY <2>2, Spans
    <3> HIDE DEF i, l, w
    <3>3. i \in 1..l /\ i + w + 1 \in Int /\ 1 <= i + w + 1
      BY <3>1, <3>2
    <3> QED
      BY <3>3 DEF l, w
  <2> HIDE DEF i
  <2>5. s[i] \in Candle /\ t[i] = Flip(s[i])
    BY <2>2, <2>4
  <2>6. /\ Max({t[i].open, t[i].close}) = -bottom /\ Min({t[i].open, t[i].close}) = -top
        /\ top \in Int /\ bottom \in Int
        /\ t[i].volume = s[i].volume
    BY <2>5, MirrorSides, Flipped
  <2> DEFINE after == SubSeq(s, from, Len(s))
  <2> HIDE DEF from, top, bottom
  <2>7. after \in Seq(Candle) /\ SubSeq(t, from, Len(t)) = Mirror(after)
    <3>1. Len(s) \in Int /\ Len(s) <= Len(s)
      BY <2>2
    <3>2. SubSeq(Mirror(s), from, Len(s)) = Mirror(after) /\ after \in Seq(Candle)
      BY <1>1, <2>4, <3>1, MirrorSubSeq
    <3> QED
      BY <1>1, <2>2, <3>2
  <2> HIDE DEF after
  <2>8. mirrored = tests
    <3>1. _count_ob_tests(Mirror(after), -bottom, -top) = _count_ob_tests(after, top, bottom)
      BY <2>6, <2>7, MirrorTests
    <3> QED
      BY <2>6, <2>7, <3>1 DEF after
  <2> HIDE DEF tests, mirrored, recent, image
  <2>9. ob_pts(m5, price, "LONG") =
          IF Len(m5) < Span.ob THEN 0
          ELSE IF /\ tests < Span.tests /\ Total(recent) > 0
                  /\ 10 * s[i].volume * Len(recent) > 6 * Total(recent)
          THEN 10 ELSE 4
    BY <1>6 DEF ob_pts, tests, recent, s, i, blocks, from, top, bottom
  <2>10. ob_pts(Mirror(m5), -price, "SHORT") =
          IF Len(Mirror(m5)) < Span.ob THEN 0
          ELSE IF /\ mirrored < Span.tests /\ Total(image) > 0
                  /\ 10 * t[i].volume * Len(image) > 6 * Total(image)
          THEN 10 ELSE 4
    BY <1>4, <1>6 DEF ob_pts, mirrored, image, t, i, from
  <2> QED
    BY <1>2, <1>3, <2>6, <2>8, <2>9, <2>10
<1> QED
  BY <1>5, <1>6

(* compute_session_bias, off the VWAP.                                     *)
LEMMA MirrorBias ==
  ASSUME NEW m1 \in Seq(Candle), NEW price \in Int, NEW fair \in Int, price # fair
  PROVE  bias_pts(Mirror(m1), -fair, -price, "SHORT") = bias_pts(m1, fair, price, "LONG")
<1> DEFINE s == Recent(m1, Span.bias)
           t == Recent(Mirror(m1), Span.bias)
           up == {k \in DOMAIN s : is_bullish(s[k])}
           down == {k \in DOMAIN t : is_bearish(t[k])}
<1>1. s \in Seq(Candle) /\ t = Mirror(s)
  BY MirrorRecent, Spans
<1>2. Len(Mirror(m1)) = Len(m1)
  BY MirrorOf
<1>3. /\ bias_pts(m1, fair, price, "LONG") =
           IF Len(m1) < Span.bias \/ fair = 0 THEN 0
           ELSE IF price > fair /\ 100 * Cardinality(up) >= 67 * Span.bias THEN 20
           ELSE IF price > fair \/ 100 * Cardinality(up) >= 67 * Span.bias THEN 9 ELSE 0
      /\ bias_pts(Mirror(m1), -fair, -price, "SHORT") =
           IF Len(m1) < Span.bias \/ -fair = 0 THEN 0
           ELSE IF ~(-price > -fair) /\ 100 * Cardinality(down) >= 67 * Span.bias THEN 20
           ELSE IF ~(-price > -fair) \/ 100 * Cardinality(down) >= 67 * Span.bias THEN 9 ELSE 0
  BY <1>2, Zenon DEF bias_pts
<1> HIDE DEF s, t
<1>4. /\ DOMAIN s = 1..Len(s) /\ DOMAIN t = 1..Len(s)
      /\ \A k \in 1..Len(s) : s[k] \in Candle /\ t[k] = Flip(s[k])
  BY <1>1, MirrorOf
<1>5. \A k \in 1..Len(s) : is_bearish(t[k]) <=> is_bullish(s[k])
  <2> SUFFICES ASSUME NEW k \in 1..Len(s) PROVE is_bearish(t[k]) <=> is_bullish(s[k])
    OBVIOUS
  <2>1. s[k] \in Candle /\ t[k] = Flip(s[k])
    BY <1>4
  <2>2. is_bearish(Flip(s[k])) <=> is_bullish(s[k])
    BY <2>1, MirrorSides
  <2> QED
    BY <2>1, <2>2
<1>6. down = up
  BY <1>4, <1>5, Zenon
<1>7. ~(-price > -fair) <=> price > fair
  OBVIOUS
<1>8. -fair = 0 <=> fair = 0
  OBVIOUS
<1> HIDE DEF up, down
<1> QED
  BY <1>3, <1>6, <1>7, <1>8

(* _detect_sweep_reclaim: a low swept and reclaimed, or a high.            *)
LEMMA MirrorReclaim ==
  ASSUME NEW bar \in Candle, NEW prev \in Candle
  PROVE  _detect_sweep_reclaim(Flip(bar), Flip(prev), "SHORT")
         <=> _detect_sweep_reclaim(bar, prev, "LONG")
<1> DEFINE x == bar.low
           y == prev.low
           z == bar.close
<1>1. /\ x \in Int /\ y \in Int /\ z \in Int
      /\ Flip(bar).high = -x /\ Flip(prev).high = -y /\ Flip(bar).close = -z
  BY Flipped
<1> HIDE DEF x, y, z
<1>2. (-x > -y <=> x < y) /\ (-z < -y <=> z > y)
  BY <1>1
<1> QED
  BY <1>1, <1>2 DEF _detect_sweep_reclaim, x, y, z

(* detect_absorption and its points.                                       *)
LEMMA MirrorAbsorption ==
  ASSUME NEW m1 \in Seq(Candle)
  PROVE  abs_pts(Mirror(m1), "SHORT") = abs_pts(m1, "LONG")
<1> DEFINE l == Len(m1)
           t == Mirror(m1)
           f == Front(m1)
           r == Recent(f, Span.absorption)
<1>1. /\ l \in Nat /\ Len(t) = l
      /\ \A i \in 1..l : m1[i] \in Candle /\ t[i] = Flip(m1[i])
  BY MirrorOf
<1>2. CASE l < Span.absorption
  BY <1>1, <1>2 DEF abs_pts
<1>3. CASE ~(l < Span.absorption)
  <2> DEFINE n == Span.absorption
             bar == m1[l]
             prev == m1[l - 1]
             before == Total(r)
             image == Total(Recent(Front(t), n))
  <2>1. l \in 1..l /\ l - 1 \in 1..l
    <3> HIDE DEF l
    <3> QED
      BY <1>1, <1>3, Spans
  <2>2. /\ bar \in Candle /\ t[l] = Flip(bar)
        /\ prev \in Candle /\ t[l - 1] = Flip(prev)
    BY <1>1, <2>1
  <2>3. image = before
    <3>1. f \in Seq(Candle) /\ Front(t) = Mirror(f)
      BY MirrorFront
    <3>2. r \in Seq(Candle) /\ Recent(Mirror(f), n) = Mirror(r)
      BY <3>1, MirrorRecent, Spans
    <3> QED
      BY <3>1, <3>2, MirrorTotal
  <2>4. /\ _detect_sweep_reclaim(t[l], t[l - 1], "SHORT") <=> _detect_sweep_reclaim(bar, prev, "LONG")
        /\ t[l].volume = bar.volume
        /\ upper_wick(t[l]) = lower_wick(bar) /\ body(t[l]) = body(bar)
    BY <2>2, MirrorReclaim, MirrorSides, Flipped
  <2>5. abs_pts(m1, "LONG") =
          IF _detect_sweep_reclaim(bar, prev, "LONG") THEN 15
          ELSE IF before > 0 /\ bar.volume * n > 2 * before /\ lower_wick(bar) > 2 * body(bar) THEN 10
          ELSE IF 10 * bar.volume * n > 18 * before THEN 6 ELSE 0
    BY <1>3, Zenon DEF abs_pts
  <2>6. abs_pts(t, "SHORT") =
          IF _detect_sweep_reclaim(t[l], t[l - 1], "SHORT") THEN 15
          ELSE IF image > 0 /\ t[l].volume * n > 2 * image /\ upper_wick(t[l]) > 2 * body(t[l]) THEN 10
          ELSE IF 10 * t[l].volume * n > 18 * image THEN 6 ELSE 0
    <3> HIDE DEF t, l
    <3>1. ~(Len(t) < n) /\ "SHORT" # "LONG"
      BY <1>1, <1>3
    <3> QED
      BY <1>1, <3>1, Zenon DEF abs_pts
  <2> HIDE DEF bar, prev, before, image, t, l, r, n
  <2> QED
    BY <2>3, <2>4, <2>5, <2>6 DEF t
<1> QED
  BY <1>2, <1>3

(* The averages of closes upside down are the averages upside down: the    *)
(* calculator stays a mirror image from one update to the next.            *)
LEMMA MirrorUpdate ==
  ASSUME NEW ribbon \in Ribbon, NEW close \in Int
  PROVE  update(MirrorRibbon(ribbon), -close) = MirrorRibbon(update(ribbon, close))
<1> DEFINE image == MirrorRibbon(ribbon)
           opposite == -close
           Next(r, c) == [k \in 1..4 |-> r.emas[k] * (AlphaUnit - Alphas[k]) + r.unit * (c * Alphas[k])]
           First(c) == [k \in 1..4 |-> c]
           unit == ribbon.unit * AlphaUnit
           Minus(emas) == [k \in 1..4 |-> -emas[k]]
<1>1. /\ \A k \in 1..4 : ribbon.emas[k] \in Int /\ image.emas[k] = -ribbon.emas[k]
      /\ image.bar_count = ribbon.bar_count /\ image.unit = ribbon.unit
      /\ ribbon.unit \in Int /\ AlphaUnit \in Int /\ \A k \in 1..4 : Alphas[k] \in Int
  BY ScoringAssumption DEF Ribbon, MirrorRibbon
<1>2. \A e, b, u, c, a \in Int :
        (-e) * (b - a) + u * ((-c) * a) = -(e * (b - a) + u * (c * a))
  OBVIOUS
<1>3. ASSUME NEW k \in 1..4
      PROVE  Next(image, opposite)[k] = -Next(ribbon, close)[k]
  <2> DEFINE e == ribbon.emas[k]
             u == ribbon.unit
             a == Alphas[k]
  <2>1. e \in Int /\ u \in Int /\ a \in Int /\ image.emas[k] = -e /\ image.unit = u
        /\ AlphaUnit \in Int
    BY <1>1
  <2>2. /\ Next(ribbon, close)[k] = e * (AlphaUnit - a) + u * (close * a)
        /\ Next(image, opposite)[k] = image.emas[k] * (AlphaUnit - a) + image.unit * ((-close) * a)
    OBVIOUS
  <2> HIDE DEF e, u, a, image, opposite, Next
  <2> QED
    BY <1>2, <2>1, <2>2
<1>4. Next(image, opposite) = Minus(Next(ribbon, close))
  BY <1>3
<1>5. First(opposite) = Minus(First(close))
  OBVIOUS
<1>6. /\ update(image, opposite)
            = IF ribbon.bar_count = 0 THEN [bar_count |-> 1, unit |-> 1, emas |-> First(opposite)]
              ELSE [bar_count |-> ribbon.bar_count + 1, unit |-> unit, emas |-> Next(image, opposite)]
      /\ update(ribbon, close)
            = IF ribbon.bar_count = 0 THEN [bar_count |-> 1, unit |-> 1, emas |-> First(close)]
              ELSE [bar_count |-> ribbon.bar_count + 1, unit |-> unit, emas |-> Next(ribbon, close)]
  BY <1>1 DEF update
<1> HIDE DEF image, opposite, unit
<1>7. ASSUME NEW count, NEW over, NEW emas
      PROVE  MirrorRibbon([bar_count |-> count, unit |-> over, emas |-> emas])
             = [bar_count |-> count, unit |-> over, emas |-> Minus(emas)]
  BY DEF MirrorRibbon
<1>8. update(image, opposite) = MirrorRibbon(update(ribbon, close))
  <2> HIDE DEF Next, First, Minus
  <2>1. CASE ribbon.bar_count = 0
    BY <1>5, <1>6, <1>7, <2>1
  <2>2. CASE ribbon.bar_count # 0
    BY <1>4, <1>6, <1>7, <2>2
  <2> QED
    BY <2>1, <2>2
<1> QED
  BY <1>8 DEF image, opposite

(* score_trend_alignment, and the warm-up, of a ribbon upside down.        *)
LEMMA MirrorTrend ==
  ASSUME NEW ribbon \in Ribbon, NEW range \in Nat
  PROVE  trend_pts(MirrorRibbon(ribbon), range, "SHORT") = trend_pts(ribbon, range, "LONG")
<1> DEFINE emas == [k \in 1..4 |-> -ribbon.emas[k]]
           image == MirrorRibbon(ribbon)
<1>1. /\ image.emas = emas /\ image.bar_count = ribbon.bar_count /\ image.unit = ribbon.unit
  BY DEF MirrorRibbon, Ribbon
<1>2. \A i \in 1..3 : (emas[i] < emas[i + 1]) <=> (ribbon.emas[i] > ribbon.emas[i + 1])
  <2> SUFFICES ASSUME NEW i \in 1..3
               PROVE  (emas[i] < emas[i + 1]) <=> (ribbon.emas[i] > ribbon.emas[i + 1])
    OBVIOUS
  <2> DEFINE x == ribbon.emas[i]
             y == ribbon.emas[i + 1]
  <2>1. i \in 1..4 /\ i + 1 \in 1..4
    OBVIOUS
  <2>2. emas[i] = -x /\ emas[i + 1] = -y /\ x \in Int /\ y \in Int
    BY <2>1 DEF Ribbon
  <2> HIDE DEF x, y, emas
  <2>3. (-x < -y) <=> (x > y)
    BY <2>2
  <2> QED
    BY <2>2, <2>3 DEF x, y
<1>3. Abs(emas[1] - emas[4]) = Abs(ribbon.emas[1] - ribbon.emas[4])
  <2> DEFINE x == ribbon.emas[1]
             y == ribbon.emas[4]
  <2>1. x \in Int /\ y \in Int /\ emas[1] = -x /\ emas[4] = -y
    BY DEF Ribbon
  <2> HIDE DEF x, y, emas
  <2> QED
    BY <2>1, MirrorAbs DEF x, y
<1> HIDE DEF emas, image
<1>4. Ordered(emas, "SHORT") = Ordered(ribbon.emas, "LONG")
  BY <1>2, Zenon DEF Ordered
<1>5. /\ full_alignment(image, "SHORT") <=> full_alignment(ribbon, "LONG")
      /\ partial_alignment(image, "SHORT") <=> partial_alignment(ribbon, "LONG")
  BY <1>1, <1>4, Zenon DEF full_alignment, partial_alignment
<1>6. \A n, d : Steeper(image, range, n, d) <=> Steeper(ribbon, range, n, d)
  BY <1>1, <1>3, Zenon DEF Steeper
<1>7. score_trend_alignment(image, range, "SHORT") = score_trend_alignment(ribbon, range, "LONG")
  BY <1>5, <1>6, Zenon DEF score_trend_alignment
<1> QED
  BY <1>1, <1>7, Zenon DEF trend_pts, image

(* Gains and losses are sums of naturals, and closes that neither gain nor *)
(* lose all are the first one.                                             *)
LEMMA GainsAreNat ==
  ASSUME NEW c \in Seq(Int)
  PROVE  /\ Gains(c) \in Nat /\ Losses(c) \in Nat
         /\ (Gains(c) = 0 /\ Losses(c) = 0) => \A k \in 1..Len(c) : c[k] = c[1]
<1> DEFINE l == Len(c)
           n == l - 1
           up == [i \in 1..n |-> Max({c[i + 1] - c[i], 0})]
           down == [i \in 1..n |-> Max({c[i] - c[i + 1], 0})]
<1>1. l \in Nat /\ \A k \in 1..l : c[k] \in Int
  BY LenProperties, ElementOfSeq
<1>2. Gains(c) = SumFunctionOnSet(up, 1..n) /\ Losses(c) = SumFunctionOnSet(down, 1..n)
  BY DEF Gains, Losses, SumFunction
<1> HIDE DEF l
<1>3. /\ n \in Int /\ 1 \in Int
      /\ \A i \in 1..n : i \in 1..l /\ i + 1 \in 1..l
  BY <1>1
<1>4. IsFiniteSet(1..n)
  BY <1>3, FS_Interval
<1>5. \A i \in 1..n : /\ up[i] \in Nat /\ (up[i] = 0 => c[i + 1] <= c[i])
                      /\ down[i] \in Nat /\ (down[i] = 0 => c[i] <= c[i + 1])
  <2> SUFFICES ASSUME NEW i \in 1..n
               PROVE  /\ up[i] \in Nat /\ (up[i] = 0 => c[i + 1] <= c[i])
                      /\ down[i] \in Nat /\ (down[i] = 0 => c[i] <= c[i + 1])
    OBVIOUS
  <2> DEFINE x == c[i]
             y == c[i + 1]
  <2>1. x \in Int /\ y \in Int
    BY <1>1, <1>3
  <2>2. up[i] = Max({y - x, 0}) /\ down[i] = Max({x - y, 0})
    OBVIOUS
  <2> HIDE DEF x, y, up, down, n
  <2>3. y - x \in Int /\ x - y \in Int /\ 0 \in Int
    BY <2>1
  <2>4. /\ Max({y - x, 0}) = IF y - x <= 0 THEN 0 ELSE y - x
        /\ Max({x - y, 0}) = IF x - y <= 0 THEN 0 ELSE x - y
    BY <2>3, MaxOfTwo
  <2>5. /\ up[i] \in Nat /\ (up[i] = 0 => y <= x)
        /\ down[i] \in Nat /\ (down[i] = 0 => x <= y)
    BY <2>1, <2>2, <2>4
  <2> QED
    BY <2>5 DEF x, y
<1> HIDE DEF up, down
<1>6. Gains(c) \in Nat /\ Losses(c) \in Nat
  <2>1. (\A i \in 1..n : up[i] \in Nat) /\ (\A i \in 1..n : down[i] \in Nat)
    BY <1>5
  <2> HIDE DEF n
  <2> QED
    BY <1>2, <1>4, <2>1, SumIsNat
<1>7. ASSUME Gains(c) = 0, Losses(c) = 0
      PROVE  \A k \in 1..l : c[k] = c[1]
  <2>1. (\A i \in 1..n : up[i] = 0) /\ (\A i \in 1..n : down[i] = 0)
    <3>1. (\A i \in 1..n : up[i] \in Nat) /\ (\A i \in 1..n : down[i] \in Nat)
      BY <1>5
    <3> HIDE DEF n
    <3> QED
      BY <1>2, <1>4, <1>7, <3>1, SumZero
  <2>2. \A i \in 1..n : c[i + 1] = c[i]
    <3> SUFFICES ASSUME NEW i \in 1..n PROVE c[i + 1] = c[i]
      OBVIOUS
    <3>1. c[i] \in Int /\ c[i + 1] \in Int /\ c[i + 1] <= c[i] /\ c[i] <= c[i + 1]
      BY <1>1, <1>3, <1>5, <2>1
    <3> QED
      BY <3>1
  <2> DEFINE Other == {k \in 1..l : c[k] # c[1]}
             m == Min(Other)
  <2>3. SUFFICES ASSUME Other # {} PROVE FALSE
    OBVIOUS
  <2>4. Other \in SUBSET Nat /\ Other \in SUBSET Int /\ IsFiniteSet(Other)
    <3>1. IsFiniteSet(1..l)
      BY <1>1, FS_Interval
    <3> QED
      BY <1>1, <3>1, FS_Subset
  <2>5. m \in Other /\ \A k \in Other : m <= k
    <3> HIDE DEF Other
    <3> QED
      BY <2>3, <2>4, EndsOf
  <2> HIDE DEF m
  <2>6. m \in 1..l /\ c[m] # c[1]
    BY <2>5
  <2>7. m - 1 \in 1..n /\ (m - 1) + 1 = m /\ m - 1 \in 1..l /\ ~(m <= m - 1)
    <3>1. m # 1
      BY <2>6
    <3> QED
      BY <1>1, <2>6, <3>1
  <2>8. c[m - 1] = c[1]
    BY <2>5, <2>7
  <2>9. c[(m - 1) + 1] = c[m - 1]
    BY <2>2, <2>7
  <2> QED
    BY <2>6, <2>7, <2>8, <2>9
<1> QED
  BY <1>6, <1>7 DEF l

(* What gains on a chart loses on its mirror image.                        *)
LEMMA MirrorGains ==
  ASSUME NEW c \in Seq(Int), NEW d \in Seq(Int), Len(d) = Len(c),
         \A k \in 1..Len(c) : d[k] = -c[k]
  PROVE  Gains(d) = Losses(c) /\ Losses(d) = Gains(c)
<1> DEFINE l == Len(c)
           n == l - 1
<1>1. l \in Nat /\ \A k \in 1..l : c[k] \in Int /\ d[k] = -c[k]
  BY LenProperties, ElementOfSeq
<1>2. Len(d) - 1 = n
  OBVIOUS
<1> HIDE DEF l
<1>3. \A i \in 1..n : d[i + 1] - d[i] = c[i] - c[i + 1] /\ d[i] - d[i + 1] = c[i + 1] - c[i]
  <2> SUFFICES ASSUME NEW i \in 1..n
               PROVE  d[i + 1] - d[i] = c[i] - c[i + 1] /\ d[i] - d[i + 1] = c[i + 1] - c[i]
    OBVIOUS
  <2> DEFINE x == c[i]
             y == c[i + 1]
  <2>1. i \in 1..l /\ i + 1 \in 1..l
    BY <1>1
  <2>2. x \in Int /\ y \in Int /\ d[i] = -x /\ d[i + 1] = -y
    BY <1>1, <2>1
  <2> HIDE DEF x, y
  <2>3. (-y) - (-x) = x - y /\ (-x) - (-y) = y - x
    BY <2>2
  <2> QED
    BY <2>2, <2>3 DEF x, y
<1> HIDE DEF n
<1>4. /\ [i \in 1..n |-> Max({d[i + 1] - d[i], 0})] = [i \in 1..n |-> Max({c[i] - c[i + 1], 0})]
      /\ [i \in 1..n |-> Max({d[i] - d[i + 1], 0})] = [i \in 1..n |-> Max({c[i + 1] - c[i], 0})]
  BY <1>3
<1>5. Len(c) - 1 = n
  BY DEF n, l
<1> QED
  BY <1>2, <1>4, <1>5, Zenon DEF Gains, Losses

(* Closes that move have an extreme RSI up where their mirror image has it *)
(* down.                                                                   *)
LEMMA MirrorRsi ==
  ASSUME NEW m1 \in Seq(Candle),
         \E k \in DOMAIN RsiCloses(m1) : RsiCloses(m1)[k] # RsiCloses(m1)[1]
  PROVE  rsi_extreme(Mirror(m1), "SHORT") <=> rsi_extreme(m1, "LONG")
<1> DEFINE s == Recent(m1, Span.rsi + 1)
           t == Recent(Mirror(m1), Span.rsi + 1)
           c == RsiCloses(m1)
           d == RsiCloses(Mirror(m1))
           l == Len(s)
           gain == Gains(c)
           loss == Losses(c)
<1>1. s \in Seq(Candle) /\ t = Mirror(s)
  <2> DEFINE r == Span.rsi
             n == r + 1
  <2>1. n \in Nat \ {0}
    <3>1. r \in Nat
      BY Spans
    <3> HIDE DEF r
    <3> QED
      BY <3>1
  <2> HIDE DEF n
  <2>2. /\ Recent(m1, n) \in Seq(Candle)
        /\ Recent(Mirror(m1), n) = Mirror(Recent(m1, n))
    BY <2>1, MirrorRecent
  <2> QED
    BY <2>2 DEF n
<1>2. c = [i \in DOMAIN s |-> s[i].close] /\ d = [i \in DOMAIN t |-> t[i].close]
  BY DEF RsiCloses
<1> HIDE DEF c, d, s, t
<1>3. /\ l \in Nat /\ DOMAIN s = 1..l /\ DOMAIN t = 1..l
      /\ \A i \in 1..l : s[i] \in Candle /\ t[i] = Flip(s[i])
  BY <1>1, MirrorOf
<1>4. \A i \in 1..l : s[i].close \in Int /\ t[i].close = -s[i].close
  BY <1>3, Flipped
<1> HIDE DEF l
<1>5. c \in [1..l -> Int] /\ d \in [1..l -> Int] /\ \A i \in 1..l : d[i] = -c[i]
  <2>1. c = [i \in 1..l |-> s[i].close] /\ d = [i \in 1..l |-> t[i].close]
    BY <1>2, <1>3
  <2>2. \A i \in 1..l : c[i] = s[i].close /\ d[i] = t[i].close
    BY <2>1
  <2>3. \A i \in 1..l : c[i] \in Int /\ d[i] \in Int /\ d[i] = -c[i]
    BY <1>4, <2>2
  <2> QED
    BY <2>1, <2>3
<1>6. c \in Seq(Int) /\ d \in Seq(Int) /\ Len(c) = l /\ Len(d) = l
  BY <1>3, <1>5, SeqDef
<1>7. Gains(d) = loss /\ Losses(d) = gain
  BY <1>5, <1>6, MirrorGains
<1>8. gain \in Nat /\ loss \in Nat /\ ~(gain = 0 /\ loss = 0)
  <2>1. \E k \in DOMAIN c : c[k] # c[1]
    BY DEF c
  <2>2. DOMAIN c = 1..Len(c)
    BY <1>5, <1>6
  <2> QED
    BY <1>6, <2>1, <2>2, GainsAreNat
<1> HIDE DEF gain, loss
<1>9. (gain > 0 /\ 100 * loss < 28 * (loss + gain)) <=> (loss = 0 \/ 100 * gain > 72 * (gain + loss))
  BY <1>8
<1>10. rsi_extreme(m1, "LONG") <=> (loss = 0 \/ 100 * gain > 72 * (gain + loss))
  BY DEF rsi_extreme, gain, loss, c
<1>11. rsi_extreme(Mirror(m1), "SHORT") <=> (gain > 0 /\ 100 * loss < 28 * (loss + gain))
  BY <1>7 DEF rsi_extreme, d
<1> QED
  BY <1>9, <1>10, <1>11

(* score_momentum_decay, for closes that moved.                            *)
LEMMA MirrorMomentum ==
  ASSUME NEW m1 \in Seq(Candle),
         \E k \in DOMAIN RsiCloses(m1) : RsiCloses(m1)[k] # RsiCloses(m1)[1]
  PROVE  score_momentum_decay(Mirror(m1), "SHORT") = score_momentum_decay(m1, "LONG")
<1> DEFINE s == Recent(m1, Span.cliff)
           t == Recent(Mirror(m1), Span.cliff)
<1>1. s \in Seq(Candle) /\ t = Mirror(s)
  BY MirrorRecent, Spans
<1>2. Len(Mirror(m1)) = Len(m1)
  BY MirrorOf
<1>3. /\ _volume_decaying(m1)
           <=> Len(m1) > Span.cliff /\ \A i \in 2..Len(s) : s[i].volume < s[i - 1].volume
      /\ _volume_decaying(Mirror(m1))
           <=> Len(m1) > Span.cliff /\ \A i \in 2..Len(t) : t[i].volume < t[i - 1].volume
  BY <1>2, Zenon DEF _volume_decaying
<1> HIDE DEF s, t
<1>4. /\ Len(s) \in Nat /\ Len(t) = Len(s)
      /\ \A i \in 1..Len(s) : s[i] \in Candle /\ t[i] = Flip(s[i])
  BY <1>1, MirrorOf
<1>5. \A i \in 1..Len(s) : t[i].volume = s[i].volume
  BY <1>4, Flipped
<1>6. \A i \in 2..Len(s) : i \in 1..Len(s) /\ i - 1 \in 1..Len(s)
  BY <1>4
<1>7. \A i \in 2..Len(s) : (t[i].volume < t[i - 1].volume) <=> (s[i].volume < s[i - 1].volume)
  BY <1>5, <1>6
<1>8. _volume_decaying(Mirror(m1)) <=> _volume_decaying(m1)
  BY <1>3, <1>4, <1>7, Zenon
<1>9. rsi_extreme(Mirror(m1), "SHORT") <=> rsi_extreme(m1, "LONG")
  BY MirrorRsi
<1> QED
  BY <1>2, <1>8, <1>9 DEF score_momentum_decay

(* The structure engine is the sum of its four detectors.                  *)
LEMMA MirrorHmp ==
  ASSUME NEW m3 \in Seq(Candle), NEW m5 \in Seq(Candle), NEW price \in Int, NEW range
  PROVE  calculate_hmp(Mirror(m3), Mirror(m5), -price, range, "SHORT")
         = calculate_hmp(m3, m5, price, range, "LONG")
<1>1. bos_pts(Mirror(m5), Mirror(m3), "SHORT", range) = bos_pts(m5, m3, "LONG", range)
  BY MirrorBos
<1>2. choch_pts(Mirror(m3), Mirror(m5), "SHORT") = choch_pts(m3, m5, "LONG")
  BY MirrorChoch
<1>3. fvg_pts(Mirror(m3), -price, range, "SHORT") = fvg_pts(m3, price, range, "LONG")
  BY MirrorGaps
<1>4. ob_pts(Mirror(m5), -price, "SHORT") = ob_pts(m5, price, "LONG")
  BY MirrorBlock
<1> QED
  BY <1>1, <1>2, <1>3, <1>4, Zenon DEF calculate_hmp

(* Every detector mirrored, the snapshot is.                               *)
LEMMA MirrorFollows == ScoringInv => Mirrored
<1> SUFFICES ASSUME ScoringInv, chart # <<>>, NEW i \in Inputs
             PROVE  LET m5 == LaggedM5(i)
                        price == Price(i)
                        moved == \E k \in DOMAIN RsiCloses(chart) :
                                   RsiCloses(chart)[k] # RsiCloses(chart)[1]
                        mirrored == update(MirrorRibbon(ribbon_calc), -chart[Len(chart)].close)
                    IN /\ calculate_hmp(chart, m5, price, i.atr_5m, "LONG")
                            = calculate_hmp(Mirror(chart), Mirror(m5), -price, i.atr_5m, "SHORT")
                       /\ mirrored = MirrorRibbon(Fed(ribbon_calc))
                       /\ trend_pts(Fed(ribbon_calc), i.atr_1m, "LONG")
                            = trend_pts(mirrored, i.atr_1m, "SHORT")
                       /\ moved => score_momentum_decay(chart, "LONG")
                                     = score_momentum_decay(Mirror(chart), "SHORT")
                       /\ price # i.vwap =>
                            bias_pts(chart, i.vwap, price, "LONG")
                              = bias_pts(Mirror(chart), -i.vwap, -price, "SHORT")
                       /\ abs_pts(chart, "LONG") = abs_pts(Mirror(chart), "SHORT")
  BY DEF Mirrored
<1> DEFINE m5 == LaggedM5(i)
           price == Price(i)
           fair == i.vwap
           close == chart[Len(chart)].close
           moved == \E k \in DOMAIN RsiCloses(chart) : RsiCloses(chart)[k] # RsiCloses(chart)[1]
           mirrored == update(MirrorRibbon(ribbon_calc), -close)
<1>1. chart \in Seq(Candle) /\ ribbon_calc \in Ribbon
  BY DEF ScoringInv
<1>2. /\ i.price \in Int /\ fair \in Int /\ i.lag \in Nat /\ i.atr_1m \in Nat
  BY ScoringAssumption
<1>3. Len(chart) # 0 /\ Len(chart) \in Nat
  BY <1>1, EmptySeq, LenProperties
<1>4. m5 \in Seq(Candle)
  <2> DEFINE n == Len(chart) - i.lag
  <2>1. n \in Int /\ n <= Len(chart) /\ 1 \in Int /\ 1 <= 1
    BY <1>2, <1>3
  <2> HIDE DEF n
  <2>2. SubSeq(chart, 1, n) \in Seq(Candle)
    BY <1>1, <2>1, MirrorSubSeq
  <2> QED
    BY <2>2 DEF LaggedM5, n
<1>5. price \in Int /\ close \in Int
  <2>1. close \in Int
    BY <1>1, <1>3, MirrorLast
  <2> DEFINE p == i.price
  <2>2. p \in Int
    BY <1>2
  <2>3. price = close + p
    BY DEF Price
  <2> HIDE DEF close, p
  <2> QED
    BY <2>1, <2>2, <2>3
<1>6. calculate_hmp(chart, m5, price, i.atr_5m, "LONG")
        = calculate_hmp(Mirror(chart), Mirror(m5), -price, i.atr_5m, "SHORT")
  <2> HIDE DEF m5, price
  <2> QED
    BY <1>1, <1>4, <1>5, MirrorHmp
<1>7. /\ mirrored = MirrorRibbon(Fed(ribbon_calc))
      /\ trend_pts(Fed(ribbon_calc), i.atr_1m, "LONG") = trend_pts(mirrored, i.atr_1m, "SHORT")
  <2>1. Fed(ribbon_calc) = update(ribbon_calc, close)
    BY DEF Fed
  <2> HIDE DEF close
  <2>2. mirrored = MirrorRibbon(update(ribbon_calc, close))
    BY <1>1, <1>5, MirrorUpdate
  <2>3. Fed(ribbon_calc) \in Ribbon
    BY <1>1, <1>5, <2>1, UpdateTyped
  <2> HIDE DEF mirrored
  <2> QED
    BY <1>2, <2>1, <2>2, <2>3, MirrorTrend
<1> HIDE DEF m5, price, fair, close, mirrored
<1>8. moved => score_momentum_decay(chart, "LONG") = score_momentum_decay(Mirror(chart), "SHORT")
  BY <1>1, MirrorMomentum
<1>9. price # fair =>
        bias_pts(chart, fair, price, "LONG") = bias_pts(Mirror(chart), -fair, -price, "SHORT")
  BY <1>1, <1>2, <1>5, MirrorBias
<1>10. abs_pts(chart, "LONG") = abs_pts(Mirror(chart), "SHORT")
  BY <1>1, MirrorAbsorption
<1> QED
  BY <1>6, <1>7, <1>8, <1>9, <1>10, Zenon DEF m5, price, fair, close, mirrored

(* Whatever trades were won and lost, the fused score is the plain mean of *)
(* the engines on the better side, and below the gate's least threshold:   *)
(* _close counts every outcome for all strategies, so the weights of       *)
(* fusion.py stay equal.                                                   *)
THEOREM AlwaysPlainMean == ScoringSpec => []FusedIsPlainMean
BY ScoringKept, MeanFollows, PTL

(* On any chart the LONG branch of a detector of scoring/ gives the points *)
(* that its SHORT branch gives on the chart turned upside down: swings,    *)
(* gaps, blocks, sweeps, session bias and momentum; and whatever the       *)
(* ribbon was fed, the averages of the mirrored closes are its averages    *)
(* upside down after the next update too, and get the same points.         *)
THEOREM AlwaysMirrored == ScoringSpec => []Mirrored
BY ScoringKept, MirrorFollows, PTL

-----------------------------------------------------------------------------
(* The confluence gate                                                     *)

(* The dictionaries know what the histories record: the counter is the     *)
(* number of qualifying cycles, the decay bounds the time on the           *)
(* watchlist, and what an alert cooldown has lost, cycles have passed.     *)
CountersAgree ==
  \A s \in Symbols :
    /\ consecutive[s] = qualifying[s]
    /\ on_watchlist[s] <= watchlist_decay[s]
    /\ alert_cooldown[s] + since_alert[s] >= AlertCooldown

GateInv == TypeOK /\ EntryIsSustained /\ CountersAgree

(* The gate starts with empty dictionaries. *)
LEMMA GateBegins == GateInit => GateInv
BY CycleAssumption
DEF GateInit, GateInv, TypeOK, EntryIsSustained, CountersAgree, CycleAssumption, Decisions, FullAuto

(* What an evaluation of s leaves in the dictionaries of s, in each case.  *)
After(s, c, w, a, d, q, n, o) ==
  /\ consecutive' = [consecutive EXCEPT ![s] = c]
  /\ watchlist_decay' = [watchlist_decay EXCEPT ![s] = w]
  /\ alert_cooldown' = [alert_cooldown EXCEPT ![s] = a]
  /\ decision' = [decision EXCEPT ![s] = d]
  /\ qualifying' = [qualifying EXCEPT ![s] = q]
  /\ since_alert' = [since_alert EXCEPT ![s] = n]
  /\ on_watchlist' = [on_watchlist EXCEPT ![s] = o]

(* GateInv is kept when the new values agree with each other. *)
LEMMA AfterKeeps ==
  ASSUME GateInv, NEW s \in Symbols,
         NEW c \in 0..Sustain, NEW w \in 0..Decay, NEW a \in 0..AlertCooldown,
         NEW d \in Decisions, NEW n \in 0..AlertCooldown, NEW o \in 0..(Decay + 1),
         After(s, c, w, a, d, c, n, o),
         d \in FullAuto => c = Sustain, o <= w, a + n >= AlertCooldown
  PROVE  GateInv'
<1> USE DEF GateInv, After
<1>1. TypeOK'
  BY DEF TypeOK
<1>2. EntryIsSustained'
  BY DEF EntryIsSustained, TypeOK
<1>3. CountersAgree'
  BY DEF CountersAgree, TypeOK
<1> QED
  BY <1>1, <1>2, <1>3

(* A capped successor stays in its range. *)
LEMMA UpToRange ==
  ASSUME NEW bound \in Nat, NEW n \in Nat
  PROVE  UpTo(bound, n) \in 0..bound /\ (n <= bound => UpTo(bound, n) = n)
BY DEF UpTo

(* An evaluation keeps GateInv, whatever the score and the regime.         *)
LEMMA EvaluateStep ==
  ASSUME GateInv, NEW s \in Symbols, NEW composite \in Composites,
         NEW threshold \in Thresholds, evaluate(s, composite, threshold)
  PROVE  GateInv'
<1> DEFINE c == NextConsecutive(s, composite, threshold)
           n(d) == IF d = "ALERT" THEN 0
                   ELSE IF d \in FullAuto THEN AlertCooldown
                   ELSE UpTo(AlertCooldown, since_alert[s] + 1)
           o(d) == IF d = "WATCHLIST" THEN UpTo(Decay + 1, on_watchlist[s] + 1) ELSE 0
<1>0. Sustain = 2 /\ AlertCooldown \in Nat \ {0} /\ Decay \in Nat \ {0}
      /\ composite \in Int /\ threshold \in Int
  BY CycleAssumption, ScoreAssumption DEF CycleAssumption, ScoreAssumption
<1>1. /\ consecutive[s] \in 0..Sustain /\ qualifying[s] = consecutive[s]
      /\ since_alert[s] \in 0..AlertCooldown /\ alert_cooldown[s] \in 0..AlertCooldown
      /\ watchlist_decay[s] \in 0..Decay /\ on_watchlist[s] \in 0..(Decay + 1)
      /\ on_watchlist[s] <= watchlist_decay[s]
      /\ alert_cooldown[s] + since_alert[s] >= AlertCooldown
  BY DEF GateInv, TypeOK, CountersAgree
<1>2. c \in 0..Sustain
  <2>1. consecutive[s] + 1 \in Nat /\ Sustain \in Nat
    BY <1>0, <1>1
  <2>2. UpTo(Sustain, consecutive[s] + 1) \in 0..Sustain
    BY <2>1, UpToRange
  <2> QED
    BY <1>0, <2>2 DEF NextConsecutive
<1>3. ASSUME NEW a, NEW w, NEW d, d \in Decisions,
             Update(s, composite, threshold, a, w, d)
      PROVE  After(s, c, w, a, d, c, n(d), o(d))
  <2>1. c = IF composite >= threshold THEN UpTo(Sustain, qualifying[s] + 1) ELSE 0
    BY <1>1 DEF NextConsecutive
  <2> QED
    BY <1>3, <2>1 DEF Update, After, GateInv, TypeOK
<1>4. n("WATCHLIST") = UpTo(AlertCooldown, since_alert[s] + 1)
      /\ n("DISCARD") = UpTo(AlertCooldown, since_alert[s] + 1)
      /\ n("ALERT") = 0
      /\ n("FULL_AUTO") = AlertCooldown /\ n("FULL_AUTO_STRONG") = AlertCooldown
      /\ o("WATCHLIST") = UpTo(Decay + 1, on_watchlist[s] + 1)
      /\ o("DISCARD") = 0 /\ o("ALERT") = 0
      /\ o("FULL_AUTO") = 0 /\ o("FULL_AUTO_STRONG") = 0
  BY DEF FullAuto
<1>5. /\ UpTo(AlertCooldown, since_alert[s] + 1) \in 0..AlertCooldown
      /\ UpTo(AlertCooldown, since_alert[s] + 1) >= since_alert[s]
      /\ alert_cooldown[s] > 0
           => alert_cooldown[s] - 1 + UpTo(AlertCooldown, since_alert[s] + 1) >= AlertCooldown
      /\ UpTo(Decay + 1, on_watchlist[s] + 1) \in 0..(Decay + 1)
      /\ UpTo(Decay + 1, on_watchlist[s] + 1) <= on_watchlist[s] + 1
  BY <1>0, <1>1 DEF UpTo
<1> HIDE DEF c, n, o
<1>6. CASE Sustained(s, composite, threshold)
  <2>1. PICK d \in FullAuto : Update(s, composite, threshold, 0, 0, d)
    BY <1>6 DEF Sustained, FullAuto
  <2>2. d \in Decisions /\ n(d) = AlertCooldown /\ o(d) = 0
    BY <1>4, <2>1 DEF FullAuto, Decisions
  <2>3. After(s, c, 0, 0, d, c, AlertCooldown, 0)
    BY <1>3, <2>1, <2>2
  <2>4. c = Sustain
    BY <1>0, <1>2, <1>6 DEF Sustained, c
  <2> QED
    BY <1>0, <1>2, <2>2, <2>3, <2>4, AfterKeeps
<1>7. CASE Alert(s, composite, threshold)
  <2>1. After(s, c, 0, AlertCooldown, "ALERT", c, 0, 0)
    BY <1>3, <1>4, <1>7 DEF Alert, Decisions
  <2> QED
    BY <1>0, <1>2, <2>1, AfterKeeps DEF Decisions, FullAuto
<1>8. CASE Suppressed(s, composite, threshold)
  <2>1. After(s, c, 0, alert_cooldown[s] - 1, "DISCARD", c,
              UpTo(AlertCooldown, since_alert[s] + 1), 0)
    BY <1>3, <1>4, <1>8 DEF Suppressed, Decisions
  <2>2. alert_cooldown[s] > 0
    BY <1>8 DEF Suppressed
  <2>3. alert_cooldown[s] - 1 \in 0..AlertCooldown
    BY <1>0, <1>1, <2>2
  <2>4. 0 \in 0..Decay /\ 0 \in 0..(Decay + 1) /\ 0 <= 0
    BY <1>0
  <2>5. "DISCARD" \in Decisions /\ "DISCARD" \notin FullAuto
    BY DEF Decisions, FullAuto
  <2> QED
    BY <1>2, <1>5, <2>1, <2>2, <2>3, <2>4, <2>5, AfterKeeps
<1>9. CASE Watched(s, composite, threshold)
  <2>1. CASE watchlist_decay[s] + 1 <= Decay
    <3>1. After(s, c, watchlist_decay[s] + 1, alert_cooldown[s], "WATCHLIST", c,
                UpTo(AlertCooldown, since_alert[s] + 1), UpTo(Decay + 1, on_watchlist[s] + 1))
      BY <1>3, <1>4, <1>9, <2>1 DEF Watched, Decisions
    <3>2. watchlist_decay[s] + 1 \in 0..Decay
      BY <1>0, <1>1, <2>1
    <3>3. UpTo(Decay + 1, on_watchlist[s] + 1) <= watchlist_decay[s] + 1
      BY <1>0, <1>1, <1>5
    <3>4. "WATCHLIST" \in Decisions /\ "WATCHLIST" \notin FullAuto
      BY DEF Decisions, FullAuto
    <3>5. alert_cooldown[s] + UpTo(AlertCooldown, since_alert[s] + 1) >= AlertCooldown
      BY <1>0, <1>1, <1>5
    <3> QED
      BY <1>1, <1>2, <1>5, <3>1, <3>2, <3>3, <3>4, <3>5, AfterKeeps
  <2>2. CASE ~(watchlist_decay[s] + 1 <= Decay)
    <3>1. After(s, c, 0, alert_cooldown[s], "DISCARD", c,
                UpTo(AlertCooldown, since_alert[s] + 1), 0)
      BY <1>3, <1>4, <1>9, <2>2 DEF Watched, Decisions
    <3> QED
      BY <1>0, <1>1, <1>2, <1>5, <3>1, AfterKeeps DEF Decisions, FullAuto
  <2> QED
    BY <2>1, <2>2
<1>10. CASE Below(s, composite, threshold)
  <2>1. After(s, c, watchlist_decay[s], alert_cooldown[s], "DISCARD", c,
              UpTo(AlertCooldown, since_alert[s] + 1), 0)
    BY <1>3, <1>4, <1>10 DEF Below, Decisions
  <2> QED
    BY <1>0, <1>1, <1>2, <1>5, <2>1, AfterKeeps DEF Decisions, FullAuto
<1> QED
  BY <1>6, <1>7, <1>8, <1>9, <1>10 DEF evaluate

(* GateInv holds of every behaviour of the gate. *)
THEOREM GateSafe == GateSpec => []GateInv
<1>1. GateInv /\ [GateNext]_gate => GateInv'
  <2> SUFFICES ASSUME GateInv, [GateNext]_gate PROVE GateInv'
    OBVIOUS
  <2>1. ASSUME NEW s \in Symbols, reset(s) PROVE GateInv'
    <3>1. After(s, 0, 0, 0, "DISCARD", 0, AlertCooldown, 0)
      BY <2>1 DEF reset, After, GateInv, TypeOK
    <3> QED
      BY <3>1, AfterKeeps, CycleAssumption DEF CycleAssumption, Decisions, FullAuto
  <2>2. CASE UNCHANGED gate
    BY <2>2 DEF gate, counters, histories, GateInv, TypeOK, EntryIsSustained, CountersAgree
  <2> QED
    BY <2>1, <2>2, EvaluateStep DEF GateNext
<1> QED
  BY GateBegins, <1>1, PTL DEF GateSpec

(* A decision that places an order rests on Sustain qualifying cycles in a *)
(* row, none of them before the last entry.                                *)
THEOREM EntryCorrect == GateSpec => []EntryIsSustained
<1>1. GateInv => EntryIsSustained
  BY DEF GateInv
<1> QED
  BY GateSafe, <1>1, PTL

(* No symbol stays on the watchlist for more than Decay cycles in a row.   *)
THEOREM WatchlistCorrect == GateSpec => []WatchlistExpires
<1>1. ASSUME GateInv, NEW s \in Symbols PROVE on_watchlist[s] <= Decay
  <2>1. /\ on_watchlist[s] <= watchlist_decay[s]
        /\ watchlist_decay[s] \in 0..Decay /\ on_watchlist[s] \in 0..(Decay + 1)
    BY <1>1 DEF GateInv, CountersAgree, TypeOK
  <2> QED
    BY <2>1, CycleAssumption DEF CycleAssumption
<1>2. GateInv => WatchlistExpires
  BY <1>1 DEF WatchlistExpires
<1> QED
  BY GateSafe, <1>2, PTL

(* Two alerts of one signal are at least AlertCooldown cycles apart.       *)
THEOREM AlertsCorrect == GateSpec => AlertsSpaced
<1>1. ASSUME GateInv, [GateNext]_gate
      PROVE  [\A s \in Symbols :
                since_alert'[s] < since_alert[s] => since_alert[s] = AlertCooldown]_gate
  <2> SUFFICES ASSUME GateNext, NEW t \in Symbols, since_alert'[t] < since_alert[t]
               PROVE  since_alert[t] = AlertCooldown
    BY <1>1
  <2>0. /\ since_alert \in [Symbols -> 0..AlertCooldown] /\ AlertCooldown \in Nat
        /\ alert_cooldown[t] + since_alert[t] >= AlertCooldown
    BY <1>1, CycleAssumption DEF GateInv, TypeOK, CountersAgree, CycleAssumption
  <2>1. ASSUME NEW s \in Symbols, NEW composite \in Composites,
               NEW threshold \in Thresholds, evaluate(s, composite, threshold)
        PROVE  since_alert[t] = AlertCooldown
    <3>1. CASE Alert(s, composite, threshold)
      <4>1. alert_cooldown[s] = 0 /\ (t # s => since_alert'[t] = since_alert[t])
        BY <2>0, <3>1 DEF Alert, Update
      <4> QED
        BY <2>0, <4>1
    <3>2. ASSUME NEW a, NEW w, NEW d, d # "ALERT",
                 Update(s, composite, threshold, a, w, d)
          PROVE  since_alert'[t] >= since_alert[t]
      <4>1. CASE t # s
        BY <2>0, <3>2, <4>1 DEF Update
      <4>2. CASE t = s
        <5>1. since_alert'[t] = IF d \in FullAuto THEN AlertCooldown
                                ELSE UpTo(AlertCooldown, since_alert[t] + 1)
          BY <2>0, <3>2, <4>2 DEF Update
        <5> QED
          BY <2>0, <5>1 DEF UpTo
      <4> QED
        BY <4>1, <4>2
    <3>3. since_alert'[t] >= since_alert[t] \/ Alert(s, composite, threshold)
      BY <2>1, <3>2 DEF evaluate, Sustained, Suppressed, Watched, Below
    <3>4. since_alert'[t] \in Int
      BY <1>1, <2>1, EvaluateStep DEF GateInv, TypeOK
    <3> QED
      BY <2>0, <3>1, <3>3, <3>4
  <2>2. ASSUME NEW s \in Symbols, reset(s) PROVE since_alert[t] = AlertCooldown
    BY <2>0, <2>2 DEF reset
  <2> QED
    BY <2>1, <2>2 DEF GateNext
<1>2. GateInv /\ [GateNext]_gate
        => [\A s \in Symbols :
              since_alert'[s] < since_alert[s] => since_alert[s] = AlertCooldown]_gate
  BY <1>1
<1> QED
  BY GateSafe, <1>2, PTL DEF GateSpec, AlertsSpaced
=============================================================================
