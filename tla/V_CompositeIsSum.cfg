SPECIFICATION SignalsSpec
CONSTANTS
  Shapes <- Bars
  MaxBars = 4
  MaxTrades = 1
  MaxCycles = 2
  Inputs <- Snapshots
  Span <- Windows
  Tolerance = 1
  Alphas <- Averages
  AlphaUnit = 8
  LeastThreshold = 130
  Symbols = {a, b}
  Composites <- Scores
  Thresholds <- RegimeThresholds
  Bonus = 20
  Band = 20
  Sustain = 2
  AlertCooldown = 3
  Decay = 3
INVARIANTS CompositeIsSum
CHECK_DEADLOCK FALSE
