SPECIFICATION MarketSpec
CONSTANTS
  Sessions = {"LONDON", "OVERLAP"}
  Quotes <- TwoQuotes
  FirstTicks = {4}
  Advances <- Steps
  MaxSize <- Sizes
  RingSize = 3
  PriceWindow = 2
  Period = 2
  WarmM1 = 2
  WarmM5 = 2
  MaxTicks = 5
  MaxChanges = 2
INVARIANTS BarsAreHistory SnapshotSound
CHECK_DEADLOCK FALSE
