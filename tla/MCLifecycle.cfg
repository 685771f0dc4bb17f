SPECIFICATION Spec
CONSTANTS
  p1 = p1
  p2 = p2
  a = a
  b = b
  NORMAL = NORMAL
  BURST = BURST
  Symbols <- MCSymbols
  Positions <- MCPositions
  SymbolOf <- MCSymbolOf
  Longs <- MCLongs
  Prices <- MCPrices
  Entry = 2
  StopDistance = 2
  Modes = {NORMAL, BURST}
  Trigger <- MCTrigger
  TrailFloor <- MCTrailFloor
  HalfAtrs = {1}
  MaxDistance = 2
  NoPosition = NoPosition
CHECK_DEADLOCK TRUE
INVARIANTS TrailKeepsUp StopsHonoured RecordedOnce
PROPERTIES TrailRatchets ClosedLeaves
