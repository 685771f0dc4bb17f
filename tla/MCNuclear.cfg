SPECIFICATION WatchedSpec
CONSTANTS
  Positions = {p1, p2}
  Marks <- MCMarks
  Results <- MCResults
  RealizedRange <- MCRealizedRange
  Equities <- MCEquities
  ProfitCeiling = 10
  LossFloor <- MCLossFloor
  GainPct = 15
  LossPct = 4
  Cooldown = 2
  CloseTimeout = 1
  LockAfter = 2
  CountCap = 3
  NetEquity = 10000
  Commanders = {"closes", "no_close"}
INVARIANTS CooldownHalts LockIsEarned
PROPERTIES LockedDayStaysHalted EveryPositionReached TriggerHalts BreachAnswered
CHECK_DEADLOCK TRUE
