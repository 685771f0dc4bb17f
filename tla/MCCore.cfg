SPECIFICATION CoreSpec
CONSTANTS
  Positions <- MCPositions
  Marks <- MCMarks
  Results <- MCResults
  RealizedRange <- MCRealizedRange
  Equities <- MCEquities
  ProfitCeiling = 10
  LossFloor <- MCLossFloor
  GainPct = 15
  LossPct = 4
  Cooldown = 1
  CloseTimeout = 0
  LockAfter = 2
  CountCap = 2
  Commanders = {"closes", "no_close"}
  Symbols = {a, b}
  MaxConcurrent = 1
  MaxId = 3
  Registries = {"raises", "answers"}
INVARIANTS CapOvershootBounded HaltLeakBounded IdsDistinct
PROPERTIES HaltEnds Spec
CHECK_DEADLOCK TRUE
