CONSTANTS
    Tasks = {t1, t2}
    Orders = {o1, o2, o3}
    MaxCrashes = 1
    JournalCalls = {"main", "api"}
    Results = {"win", "even"}
    Lookback = 2
    MinWins = 1
    NoOrder = NoOrder
SPECIFICATION Spec
SYMMETRY Symmetry
INVARIANTS RowsAreFills JournalSound
PROPERTIES JournalKeepsRows FiguresFollowTrades
CHECK_DEADLOCK FALSE
