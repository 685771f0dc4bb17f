CONSTANTS
    Users = {u1, u2}
    Commands = {"nuke", "kill", "pause"}
    Limit <- TwoEach
    Window = 3
    CleanupInterval = 2
    IdleFor = 3
    Ttl = 1
    MaxMessages = 2
    AlertWindow = 2
    Controllers = {"none", "main", "tests"}
    None = None
    MaxTime = 4
    MaxCalls = 5
SPECIFICATION Spec
SYMMETRY Symmetry
INVARIANT LimitsHold
PROPERTY ConfirmedOnce
CHECK_DEADLOCK FALSE
