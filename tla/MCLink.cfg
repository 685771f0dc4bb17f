SPECIFICATION Spec
CONSTANTS
  Dispatches = {d1}
  QueueMax = 2
  Threshold = 2
  MaxAttempts = 2
  MaxMessages = 3
INVARIANTS TypeOK WriterConserves
PROPERTIES LinkSettles CommandsLeave
CHECK_DEADLOCK TRUE
