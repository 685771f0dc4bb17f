SPECIFICATION Spec
CONSTANTS
  Opens = {o1, o2}
  Closes = {c1}
  MaxAttempts = 2
  QueueMax = 1
  PipeMax = 1
  LateCalls = {o1}
  NoReply = NoReply
INVARIANTS OpenedIsFilled TrackersFollow
PROPERTIES ImplementsPort
CHECK_DEADLOCK FALSE
