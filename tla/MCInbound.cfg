SPECIFICATION InboundSpec
CONSTANTS
  Instruments = {a, b}
  Strangers = {x}
  TickMax = 2
  FillMax = 1
  MaxLines = 4
INVARIANTS Accounted NewestKept SoundDelivered
PROPERTIES TicksServed
CHECK_DEADLOCK FALSE
