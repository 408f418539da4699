SPECIFICATION Spec
CONSTANTS
  LineMax = 4
  IdleTicks = 5
  MaxTicks = 13
  PollTicks = 2
  HandleTicks = 3
  HostMax = 9
INVARIANTS TypeOK BufferHoldsTail ShortLinesWhole HardCap
PROPERTIES ActiveHostKeepsWindow
CHECK_DEADLOCK FALSE
