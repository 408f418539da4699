SPECIFICATION SerialSpec
CONSTANTS
  a = a
  d = d
  Empty = Empty
  TooLong = TooLong
  Absent = Absent
  Missing = Missing
  Text <- MCText
  FactoryText <- MCFactoryText
  FactoryPort = 0
  MaxPort = 1
  Requests <- MCRequests
  LineMax = 2
  IdleTicks = 1
  MaxTicks = 1
  PollTicks = 1
  HandleTicks = 0
  HostMax = 3
ACTION_CONSTRAINT Bounded
INVARIANTS SerialAsDocumented
