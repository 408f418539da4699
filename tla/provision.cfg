SPECIFICATION Spec
CONSTANTS
  a = a
  d = d
  Empty = Empty
  TooLong = TooLong
  Absent = Absent
  Missing = Missing
  Text <- MCText
  FactoryText <- MCFactoryText
  FactoryPort = 2
  MaxPort = 3
  Requests <- AllRequests
ACTION_CONSTRAINT FewUnread
INVARIANTS TypeOK RunningAsPromised
PROPERTIES StoreSpec AckIsTrue
