SPECIFICATION Spec
CONSTANTS
  Dates <- MCDates
  PowerUp <- MCPowerUp
  Taken <- MCTaken
  MaxTicks = 3
  MaxYears = 3
  Synced <- MCSynced
  Unknown = Unknown
  Byte = 4
  Sector = 8
  FlashSize = 16
  PieceSize = 2
  ChipPage = 4
  EepromSize = 12
INVARIANTS
  TypeOK
  ClockKeepsTime
  HalfSetNoticed
  FlashAsAsked
  EepromAsAsked
