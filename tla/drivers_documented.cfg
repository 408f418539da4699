SPECIFICATION TogetherSpec
CONSTANTS
  Dates <- MCBefore2000
  PowerUp = {0}
  Taken = {7}
  MaxTicks = 0
  MaxYears = 0
  Synced <- MCSynced
  Unknown = Unknown
  Byte = 2
  Sector = 2
  FlashSize = 2
  PieceSize = 2
  ChipPage = 2
  EepromSize = 2
INVARIANTS DriversAsDocumented
