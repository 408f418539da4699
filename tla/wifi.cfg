SPECIFICATION FairSpec
INVARIANTS TypeOK AlwaysTrying AddressNoticed OffStaysOff
PROPERTIES MainGetsThrough
CHECK_DEADLOCK FALSE
