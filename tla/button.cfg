SPECIFICATION FairSpec
CONSTANTS
  BounceTicks = 2
  DebounceTicks = 2
  BeepTicks = 3
INVARIANTS TypeOK
PROPERTIES BeepAnswersPress HeldPressBeeps WakeUpBeeps
