SPECIFICATION FairCycleSpec
CONSTANTS
  Word = 8
  UsPerSecond = 3
  DEFAULT_FN = 1
  Missing = Missing
  Responses <- MCResponses
  QueueLen = 20
  Synced = 1
  Far = 2
  Outside = Outside
  Flaky <- MCFlaky
INVARIANTS CycleTypeOK ReportComplete SensorsStampedAfterSync NothingOutlivesCycle
PROPERTIES SleepUsesLastInterval EveryCycleEnds SleepsUnlessInterrupted
