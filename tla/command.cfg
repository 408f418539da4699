SPECIFICATION Spec
CONSTANTS
  Word = 8
  UsPerSecond = 3
  DEFAULT_FN = 1
  Missing = Missing
  Responses <- AllResponses
INVARIANTS TypeOK IntervalAsAgreed ZeroOnlyUntilSleep
PROPERTIES IntervalSpec
