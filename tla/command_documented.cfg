SPECIFICATION Spec
CONSTANTS
  Word = 8
  UsPerSecond = 3
  DEFAULT_FN = 1
  Missing = Missing
  Responses <- ResponsesInRange
PROPERTIES CommandsAsDocumented
