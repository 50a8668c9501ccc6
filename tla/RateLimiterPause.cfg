SPECIFICATION WindowSpec
CONSTANTS
  c1 = c1  c2 = c2  c3 = c3
  Callers <- ThreeCallers
  MaxTokens = 2
  Interval = 2
  Minute = 5
  Delays <- ShortDelays
PROPERTIES
  PausedDuringBackoff
