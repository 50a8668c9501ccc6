SPECIFICATION Spec
CONSTANTS
  m1 = m1  m2 = m2  c1 = c1  w1 = w1
  Messages <- TwoMessages
  Contexts <- OneContext
  Kinds <- SocialOnly
  ConfigIds <- OneConfig
  EmptyId = EmptyId
  None = None
  MaxUpdates = 1
  MaxInFlight = 1
PROPERTIES
  TerminalStatesAreFinal
CHECK_DEADLOCK FALSE
