SPECIFICATION FollowSpec
CONSTANTS
  c1 = c1  c2 = c2  c3 = c3  f1 = f1  f2 = f2
  A = A  B = B  x = x  y = y  z = z
  Calls <- ThreeCalls
  FollowCalls = {}
  Registries <- TwoRegistries
  AgentsOf <- TheirAgents
  Typed = {x}
  FirstHolders <- FreeOrTaken
  AtHandle = AtHandle
  Handle = Handle
  MaxCommands = 3
  MaxMoves = 1
PROPERTY
  RegisterNeverOverwrites
CHECK_DEADLOCK FALSE
