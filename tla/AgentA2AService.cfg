SPECIFICATION ServiceSpec
CONSTANTS
  k1 = k1  k2 = k2  Me = Me  Peer = Peer
  Scripts <- SomeScripts
  Stops <- TwoStops
  Limit = 2
  MaxPosts = 2
  MaxRows <- ThreeForPolls
SYMMETRY StopSymmetry
INVARIANTS
  RequestsHaveTheDatabase
  CallsAreRecorded
  LastWishWins
  PollsMissNothing
CHECK_DEADLOCK FALSE
