SPECIFICATION DiscoverSpec
CONSTANTS
  alpha = alpha  beta = beta  delta = delta  rho = rho  own = own
  NoCard = NoCard  Torn = Torn
  AbsoluteUrls <- WebUrls
  LocalUrl = "http://localhost:3141"
  NoUrl = ""
  FirstEntry <- TheEntries
  Own = own
  FirstFiles <- FirstCards
  Ids <- TheIds
  Descriptions <- TheDescriptions
  UrlOf <- Urls
  NameOf <- Names
  Orders <- TheOrders
  Limits = {2}
  Unreadable = Unreadable
  Extra = 1
  MaxFollows = 1
  MaxRows = 2
  MaxForms = 4
INVARIANTS
  EveryRouteAgrees
  AcceptedStaysAccepted
  SuggestionsAreNew
  ListIsFull
