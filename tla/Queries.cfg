SPECIFICATION Spec
CONSTANTS
  c1 = c1
  c2 = c2
  Readers = {c1, c2}
  Askers = {c1, c2}
  Refreshers = {loop}
  Loop = loop
  Connections = {stream}
  NoOne = NoOne
  Listings <- TwoListings
  MarketType = "perp"
  Lifetime = 2
  Margin = 1
  LastTime = 4
  Settings <- FourSettings
  Books <- SomeBooks
CHECK_DEADLOCK FALSE
INVARIANTS NothingHidden
PROPERTIES MarketsNeverGoBack TokensLast EverythingEnds
