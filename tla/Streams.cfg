SPECIFICATION Spec
CONSTANTS
  Listings <- TwoListings
  MarketType = "perp"
  Readers = {w}
  Watcher = w
  Refreshers = {loop}
  NoOne = NoOne
  Watches <- SomeWatches
  Shared <- Shareds
  MaxPushes = 2
  MaxPrice = 3
  MaxSize = 2
  Depths = {0, 2}
  MaxVersion = 3
  Calls = {c1, c2}
  Observers = {mine, other}
  Mine = mine
  Hashes = {h1, h2, h3}
  maxEntries = 2
  MaxReports = 5
  Batches <- Pairs
SYMMETRY Interchangeable
CHECK_DEADLOCK FALSE
INVARIANTS BookIsExact RingIsNewest NobodyForgotten PushIsOwn
