SPECIFICATION BookLiveSpec
CONSTANTS
  a = a
  b = b
  a1 = a1
  a2 = a2
  b1 = b1
  K1 = K1
  Consumers = {a}
  Keys = {K1}
  KeyOf <- OneMarket
  Private = {}
  Leavers = {}
  Workers = {a1, a2}
  WorkerOf <- Goroutines
  Breakable = {a}
  MaxSockets = 2
  MaxVersion = 4
  MaxClose = 1
CHECK_DEADLOCK FALSE
INVARIANTS ShownIsExact GapHeals
PROPERTY GapHealsAtLast
