SPECIFICATION BookSpec
CONSTANTS
  a = a
  b = b
  a1 = a1
  a2 = a2
  b1 = b1
  K1 = K1
  Consumers = {a, b}
  Keys = {K1}
  KeyOf <- TwoWatchers
  Private = {}
  Leavers = {}
  Workers = {a1, b1}
  WorkerOf <- GoroutinesOfTwo
  Breakable = {}
  MaxSockets = 1
  MaxVersion = 4
  MaxClose = 0
CHECK_DEADLOCK FALSE
INVARIANT GapHeals
