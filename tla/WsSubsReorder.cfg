SPECIFICATION Spec
CONSTANTS
  a = a
  b = b
  K1 = K1
  Consumers = {a, b}
  Keys = {K1}
  KeyOf <- SharedChannel
  Private = {}
  Leavers = {a}
  Workers = {}
  WorkerOf <- NoWorkers
  MaxSockets = 1
  MaxVersion = 2
  MaxClose = 0
CHECK_DEADLOCK FALSE
INVARIANT WatchedIsFed
