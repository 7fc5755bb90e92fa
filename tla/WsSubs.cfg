SPECIFICATION LiveSpec
CONSTANTS
  a = a
  b = b
  K1 = K1
  Consumers = {a, b}
  Keys = {K1}
  KeyOf <- SharedChannel
  Private = {K1}
  Leavers = {a}
  Workers = {}
  WorkerOf <- NoWorkers
  MaxSockets = 3
  MaxVersion = 2
  MaxClose = 1
CHECK_DEADLOCK FALSE
INVARIANTS UndisturbedIsFed NoMixing MemberOnce
PROPERTY UndisturbedIsFedAtLast
