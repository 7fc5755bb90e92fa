SPECIFICATION Spec
CONSTANTS
  Threads = {g1, g2}
  Tiers = {"standard", "premium"}
  WindowSeconds = 2
  Limit <- Budgets
  Reads = {"nextNonce"}
  Weight <- Weights
  DefaultWeight = 3
  FirewallSeconds = 2
  Batches = {2}
  MaxRequests = 4
  MaxSecond = 4
SYMMETRY Interchangeable
CHECK_DEADLOCK FALSE
INVARIANTS NothingLost OverrunBounded CooldownKept
