\* Four concurrent Acquires on a skip lane that the application may invalidate at any time.
CONSTANTS
  s1 = s1
  s2 = s2
  s3 = s3
  s4 = s4
  Sends = {s1, s2, s3, s4}
  Size <- Sizes
  Clocks <- Times
SPECIFICATION FairSpec
INVARIANTS
  NeverReused
  RunsAheadBounded
PROPERTIES
  HandedOutInOrder
  EveryAcquireReturns
