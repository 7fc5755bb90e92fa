\* An exchange that may take a prefix of a batch and answer with an error, and
\* an application that seeds the lane with a value that is not ahead of it.
CONSTANTS
  s1 = s1
  s2 = s2
  s3 = s3
  x1 = x1
  None = None
  Sends = {s1, s2, x1}
  Explicit = {x1}
  Size <- BatchOfTwo
  Nonces <- ExplicitNonces
  Seeds = {0}
  AtomicBatch = FALSE
SPECIFICATION FairSpec
INVARIANT
  LaneNeverAhead
PROPERTY
  EveryCallReturns
