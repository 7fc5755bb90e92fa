\* A sequential lane with a batch, two sends, and a caller that passes its own nonce.
CONSTANTS
  s1 = s1
  s2 = s2
  s3 = s3
  x1 = x1
  None = None
  Sends = {s1, s2, s3, x1}
  Explicit = {x1}
  Size <- BatchOfTwo
  Nonces <- ExplicitNonces
  Seeds = {}
  AtomicBatch = TRUE
SPECIFICATION Spec
INVARIANTS
  LaneTracksAccount
  NonceErrorMeansOvertaken
  ToldTheTruth
PROPERTY
  SubmitsOnce
SYMMETRY Interchangeable
