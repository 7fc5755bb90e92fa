\* Two decimals, int64 up to 99.49, and requests of every kind.
CONSTANTS
  Base = 10
  FixedDecimals = 2
  MaxInt = 9949
  MaxWirePrice = 500
  MaxWireSize = 900
  ChainID = 304
  MaxAccountIndex = 9
  MaxClientOrderIndex = 8
  MaxOrderIndex = 12
  MaxTimestamp = 2000
  MaxTransferAmount = 800
  FeeTick = 3
  Word = 16
  Markets <- ThreeMarkets
  Keys <- TwoKeys
  AccountIndex = 7
  Now = 1000
  MinOrderExpiryPeriod = 5
  MaxOrderExpiryPeriod = 30
  DefaultOrderExpiry = 28
  MinCancelAllPeriod = 5
  MaxCancelAllPeriod = 15
  TxExpiry = 9
  MaxBatchSizeREST = 2
  MaxBatchSizeWS = 1
  USDCDecimals = 1
  Requested <- ManyRequests
  Drafts <- FiguresOf
  Nonces = {4}
  Refusals <- TwoRefusals
SPECIFICATION Spec
INVARIANTS
  SentAsAsked
  SignatureCoversInfo
  GroupOnlyReduces
  FiguresKept
  CancelsTheForgotten
  VerdictSound
CHECK_DEADLOCK FALSE
