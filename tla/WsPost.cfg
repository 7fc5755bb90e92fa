SPECIFICATION LiveSpec
CONSTANTS
  Calls = {p1, p2}
  MaxSockets = 2
  CloseBeforeStart = FALSE
  None = None
INVARIANTS OwnReply OneVerdict NobodyForgotten NoLeak
PROPERTIES CloseIsPermanent EveryPostReturns
