SPECIFICATION Spec
CONSTANTS
  Callers = {p1, p2}
  Keys = {k1}
  MaxVersion = 0
  NoCall = NoCall
  NoOutcome = NoOutcome
  NoKey = NoKey
  Empty = Empty
  CtxErr = CtxErr
  NoEntry = NoEntry
  MayErr = FALSE
  CacheErrors = {}
  MayInvalidate = FALSE
  MayPanic = FALSE
CHECK_DEADLOCK FALSE
INVARIANT AnsweredMeansCached
