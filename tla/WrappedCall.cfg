SPECIFICATION Spec
CONSTANTS
  Callers = {p1, p2, p3}
  Keys = {k1}
  MaxVersion = 1
  NoCall = NoCall
  NoOutcome = NoOutcome
  NoKey = NoKey
  Empty = Empty
  CtxErr = CtxErr
  NoEntry = NoEntry
  MayErr = TRUE
  CacheErrors = {p1}
  MayInvalidate = TRUE
  MayPanic = TRUE
CHECK_DEADLOCK FALSE
INVARIANTS TypeOK FreshAfterDelete InFlightShort OnlyLoneAnswersCached
