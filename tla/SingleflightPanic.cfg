SPECIFICATION FairSpec
CONSTANTS
  Callers = {p1, p2}
  Keys = {k1}
  Outcomes = {v1}
  NoCall = NoCall
  NoOutcome = NoOutcome
  NoKey = NoKey
  Empty = Empty
  CtxErr = CtxErr
  MayForget = FALSE
  MayPanic = TRUE
CHECK_DEADLOCK FALSE
PROPERTY EveryCallerReturns
