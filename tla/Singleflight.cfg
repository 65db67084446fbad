SPECIFICATION FairSpec
CONSTANTS
  Callers = {p1, p2, p3}
  Keys = {k1}
  Outcomes = {v1, v2}
  NoCall = NoCall
  NoOutcome = NoOutcome
  NoKey = NoKey
  Empty = Empty
  CtxErr = CtxErr
  MayForget = TRUE
  MayPanic = TRUE
CHECK_DEADLOCK FALSE
INVARIANTS TypeOK InFlightBound AnswerIsShared RegisteredIsOpen
PROPERTY ReturnsUnlessPanicked
