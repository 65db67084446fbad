SPECIFICATION FairSpec
CONSTANTS
  c1 = c1
  c2 = c2
  k1 = k1
  k2 = k2
  Keys = {k1, k2}
  Callers = {c1, c2}
  Removers = {r1}
  Reporter = reporter
  Janitor = janitor
  Debugger = debugger
  Nobody = Nobody
  Capacity = 1
  MaxTicks = 1
  MaxExpiries = 1
  Contexts <- MCContexts
  Args <- MCArgs
  NoArgs = NoArgs
  NilValue = NilValue
  NilHook = NilHook
  NilCond = NilCond
  NilLogger = NilLogger
  NilConfig = NilConfig
  Scenarios <- MCScenarios
  Atoms <- MCAtoms
CHECK_DEADLOCK FALSE
INVARIANTS TypeOK LocksFreed HooksSeeEveryEvent CountedBeforeLogged LastExportComplete DebugConsistent
PROPERTIES NothingExportedAfterClose EveryCallReturns
