--------------------------- MODULE MCObservedCache ---------------------------
(* Scenarios of ObservedCache for TLC.                                     *)
EXTENDS ObservedCache

CONSTANTS c1, c2, k1, k2

MCContexts == {Background, {<<"env", "production">>}, {<<"request_id", "r">>}}
MCArgs == {NoArgs}

CountAtom(kind, name, labels, byReason) ==
  [does |-> "count", kind |-> kind, name |-> name, labels |-> labels, byReason |-> byReason]
CallAtom(op) == [does |-> "call", op |-> op]

\* an unconditional counter of each event of E, of high priority
Counting(h, E) ==
  [e \in Events |->
     IF e \in E
       THEN AddOnCtxWithPriority(h, e, Hook(CountAtom("counter", e, [cache_name |-> "c"],
                                                      e = "evict")), Priority.High)[e]
       ELSE h[e]]

Config == NewDefaultConfig
Prom == NewPrometheus({}, NoLabels, Config)
Otel == NewOpenTelemetry(WithLabels(Config, [region |-> "eu"]))

Plain == [hooks |-> NoHooks, ops |-> {"Get"}, keys |-> Keys, callers |-> Callers, calls |-> 3,
          exporters |-> <<>>, registry |-> {}, labels |-> [cache_name |-> "default"],
          strategy |-> FALSE, reporting |-> FALSE, debugging |-> FALSE, expiry |-> FALSE,
          len |-> 1, counted |-> {}, logged |-> {}]

Logs(level) == EnableLogging(WithLevel(NewLoggingHookBuilder, level), Events)
LogEvents(h) == [h EXCEPT !.hooks = Counting(Build(Logs("DEBUG")), Events),
                          !.exporters = <<Prom.exporter>>, !.registry = Prom.reg,
                          !.counted = Events, !.logged = Events]

Calls(op, E) == [e \in Events |-> IF e \in E THEN AddOn(NoHooks, e, Hook(CallAtom(op)))[e]
                                             ELSE NoHooks[e]]

\* one name, two sets of labels and two kinds
Mismatched ==
  LET hits == AddOnWithPriority(NoHooks, "hit",
                Hook(CountAtom("counter", "events", [key |-> "k"], FALSE)), Priority.Low)
      misses == AddOn(hits, "miss",
                Hook(CountAtom("counter", "events", [key |-> "k", kind |-> "miss"], FALSE)))
  IN AddOnCtx(misses, "evict", Hook(CountAtom("gauge", "events", NoLabels, TRUE)))

Composed ==
  LET c == Hook(CountAtom("counter", "hit", NoLabels, FALSE))
      m == Hook(CountAtom("histogram", "ms", NoLabels, FALSE))
      env == ContextValueCondition("env", "production")
      some == OrCondition(<<NilCond, KeyPrefixCondition({k1}), env>>)
      hits == AddOnCtxWithPriority(NoHooks, "hit", Combine(<<NilHook, c, m>>), Priority.High)
      cond == AddOnCtx(hits, "hit", ConditionalHook(NilHook, AndCondition(<<env, some>>)))
      none == AddOnCtxIf(cond, "miss", m, NilCond)
      nils == AddOnWithPriority(none, "miss", NilHook, Priority.Low)
  IN AddOnCtx(nils, "miss", ConditionalHook(NilHook, KeyPrefixCondition({k2})))

Timed2 == NewPrometheus({}, NoLabels, WithKeyValueSizes(WithDetailedTimings(Config, TRUE), TRUE))

Configurations ==
  [logging |-> LogEvents([Plain EXCEPT !.ops = {"Get", "Set", "Delete", "Reset"}]),
   conditional |-> [Plain EXCEPT !.ops = {"Get", "Set"}, !.calls = 2,
     !.hooks = ExampleConditionalLogging({k1}, {k2})],
   composed |-> [Plain EXCEPT !.ops = {"Get", "Set"}, !.hooks = Composed, !.calls = 2,
     !.exporters = <<Prom.exporter>>, !.registry = Prom.reg, !.counted = {"hit"}],
   reentrant |-> [Plain EXCEPT !.ops = {"Get", "Set", "Delete", "Stats"},
     !.hooks = Calls("Stats", {"hit", "miss", "invalidate"})],
   resetting |-> [Plain EXCEPT !.ops = {"Get", "Set"}, !.calls = 2,
     !.hooks = Calls("Reset", Events)],
   blocking |-> [Plain EXCEPT !.ops = {"Get", "Set", "Clear"}, !.hooks = Calls("Len", Events)],
   mismatch |-> [Plain EXCEPT !.ops = {"Get", "Set", "Close"}, !.hooks = Mismatched,
     !.strategy = TRUE, !.exporters = <<Prom.exporter, Otel>>, !.registry = Prom.reg],
   reporting |-> [Plain EXCEPT !.ops = {"Get", "Close", "Reset"}, !.reporting = TRUE,
     !.exporters = <<Timed2.exporter, Otel>>, !.registry = Timed2.reg],
   cleanup |-> LogEvents([Plain EXCEPT !.ops = {"Get", "Set", "Cleanup"},
     !.keys = {k1}, !.callers = {c1}, !.expiry = TRUE]),
   clearing |-> LogEvents([Plain EXCEPT !.ops = {"Set", "Clear", "Close"}, !.strategy = TRUE]),
   truncating |-> [Plain EXCEPT !.ops = {"Set", "Has", "Close"}, !.keys = {k1},
     !.expiry = TRUE, !.len = 5, !.hooks = Build(IncludeValues(Logs("INFO"), 2))],
   debugging |-> [Plain EXCEPT !.ops = {"Get", "Set", "Reset"}, !.keys = {k1}, !.calls = 2,
     !.debugging = TRUE, !.hooks = ExampleAdvancedLogging]]

\* a function, which TLC keeps evaluated
MCScenarios == [name \in DOMAIN Configurations |-> Configurations[name]]

HooksIn(h) ==
  UNION {Range(h[e].plain \o h[e].ctx)
         \union {x.hook : x \in Range(h[e].priority \o h[e].ctxPriority)}
         \union {x.hook : x \in Range(h[e].conditional)} : e \in Events}
MCAtoms ==
  UNION {{hook[i].do : i \in DOMAIN hook} :
           hook \in UNION {HooksIn(MCScenarios[n].hooks) : n \in DOMAIN MCScenarios} \ {NilHook}}
=============================================================================
