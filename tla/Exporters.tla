------------------------------ MODULE Exporters ------------------------------
(***************************************************************************)
(* The exporters of pkg/metrics, as operators on the record of an          *)
(* exporter.  PrometheusExporter and OpenTelemetryExporter accumulate      *)
(* samples: `total' maps a metric and its labels to the sum of what was    *)
(* added, `last' to what a gauge was last set to.  Labels are functions    *)
(* from names to values.  A MultiExporter is a sequence of exporters, and  *)
(* the NoOpExporter the empty one.  Of the two libraries underneath only   *)
(* what the exporters meet is here: a Prometheus registry refuses a name   *)
(* it has, and a vector panics when it is asked for other label names.     *)
(***************************************************************************)
EXTENDS Naturals, Sequences, Functions, FiniteSets, TLC

NoLabels == [n \in {} |-> ""]

\* metrics.Config: what the exporters use of it.  WithLabels adds to the
\* labels, the other With... set their field.
NewDefaultConfig == [labels |-> NoLabels, timings |-> FALSE, sizes |-> FALSE, interval |-> 30]
WithLabels(config, labels) == [config EXCEPT !.labels = labels @@ @]
WithReportingInterval(config, t) == [config EXCEPT !.interval = t]
WithDetailedTimings(config, on) == [config EXCEPT !.timings = on]
WithKeyValueSizes(config, on) == [config EXCEPT !.sizes = on]

\* Counters, histograms and gauges of DefaultMetricNames
Counters == <<"hits", "misses", "evictions", "invalidations", "operations", "errors">>
Histograms(config) == (IF config.timings THEN <<"duration">> ELSE <<>>)
                      \o (IF config.sizes THEN <<"keySize", "valueSize">> ELSE <<>>)
Gauges == <<"keys", "inFlight", "hitRate">>

New(kind, config) ==
  [kind |-> kind, config |-> config, custom |-> [n \in {} |-> {}],
   total |-> [s \in {} |-> 0], last |-> [s \in {} |-> 0]]

Sample(name, labels) == [name |-> name, labels |-> labels]

Add(x, s, n) ==
  [x EXCEPT !.total = [t \in DOMAIN @ \union {s} |->
     (IF t \in DOMAIN @ THEN @[t] ELSE 0) + (IF t = s THEN n ELSE 0)]]
SetTo(x, s, n) == [x EXCEPT !.last = (s :> n) @@ @]

\* What has been added to a metric, under whatever labels
Exported(x, name) ==
  FoldFunctionOnSet(LAMBDA n, acc : n + acc, 0, x.total,
                    {s \in DOMAIN x.total : s.name = name})

-----------------------------------------------------------------------------
(* Construction.                                                           *)

\* A registry is the set of what is registered: the name, the help text, the
\* constant labels and the other label names.  What collides is refused.
Registrable(reg, d) ==
  /\ DOMAIN d.const \intersect d.names = {}
  /\ \A r \in reg : r.name = d.name =>
       /\ r.const # d.const
       /\ r.help = d.help /\ DOMAIN r.const \union r.names = DOMAIN d.const \union d.names

\* the labels of a standard metric beside the constant ones
StandardNames(name) ==
  {"cache_name"}
  \union (IF name = "evictions" THEN {"reason"} ELSE {})
  \union (IF name \in {"operations", "errors", "duration"} THEN {"operation"} ELSE {})
  \union (IF name = "operations" THEN {"result"} ELSE {})

\* createStandardMetrics stops at the first metric it cannot register, and
\* leaves those before it in the registry
PrometheusStandard(reg, const, config) ==
  LET names == Counters \o Histograms(config) \o Gauges
      desc(i) == [name |-> names[i], help |-> names[i], const |-> const,
                  names |-> StandardNames(names[i])]
      refused == {i \in DOMAIN names : ~Registrable(reg, desc(i))}
      upTo == {i \in DOMAIN names : \A j \in refused : i < j}
  IN [ok |-> refused = {}, reg |-> reg \union {desc(i) : i \in upTo}]

\* NewPrometheusExporter.  The labels of the configuration are written into the
\* caller's PrometheusConfig.DefaultLabels; custom metrics get only the former.
NewPrometheus(reg, defaults, config) ==
  LET const == config.labels @@ defaults
  IN PrometheusStandard(reg, const, config)
       @@ [defaults |-> const, exporter |-> New("prometheus", config)]

\* NewOpenTelemetryExporter, with a meter; a meter hands out a name any number
\* of times
NewOpenTelemetry(config) == New("otel", config)

-----------------------------------------------------------------------------
(* What the cache reports.                                                 *)

\* The order in which ExportStats reads the statistics
ExportOrder(x) ==
  IF x.kind = "prometheus"
    THEN <<"hits", "misses", "invalidations", "evictions">> \o Gauges
    ELSE <<"hits", "misses", "evictions", "invalidations">> \o Gauges

\* PrometheusExporter.ExportStats keeps only the label cache_name, and adds
\* the current value of a counter to what it added before
PrometheusExport(x, name, n, labels) ==
  LET base == Restrict(labels, {"cache_name"} \intersect DOMAIN labels)
  IN IF name \in Range(Gauges) THEN SetTo(x, Sample(name, base), n)
     ELSE Add(x, Sample(name, IF name = "evictions" THEN base @@ [reason |-> "capacity"]
                                                    ELSE base), n)

\* convertLabels of OpenTelemetry: the exporter's labels and the given ones,
\* which come last and win.  (Not of a nil map, which a cache never gives: that
\* would be recorded without the exporter's labels.)
Attributes(x, labels) == labels @@ x.config.labels

\* OpenTelemetryExporter.ExportStats: also added again
OpenTelemetryExport(x, name, n, labels) ==
  IF name \in Range(Gauges) THEN SetTo(x, Sample(name, Attributes(x, labels)), n)
  ELSE Add(x, Sample(name, Attributes(x, labels)), n)

Export(x, name, n, labels) ==
  IF x.kind = "prometheus" THEN PrometheusExport(x, name, n, labels)
                           ELSE OpenTelemetryExport(x, name, n, labels)

Timed(x, labels) == IF x.config.timings THEN Add(x, Sample("duration", labels), 1) ELSE x

\* RecordCacheOperation: Prometheus does not count the operation
PrometheusRecord(x, op, labels) ==
  Timed(x, Restrict(labels, {"cache_name"} \intersect DOMAIN labels) @@ [operation |-> op])
OpenTelemetryRecord(x, op, labels) ==
  LET at == [operation |-> op] @@ Attributes(x, labels)
  IN Timed(Add(x, Sample("operations", at), 1), at)

Record(x, op, labels) ==
  IF x.kind = "prometheus" THEN PrometheusRecord(x, op, labels)
                           ELSE OpenTelemetryRecord(x, op, labels)

-----------------------------------------------------------------------------
(* Custom metrics: IncrementCounter, RecordHistogram, SetGauge.  The answer *)
(* has the registry, the exporter and how the call ends.                   *)

Apply(x, kind, s, v) ==
  IF kind = "gauge" THEN SetTo(x, s, v) ELSE Add(x, s, IF kind = "counter" THEN 1 ELSE v)

\* The first use of a name fixes its label names; the registry may refuse it
PrometheusCustom(reg, x, kind, name, labels, v) ==
  LET id == <<kind, name>>
      known == id \in DOMAIN x.custom
      desc == [name |-> name, help |-> kind, const |-> x.config.labels,
               names |-> DOMAIN labels]
      y == IF known THEN x
           ELSE [x EXCEPT !.custom = [n \in DOMAIN @ \union {id} |->
                                        IF n = id THEN DOMAIN labels ELSE @[n]]]
      r == IF known THEN reg ELSE reg \union {desc}
  IN IF ~known /\ ~Registrable(reg, desc) THEN [reg |-> reg, x |-> x, ends |-> "error"]
     ELSE IF y.custom[id] # DOMAIN labels THEN [reg |-> r, x |-> y, ends |-> "panic"]
     ELSE [reg |-> r, x |-> Apply(y, kind, Sample(name, labels), v), ends |-> "ok"]

\* A meter gives an instrument of a name to whoever asks
OpenTelemetryCustom(reg, x, kind, name, labels, v) ==
  [reg |-> reg, x |-> Apply(x, kind, Sample(name, Attributes(x, labels)), v), ends |-> "ok"]

Custom(reg, x, kind, name, labels, v) ==
  IF x.kind = "prometheus" THEN PrometheusCustom(reg, x, kind, name, labels, v)
                           ELSE OpenTelemetryCustom(reg, x, kind, name, labels, v)
=============================================================================
