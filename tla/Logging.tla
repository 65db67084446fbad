------------------------------- MODULE Logging -------------------------------
(***************************************************************************)
(* Logging of the cache's events: loggers with a level, the configuration  *)
(* that LoggingHookBuilder builds, the hooks that CreateLoggingHooks makes *)
(* of it, and what such a hook prints.  A line is known by its event and   *)
(* the names of its fields; of a value only the printed length matters.    *)
(***************************************************************************)
EXTENDS Hooks

CONSTANTS NilLogger, NilConfig

LogLevel == [DEBUG |-> 0, INFO |-> 1, WARN |-> 2, ERROR |-> 3, NONE |-> 4]

NewDefaultLogger(level) == [level |-> level, fields |-> {}]
\* a logger that discards everything
NewNoOpLogger == NewDefaultLogger("NONE")
\* Logger.With
With(logger, fields) == [logger EXCEPT !.fields = @ \union fields]

\* The lines that Debug, Info, Warn or Error print
Log(logger, level, event, fields) ==
  IF LogLevel[logger.level] <= LogLevel[level]
    THEN <<[level |-> level, event |-> event, fields |-> logger.fields \union fields]>>
    ELSE <<>>

-----------------------------------------------------------------------------
(* LoggingConfig and its builder.                                          *)

NewDefaultLoggingConfig(level) ==
  [logger |-> NewDefaultLogger(level), events |-> Events, slow |-> TRUE,
   values |-> FALSE, max |-> 100]

NewLoggingHookBuilder ==
  [logger |-> NewNoOpLogger, events |-> {}, slow |-> FALSE, values |-> FALSE, max |-> 100]

WithLogger(config, logger) == [config EXCEPT !.logger = logger]
WithLevel(config, level) == [config EXCEPT !.logger = NewDefaultLogger(level)]
\* EnableHitLogging, EnableMissLogging, EnableEvictionLogging, ...
EnableLogging(config, events) == [config EXCEPT !.events = @ \union events]
EnableSlowOperationLogging(config) == [config EXCEPT !.slow = TRUE]
IncludeValues(config, max) == [config EXCEPT !.values = TRUE, !.max = max]

-----------------------------------------------------------------------------
(* The hooks.                                                              *)

\* Hits are logged at Debug, all else at Info
LevelOf(e) == IF e = "hit" THEN "DEBUG" ELSE "INFO"

LogAtom(config, e, level) == [does |-> "log", config |-> config, event |-> e, level |-> level]

\* One hook of medium priority for each event that is enabled
CreateLoggingHooks(config) ==
  IF config = NilConfig THEN NoHooks
  ELSE IF config.logger = NilLogger THEN NoHooks
  ELSE LET one(e) == IF e \in config.events
                       THEN <<Prioritized(Hook(LogAtom(config, e, LevelOf(e))), Priority.Medium)>>
                       ELSE <<>>
       IN [e \in Events |-> [NoHooks[e] EXCEPT !.ctxPriority = one(e)]]

\* Nothing observes how long an operation takes, whatever the configuration
CreateSlowOperationLoggingHooks(config) == NoHooks

\* Build leaves config.slow unused
Build(config) == CreateLoggingHooks(config)

\* value[:maxLength-3] of a value that is too long
Truncates(config, len) == config.values /\ len > config.max
TruncatePanics(config, len) == Truncates(config, len) /\ config.max < 3

\* What the hook of event e does for an occasion and a value of printed length
\* len: it panics, or prints
LogPanics(atom, len) == atom.event \in {"hit", "evict"} /\ TruncatePanics(atom.config, len)

LogFields(atom, o) ==
  LET named(s) == {f \in s : \E v \in o.ctx : v[1] = f}
  IN {"key", "event"}
     \union (IF atom.event = "evict" THEN {"reason"} ELSE {})
     \union (IF atom.event \in {"hit", "evict"} /\ atom.config.values THEN {"value"} ELSE {})
     \union (IF atom.event \in {"hit", "miss"} /\ o.args # NoArgs THEN {"args_count"} ELSE {})
     \union (IF atom.event = "evict" THEN {}
             ELSE named({"request_id"} \union (IF atom.event = "hit" THEN {"user_id"} ELSE {})))

LogLines(atom, o) ==
  Log(atom.config.logger, atom.level, atom.event, LogFields(atom, o))

-----------------------------------------------------------------------------
(* The hooks of the examples.                                              *)

ExampleBasicLogging ==
  Build(EnableLogging(WithLevel(NewLoggingHookBuilder, "INFO"), Events))

ExampleAdvancedLogging ==
  LET logger == With(NewDefaultLogger("DEBUG"), {"service", "version"})
      config == EnableLogging(WithLogger(NewLoggingHookBuilder, logger), Events)
  IN Build(EnableSlowOperationLogging(IncludeValues(config, 50)))

\* critical and users: the keys that have these prefixes
ExampleConditionalLogging(critical, users) ==
  LET config == WithLevel(NewLoggingHookBuilder, "INFO")
      misses == AddOnCtxIf(NoHooks, "miss", Hook(LogAtom(config, "miss", "ERROR")),
                           KeyPrefixCondition(critical))
  IN AddOnCtxIf(misses, "hit", Hook(LogAtom(config, "hit", "DEBUG")),
                AndCondition(<<KeyPrefixCondition(users),
                               ContextValueCondition("env", "development")>>))
=============================================================================
