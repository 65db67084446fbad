---------------------------- MODULE ObservedCache ----------------------------
(***************************************************************************)
(* The Cache as its observers meet it: hooks, run in the goroutine of the  *)
(* call and under its locks; loggers; exporters, the reporter that feeds   *)
(* them and its end in Close; the debug handler.  A process is a goroutine *)
(* and has the steps it still has to take, todo; a hook that calls the     *)
(* cache puts the steps of that call in front.  A panic leaves the steps   *)
(* that the code defers.  The store is one of the two in memory, its       *)
(* victims are any of its keys, and values are left out but for the length *)
(* they print at.  A scenario is one configuration of all this.            *)
(***************************************************************************)
EXTENDS Logging, Exporters

CONSTANTS
  Callers, Removers,              \* goroutines that call, and those of store.Get
  Reporter, Janitor, Debugger,
  Capacity,
  Scenarios,      \* from names to configurations
  Atoms,          \* what their hooks do
  MaxTicks,       \* bound on the reporter's ticks
  MaxExpiries,    \* bound on the entries that expire
  Nobody

ASSUME CapacityPositive == Capacity \in Nat \ {0}

Procs == Callers \union Removers \union {Reporter, Janitor, Debugger}
Operations == {"Get", "Set", "Delete", "Clear", "Cleanup", "Close", "Has", "Len", "Stats",
               "Reset"}

ASSUME ProcsApart ==
  Reporter \notin Callers \union Removers \union {Janitor, Debugger} /\ Nobody \notin Procs
ASSUME ProcsFinite == IsFiniteSet(Callers \union Removers)
ASSUME KeysFinite == IsFiniteSet(Keys)
ASSUME AtomsKnown ==
  \A a \in Atoms : /\ a.does = "log" => a.event \in Events
                   /\ a.does = "call" => a.op \in Operations

\* The labels of what counts, with the reason of the eviction if it is to
LabelNames(a) == DOMAIN a.labels \union (IF a.byReason THEN {"reason"} ELSE {})
LabelsOf(a, of) ==
  [n \in LabelNames(a) |-> IF a.byReason /\ n = "reason" THEN of.reason ELSE a.labels[n]]

\* What counts an event that a scenario has counted is a counter that the first
\* exporter accepts; what logs one is not below the level of its logger
Fits(s, a) ==
  /\ a.does = "count" /\ a.name \in s.counted =>
       a.kind = "counter" /\ LabelNames(a) \intersect DOMAIN s.exporters[1].config.labels = {}
  /\ a.does = "log" /\ a.event \in s.logged =>
       LogLevel[a.config.logger.level] <= LogLevel[a.level]

ASSUME ScenariosKnown ==
  \A n \in DOMAIN Scenarios :
    LET s == Scenarios[n] IN
    /\ s.hooks \in HooksOf({a \in Atoms : Fits(s, a)}) /\ s.ops \subseteq Operations
    /\ s.exporters \in Seq(Range(s.exporters)) /\ s.reporting \in BOOLEAN
    /\ \A x \in Range(s.exporters) : x = New(x.kind, x.config)
    /\ s.counted \subseteq Events /\ s.logged \subseteq Events
    /\ s.counted # {} => s.exporters # <<>> /\ \A d \in s.registry : d.name \notin s.counted

\* Of the hooks of an event, that of the i-th priority does one thing of A, once
\* for each key, and none does another
CountersOf(e) == {a \in Atoms : a.does = "count" /\ a.name = e}
LoggersOf(e) == {a \in Atoms : a.does = "log" /\ a.event = e}
Idle(hook, A) == hook # NilHook => \A i \in DOMAIN hook : hook[i].do \notin A
Once(hook, A) ==
  hook # NilHook /\ \E i \in DOMAIN hook : /\ hook[i].do \in A
                                         /\ \A k \in Keys : FromCache(k) \in hook[i].on
                                         /\ \A j \in DOMAIN hook \ {i} : hook[j].do \notin A
IdleBut(l, i, A) ==
  /\ \A j \in DOMAIN l.plain : Idle(l.plain[j], A)
  /\ \A j \in DOMAIN l.ctx : Idle(l.ctx[j], A)
  /\ \A j \in DOMAIN l.priority : Idle(l.priority[j].hook, A)
  /\ \A j \in DOMAIN l.ctxPriority \ {i} : Idle(l.ctxPriority[j].hook, A)
  /\ \A j \in DOMAIN l.conditional : Idle(l.conditional[j].hook, A)
Does(l, i, A) == i \in DOMAIN l.ctxPriority /\ Once(l.ctxPriority[i].hook, A) /\ IdleBut(l, i, A)

\* One hook of an event counts it, and one logs it, at a lower priority, if the
\* scenario has it counted and logged
ASSUME ObserversKnown ==
  \A n \in DOMAIN Scenarios, e \in Events :
    LET s == Scenarios[n]  l == s.hooks[e]
        places == DOMAIN l.ctxPriority
    IN
    /\ e \in s.counted => /\ \E i \in places : Does(l, i, CountersOf(e))
                          /\ \A f \in Events \ {e} : IdleBut(s.hooks[f], 0, CountersOf(e))
    /\ e \in s.logged => /\ \E i \in places : Does(l, i, LoggersOf(e))
                         /\ \A f \in Events \ {e} : IdleBut(s.hooks[f], 0, LoggersOf(e))
    /\ e \in s.counted \intersect s.logged =>
         \A i, j \in places : Does(l, i, CountersOf(e)) /\ Does(l, j, LoggersOf(e)) =>
           l.ctxPriority[i].priority > l.ctxPriority[j].priority

VARIABLES
  scenario,
  todo,           \* the steps each process still has to take
  readers,        \* c.mu: how often each process has read-locked it,
  writer,         \*       and the writer that has it, or waits for the readers
  smutex,         \* who has the store's mutex, for writing
  live, stale,    \* the keys of the store, those that have expired apart
  stats, keyCount,
  registry, exporters,
  lines,          \* log lines by event
  reporter,       \* "none", "running" or "done"
  metricsStop, exporterClosed, stopCleanup,     \* closed?
  response,       \* what the debug handler has read
  calls, ticks, expiries,   \* bounded
  panicked, crashed,
  unsafe,         \* history: whether a hook made a call that may block for ever
  atClose,        \* history: the statistics when a Close had c.mu, less those wiped since
  wiped,          \* history: what Reset has taken from the statistics
  torn            \* history: whether a Reset met the debug handler among its reads

store == <<live, stale>>
locks == <<readers, writer, smutex>>
exports == <<registry, exporters>>
closing == <<reporter, metricsStop, exporterClosed, stopCleanup>>
counts == <<stats, keyCount>>
bounds == <<calls, ticks, expiries>>
fate == <<panicked, crashed>>
history == <<unsafe, atClose, wiped, torn>>
vars == <<scenario, todo, locks, store, counts, exports, lines, closing, response,
          bounds, fate, history>>

S == Scenarios[scenario]
Held == live \union stale
Zero == [hits |-> 0, misses |-> 0, evictions |-> 0, invalidations |-> 0]
Field == [hit |-> "hits", miss |-> "misses", evict |-> "evictions",
          invalidate |-> "invalidations"]

TypeOK ==
  /\ scenario \in DOMAIN Scenarios
  /\ readers \in [Procs -> Nat]
  /\ writer \in Procs \union {Nobody} /\ smutex \in Procs \union {Nobody}
  /\ live \subseteq Keys /\ stale \subseteq Keys \ live /\ Cardinality(Held) <= Capacity
  /\ DOMAIN todo = Procs
  /\ {stats, wiped} \subseteq [DOMAIN Zero -> Nat] /\ keyCount \in 0..Capacity
  /\ lines \in [Events -> Nat]
  /\ reporter \in {"none", "running", "done"}
  /\ {metricsStop, exporterClosed, stopCleanup, panicked, crashed, unsafe, torn}
       \subseteq BOOLEAN

Init ==
  /\ scenario \in DOMAIN Scenarios
  /\ todo = [p \in Procs |-> <<>>]
  /\ readers = [p \in Procs |-> 0] /\ writer = Nobody /\ smutex = Nobody
  /\ live = {} /\ stale = {}
  /\ stats = Zero /\ keyCount = 0
  /\ registry = S.registry /\ exporters = S.exporters
  /\ lines = [e \in Events |-> 0]
  /\ reporter = IF S.reporting THEN "running" ELSE "none"
  /\ metricsStop = FALSE /\ exporterClosed = FALSE /\ stopCleanup = FALSE
  /\ response = [f \in {} |-> 0]
  /\ calls = 0 /\ ticks = 0 /\ expiries = 0
  /\ panicked = FALSE /\ crashed = FALSE
  /\ unsafe = FALSE /\ atClose = Zero /\ wiped = Zero /\ torn = FALSE

-----------------------------------------------------------------------------
(* What an operation does, step by step.                                   *)

Do(step) == <<[step |-> step]>>
With1(step, k) == <<[step |-> step, key |-> k]>>
Evicted(k, reason) == <<[step |-> "evicted", key |-> k, reason |-> reason]>>
Invalidated(k, next) == <<[step |-> "invalidated", key |-> k, next |-> next]>>
Recorded(op) == <<[step |-> "record", op |-> op, i |-> 1]>>

\* unlocks what is deferred to be unlocked
Bug_UnderRead(steps) == Do("rlock") \o steps \o Do("runlock") \o Do("runlock")

\* Cache.rlock, Cache.lock, and the methods of the store that take its mutex
UnderRead(steps) == Do("rlock") \o steps \o Do("runlock")
UnderWrite(steps) == Do("lock") \o Do("locked") \o steps \o Do("unlock")
UnderStore(steps) == Do("slock") \o steps \o Do("sunlock")

\* takes c.mu to count
Bug_StatsPlan == UnderRead(Do("count"))

\* Stats() does not take c.mu
StatsPlan == Do("count")

\* Reset of the Stats that Stats() has answered: no lock, one counter at a time
ResetOrder == <<"hits", "misses", "evictions", "invalidations", "keyCount">>
ResetPlan == [i \in DOMAIN ResetOrder |-> [step |-> "reset", field |-> ResetOrder[i]]]

Plan(op, k) ==
  [Get     |-> UnderRead(With1("find", k)) \o Recorded("get"),
   Set     |-> UnderWrite(UnderStore(With1("add", k)) \o Do("count")) \o Recorded("set"),
   Delete  |-> UnderWrite(UnderStore(With1("remove", k)) \o Invalidated(k, Do("count"))),
   Clear   |-> UnderWrite(Do("keys")),
   Cleanup |-> UnderWrite(UnderStore(Do("collect")) \o Do("count")),
   Close   |-> UnderWrite(Do("stop") \o Do("wait") \o Do("closeExporter") \o Do("closeStore")),
   Has     |-> UnderRead(With1("peek", k)),
   Len     |-> UnderRead(Do("len")),
   Stats   |-> StatsPlan,
   Reset   |-> ResetPlan][op]

\* ExportStats of each exporter in turn
ExportPlan ==
  FlattenSeq([i \in DOMAIN exporters |->
    LET order == ExportOrder(exporters[i])
    IN [j \in DOMAIN order |-> [step |-> "export", i |-> i, name |-> order[j]]]])

At(p, step) == todo[p] # <<>> /\ todo[p][1].step = step
It(p) == Head(todo[p])
Continue(p, steps) == todo' = [todo EXCEPT ![p] = steps \o Tail(@)]

-----------------------------------------------------------------------------
(* Locks.  A writer that waits for c.mu keeps new readers out.             *)

Lock(p) ==
  \/ /\ At(p, "rlock") /\ writer = Nobody
     /\ readers' = [readers EXCEPT ![p] = @ + 1]
     /\ UNCHANGED <<writer, smutex, atClose>>
  \/ /\ At(p, "lock") /\ writer = Nobody
     /\ writer' = p
     /\ UNCHANGED <<readers, smutex, atClose>>
  \/ /\ At(p, "locked") /\ \A q \in Procs : readers[q] = 0
     /\ atClose' = IF exporterClosed THEN atClose ELSE stats
     /\ UNCHANGED locks
  \/ /\ At(p, "slock") /\ smutex = Nobody
     /\ smutex' = p
     /\ UNCHANGED <<readers, writer, atClose>>

Unlock(p) ==
  /\ \/ /\ At(p, "runlock")
        /\ readers' = [readers EXCEPT ![p] = @ - 1]
        /\ UNCHANGED <<writer, smutex>>
     \/ /\ At(p, "unlock") /\ writer' = Nobody
        /\ UNCHANGED <<readers, smutex>>
     \/ /\ At(p, "sunlock") /\ smutex' = Nobody
        /\ UNCHANGED <<readers, writer>>
  /\ UNCHANGED atClose

LockStep(p) ==
  /\ Lock(p) \/ Unlock(p)
  /\ Continue(p, <<>>)
  /\ UNCHANGED <<scenario, store, counts, exports, lines, closing, response, bounds, fate,
                 unsafe, wiped, torn>>

-----------------------------------------------------------------------------
(* Hooks.                                                                  *)

\* The steps for the hooks of event e; they come after `before'
Notify(p, before, e, step, after) ==
  \E atoms \in IF e = "evict" THEN InvokeOnEvict(S.hooks, step.key)
               ELSE IF e = "invalidate" THEN InvokeOnInvalidate(S.hooks, FromCache(step.key))
               ELSE Invoke(S.hooks, e, FromCache(step.key)) :
    Continue(p, before \o [i \in DOMAIN atoms |-> [step |-> "hook", atom |-> atoms[i],
                                                   of |-> step, i |-> 1]] \o after)

Count(e) == stats' = [stats EXCEPT ![Field[e]] = @ + 1]

\* Forgets what is deferred
Bug_Unwind(p) == todo' = [todo EXCEPT ![p] = <<>>]

\* What is deferred: the unlocking, and recordCacheOperation
Deferred(steps) ==
  FlattenSeq([i \in DOMAIN steps |->
    IF steps[i].step \in {"runlock", "unlock", "sunlock", "record"} THEN <<steps[i]>> ELSE <<>>])
Unwind(p) == todo' = [todo EXCEPT ![p] = Deferred(Tail(@))]

\* A panic in a goroutine of the cache ends the program; a caller may recover
Panic(p) ==
  /\ panicked' = TRUE
  /\ IF p \in Callers THEN Unwind(p) /\ UNCHANGED crashed
     ELSE crashed' = TRUE /\ todo' = [q \in Procs |-> <<>>]

HookStep(p) == At(p, "hook") /\ UNCHANGED <<scenario, locks, store, counts, closing, response,
                                            bounds, atClose, wiped, torn>>

HookLogs(p) ==
  LET a == It(p).atom IN
  /\ HookStep(p) /\ a.does = "log"
  /\ IF LogPanics(a, S.len) THEN Panic(p) /\ UNCHANGED lines
     ELSE /\ lines' = [lines EXCEPT ![a.event] =
                         @ + Len(LogLines(a, FromCache(It(p).of.key)))]
          /\ Continue(p, <<>>) /\ UNCHANGED fate
  /\ UNCHANGED <<exports, unsafe>>

\* A hook that calls a MultiExporter, which stops at the first error
HookCounts(p) ==
  LET a == It(p).atom  i == It(p).i  of == It(p).of IN
  /\ HookStep(p) /\ a.does = "count"
  /\ IF i \notin DOMAIN exporters
       THEN Continue(p, <<>>) /\ UNCHANGED <<exports, fate>>
       ELSE LET r == Custom(registry, exporters[i], a.kind, a.name, LabelsOf(a, of), 1)
            IN /\ registry' = r.reg
               /\ exporters' = [exporters EXCEPT ![i] = r.x]
               /\ IF r.ends = "panic" THEN Panic(p)
                  ELSE /\ Continue(p, IF r.ends = "ok" THEN <<[It(p) EXCEPT !.i = i + 1]>>
                                      ELSE <<>>)
                       /\ UNCHANGED fate
  /\ UNCHANGED <<lines, unsafe>>

\* A hook that calls the cache.  Safe are Reset, Stats(), unless under the store's
\* mutex, and any call from where no lock is held.
HookCalls(p) ==
  LET op == It(p).atom.op IN
  /\ HookStep(p) /\ It(p).atom.does = "call"
  /\ Continue(p, Plan(op, It(p).of.key))
  /\ unsafe' = (unsafe \/ /\ op # "Reset"
                          /\ smutex = p \/ (op # "Stats" /\ (readers[p] > 0 \/ writer = p)))
  /\ UNCHANGED <<exports, lines, fate>>

HookPanics(p) ==
  /\ HookStep(p) /\ It(p).atom.does = "panic"
  /\ Panic(p)
  /\ UNCHANGED <<exports, lines, unsafe>>

-----------------------------------------------------------------------------
(* The store and the statistics.                                           *)

StoreStep(p, step) ==
  At(p, step) /\ UNCHANGED <<scenario, locks, exports, lines, closing, response, bounds, fate,
                             history>>

\* store.Get of an entry that has expired starts a goroutine to remove it
StartRemover(k, td) ==
  \E r \in Removers : /\ todo[r] = <<>>
                      /\ todo' = [td EXCEPT ![r] = UnderStore(With1("remove", k))
                                                   \o Evicted(k, "TTL")]

Then(p, steps) == [todo EXCEPT ![p] = steps \o Tail(@)]

\* Get: a hit or a miss, counted and made known
Find(p) ==
  LET k == It(p).key IN
  /\ StoreStep(p, "find") /\ smutex = Nobody
  /\ IF k \in live THEN Count("hit") /\ Notify(p, <<>>, "hit", It(p), <<>>)
     ELSE /\ k \in stale => \E r \in Removers : todo[r] = <<>>
          /\ Count("miss")
          /\ \E atoms \in Invoke(S.hooks, "miss", FromCache(k)) :
               LET hooks == [i \in DOMAIN atoms |-> [step |-> "hook", atom |-> atoms[i],
                                                     of |-> It(p), i |-> 1]]
               IN IF k \in stale THEN StartRemover(k, Then(p, hooks))
                  ELSE todo' = Then(p, hooks)
  /\ UNCHANGED <<store, keyCount>>

\* Has, TTL, and the debug handler's look at a key: no hooks, nothing counted
Peek(p) ==
  /\ StoreStep(p, "peek") /\ smutex = Nobody
  /\ IF It(p).key \in stale THEN StartRemover(It(p).key, Then(p, <<>>)) ELSE Continue(p, <<>>)
  /\ UNCHANGED <<store, counts>>

\* store.Set
Add1(p) ==
  LET k == It(p).key IN
  /\ StoreStep(p, "add")
  /\ \/ /\ k \in Held \/ Cardinality(Held) < Capacity
        /\ live' = live \union {k} /\ stale' = stale \ {k}
        /\ Continue(p, <<>>)
     \/ /\ k \notin Held /\ Cardinality(Held) >= Capacity
        /\ \E v \in Held :
             /\ live' = (live \ {v}) \union {k} /\ stale' = stale \ {v}
             /\ Continue(p, Evicted(v, IF S.strategy THEN "Capacity" ELSE "LRU"))
  /\ UNCHANGED counts

\* Remove calls back over the LRU store only
Callback(k) == IF S.strategy THEN <<>> ELSE Evicted(k, "LRU")

Remove1(p) ==
  LET k == It(p).key IN
  /\ StoreStep(p, "remove")
  /\ live' = live \ {k} /\ stale' = stale \ {k}
  /\ Continue(p, IF k \in Held THEN Callback(k) ELSE <<>>)
  /\ UNCHANGED counts

\* One round of Cleanup, until nothing has expired
Collect(p) ==
  /\ StoreStep(p, "collect")
  /\ \/ \E k \in stale :
          /\ stale' = stale \ {k}
          /\ Continue(p, Callback(k) \o Evicted(k, "TTL") \o Do("collect"))
     \/ /\ stale = {} /\ UNCHANGED stale
        /\ Continue(p, <<>>)
  /\ UNCHANGED <<live, counts>>

\* the sequences of f(k) over the keys of K
Each(f(_), K) == {FlattenSeq([i \in DOMAIN s |-> f(s[i])]) : s \in SetToSeqs(K)}

Purge(p) ==
  /\ StoreStep(p, "purge")
  /\ live' = {} /\ stale' = {}
  /\ \E steps \in Each(Callback, Held) : Continue(p, steps)
  /\ UNCHANGED counts

\* Clear: the keys first, and then the store
ListKeys(p) ==
  /\ StoreStep(p, "keys") /\ smutex = Nobody
  /\ \E steps \in Each(LAMBDA k : Invalidated(k, <<>>), live) :
       Continue(p, UnderStore(Do("purge")) \o steps \o Do("count"))
  /\ UNCHANGED <<store, counts>>

\* runs the hooks and does not count
Bug_NotifyEvicted(p) ==
  /\ StoreStep(p, "evicted")
  /\ Notify(p, <<>>, "evict", It(p), <<>>)
  /\ UNCHANGED <<store, counts>>

\* The evict and cleanup callbacks that New gives to the store
NotifyEvicted(p) ==
  /\ StoreStep(p, "evicted")
  /\ Count("evict") /\ Notify(p, <<>>, "evict", It(p), <<>>)
  /\ UNCHANGED <<store, keyCount>>

NotifyInvalidated(p) ==
  /\ StoreStep(p, "invalidated")
  /\ Count("invalidate") /\ Notify(p, It(p).next, "invalidate", It(p), <<>>)
  /\ UNCHANGED <<store, keyCount>>

\* updateKeyCount, and store.Len for its own sake
CountKeys(p) ==
  /\ \/ StoreStep(p, "count") /\ keyCount' = Cardinality(live)
     \/ StoreStep(p, "len") /\ UNCHANGED keyCount
  /\ smutex = Nobody
  /\ Continue(p, <<>>)
  /\ UNCHANGED <<store, stats>>

\* reads the total first
Bug_DebugOrder ==
  <<"totalHits", "totalMisses", "hits", "misses", "rateHits", "rateMisses">>

\* Hits, Misses, then HitRate and Total, which read both again
DebugOrder == <<"hits", "misses", "rateHits", "rateMisses", "totalHits", "totalMisses">>

\* One store of Stats.Reset.  The debug handler is midway between its first read
\* and its last.
Midway == DOMAIN response \notin {{}, Range(DebugOrder)}
ResetStat(p) ==
  LET f == It(p).field IN
  /\ At(p, "reset")
  /\ IF f = "keyCount" THEN keyCount' = 0 /\ UNCHANGED <<stats, atClose, wiped, torn>>
     ELSE /\ stats' = [stats EXCEPT ![f] = 0]
          /\ wiped' = [wiped EXCEPT ![f] = @ + stats[f]]
          /\ atClose' = [atClose EXCEPT ![f] = 0]
          /\ torn' = (torn \/ (f \in {"hits", "misses"} /\ Midway))
          /\ UNCHANGED keyCount
  /\ Continue(p, <<>>)
  /\ UNCHANGED <<scenario, locks, store, exports, lines, closing, response, bounds, fate,
                 unsafe>>

-----------------------------------------------------------------------------
(* Exporters, the reporter and Close.                                      *)

ExportStep(p, step) ==
  At(p, step) /\ UNCHANGED <<scenario, locks, store, counts, lines, response, bounds, history>>

StatOf(name) ==
  IF name \in DOMAIN stats THEN stats[name]
  ELSE [keys |-> keyCount, inFlight |-> 0, hitRate |-> stats.hits][name]

\* One statistic, read and exported
ExportStat(p) ==
  LET i == It(p).i  name == It(p).name IN
  /\ ExportStep(p, "export")
  /\ exporters' = [exporters EXCEPT ![i] = Export(@, name, StatOf(name), S.labels)]
  /\ Continue(p, <<>>)
  /\ UNCHANGED <<registry, closing, fate>>

\* recordCacheOperation, on each exporter
RecordOperation(p) ==
  LET i == It(p).i IN
  /\ ExportStep(p, "record")
  /\ IF i \in DOMAIN exporters
       THEN /\ exporters' = [exporters EXCEPT ![i] = Record(@, It(p).op, S.labels)]
            /\ Continue(p, <<[It(p) EXCEPT !.i = i + 1]>>)
       ELSE Continue(p, <<>>) /\ UNCHANGED exporters
  /\ UNCHANGED <<registry, closing, fate>>

\* close(c.metricsStop), of a cache that has a reporter
Stop(p) ==
  /\ ExportStep(p, "stop")
  /\ IF S.reporting /\ metricsStop THEN Panic(p) ELSE Continue(p, <<>>) /\ UNCHANGED fate
  /\ metricsStop' = (metricsStop \/ S.reporting)
  /\ UNCHANGED <<exports, reporter, exporterClosed, stopCleanup>>

\* does not wait
Bug_Wait(p) ==
  /\ ExportStep(p, "wait")
  /\ Continue(p, <<>>)
  /\ UNCHANGED <<exports, closing, fate>>

\* metricsWg.Wait, under c.mu
Wait(p) ==
  /\ ExportStep(p, "wait") /\ reporter # "running"
  /\ Continue(p, <<>>)
  /\ UNCHANGED <<exports, closing, fate>>

CloseExporter(p) ==
  /\ ExportStep(p, "closeExporter")
  /\ exporterClosed' = TRUE
  /\ Continue(p, <<>>)
  /\ UNCHANGED <<exports, reporter, metricsStop, stopCleanup, fate>>

\* close(s.stopCleanup) panics the second time; the first, the store is cleared
CloseStore(p) ==
  /\ ExportStep(p, "closeStore")
  /\ stopCleanup' = TRUE
  /\ IF stopCleanup THEN Panic(p)
     ELSE Continue(p, UnderStore(Do("purge"))) /\ UNCHANGED fate
  /\ UNCHANGED <<exports, reporter, metricsStop, exporterClosed>>

ReporterTick ==
  /\ reporter = "running" /\ todo[Reporter] = <<>> /\ ticks < MaxTicks /\ ~crashed
  /\ todo' = [todo EXCEPT ![Reporter] = ExportPlan]
  /\ ticks' = ticks + 1
  /\ UNCHANGED <<scenario, locks, store, counts, exports, lines, closing, response, calls,
                 expiries, fate, history>>

\* leaves without the final export
Bug_ReporterStop ==
  /\ reporter = "running" /\ todo[Reporter] = <<>> /\ metricsStop /\ ~crashed
  /\ todo' = [todo EXCEPT ![Reporter] = Do("reporterDone")]
  /\ UNCHANGED <<scenario, locks, store, counts, exports, lines, closing, response, bounds,
                 fate, history>>

\* the final export
ReporterStop ==
  /\ reporter = "running" /\ todo[Reporter] = <<>> /\ metricsStop /\ ~crashed
  /\ todo' = [todo EXCEPT ![Reporter] = ExportPlan \o Do("reporterDone")]
  /\ UNCHANGED <<scenario, locks, store, counts, exports, lines, closing, response, bounds,
                 fate, history>>

ReporterDone ==
  /\ ExportStep(Reporter, "reporterDone")
  /\ reporter' = "done"
  /\ Continue(Reporter, <<>>)
  /\ UNCHANGED <<exports, metricsStop, exporterClosed, stopCleanup, fate>>

-----------------------------------------------------------------------------
(* The debug handler, the janitor, callers and time.                       *)

ReadStat(p) ==
  LET f == It(p).field
      source == IF f \in {"hits", "rateHits", "totalHits"} THEN "hits" ELSE "misses"
  IN
  /\ At(p, "read")
  /\ response' = [g \in DOMAIN response \union {f} |->
                    IF g = f THEN stats[source] ELSE response[g]]
  /\ Continue(p, <<>>)
  /\ UNCHANGED <<scenario, locks, store, counts, exports, lines, closing, bounds, fate, history>>

\* the keys that the handler then looks at one by one
DebugKeys(p) ==
  /\ StoreStep(p, "debugKeys") /\ smutex = Nobody
  /\ \E steps \in Each(LAMBDA k : With1("peek", k), live) : Continue(p, steps)
  /\ UNCHANGED <<store, counts>>

Launch(p, steps) ==
  /\ ~crashed /\ todo[p] = <<>>
  /\ todo' = [todo EXCEPT ![p] = steps]
  /\ UNCHANGED <<scenario, locks, store, counts, exports, lines, closing, fate, history>>

Call(c, op, k) ==
  /\ calls < S.calls /\ c \in S.callers /\ op \in S.ops /\ k \in S.keys
  /\ Launch(c, Plan(op, k))
  /\ calls' = calls + 1
  /\ UNCHANGED <<response, ticks, expiries>>

\* GET / or /keys
DebugRequest ==
  /\ S.debugging /\ DOMAIN response = {}
  /\ Launch(Debugger, [i \in DOMAIN DebugOrder |-> [step |-> "read", field |-> DebugOrder[i]]]
                      \o UnderRead(Do("debugKeys")))
  /\ UNCHANGED <<response, bounds>>

\* a tick of the cleanup ticker, possibly after Close
JanitorTick ==
  /\ stale # {}
  /\ Launch(Janitor, UnderStore(Do("collect")))
  /\ UNCHANGED <<response, bounds>>

Expire(k) ==
  /\ ~crashed /\ S.expiry /\ k \in live /\ expiries < MaxExpiries
  /\ live' = live \ {k} /\ stale' = stale \union {k}
  /\ expiries' = expiries + 1
  /\ UNCHANGED <<scenario, todo, locks, counts, exports, lines, closing, response, calls, ticks,
                 fate, history>>

Step(p) ==
  \/ LockStep(p)
  \/ HookLogs(p) \/ HookCounts(p) \/ HookCalls(p) \/ HookPanics(p)
  \/ Find(p) \/ Peek(p) \/ Add1(p) \/ Remove1(p) \/ Collect(p) \/ Purge(p) \/ ListKeys(p)
  \/ NotifyEvicted(p) \/ NotifyInvalidated(p) \/ CountKeys(p)
  \/ ExportStat(p) \/ RecordOperation(p)
  \/ Stop(p) \/ Wait(p) \/ CloseExporter(p) \/ CloseStore(p)
  \/ ReadStat(p) \/ DebugKeys(p) \/ ResetStat(p)

Next ==
  \/ \E p \in Procs : Step(p)
  \/ ReporterStop \/ ReporterDone
  \/ ReporterTick
  \/ \E c \in Callers, k \in Keys, op \in S.ops : Call(c, op, k)
  \/ DebugRequest
  \/ JanitorTick
  \/ \E k \in Keys : Expire(k)

\* While a goroutine can run, one does; the reporter's select sees that its
\* channel is closed.  Nobody has to call, and no ticker to tick.
Work == (\E p \in Procs : Step(p)) \/ ReporterStop \/ ReporterDone
FairSpec == Init /\ [][Next]_vars /\ WF_vars(Work)
-----------------------------------------------------------------------------
(* Safety.                                                                 *)

Quiet == \A p \in Procs : todo[p] = <<>>

\* Whoever is done holds no lock, also when a hook has panicked under c.mu and
\* the store's mutex, in a call inside a call, or a second Close has.
LocksFreed ==
  ~crashed => \A p \in Procs :
    todo[p] = <<>> => readers[p] = 0 /\ writer # p /\ smutex # p

\* The statistics, with what Reset has wiped from them, the counters that hooks
\* keep in an exporter and the lines that hooks log agree whenever no call is
\* under way, on every path that counts: Get, eviction by Set, Delete, Clear,
\* Cleanup, the janitor, the goroutines of Get, Close.
Counted(f) == stats[f] + wiped[f]
HooksSeeEveryEvent ==
  Quiet /\ ~panicked => \A e \in Events :
    /\ e \in S.counted => Exported(exporters[1], e) = Counted(Field[e])
    /\ e \in S.logged => lines[e] = Counted(Field[e])

\* "HookPriorityHigh: execute before other priorities (e.g., metrics
\* collection)": no event is logged, at medium priority, before it is counted,
\* at high priority, in whatever order the two were registered and however the
\* hooks of several goroutines mix.
CountedBeforeLogged ==
  \A e \in S.counted \intersect S.logged : lines[e] <= Exported(exporters[1], e)

\* Close ends the reporter before it closes the exporter: no statistics are
\* exported to an exporter that is closed.  The calls still under way record
\* their operation there all the same.
NothingExportedAfterClose ==
  [][\A p \in Procs : exporterClosed => ~ExportStat(p)]_vars

\* "Final stats export before shutting down": once the exporter is closed, each
\* of several has been given every event counted before Close had the lock, but
\* for those that a Reset has wiped since.
LastExportComplete ==
  exporterClosed /\ S.reporting =>
    \A i \in DOMAIN exporters, f \in DOMAIN Zero : Exported(exporters[i], f) >= atClose[f]

\* The handler reads six atomics without a lock, hits and misses three times
\* each.  Unless a Reset of either comes between its first read and its last,
\* its total covers the hits and misses it shows; and if it is their sum, then
\* its hit rate is theirs too.
DebugConsistent ==
  DOMAIN response = Range(DebugOrder) /\ ~torn =>
    LET total == response.totalHits + response.totalMisses
        shown == response.hits + response.misses
    IN /\ total >= shown
       /\ total = shown => /\ response.rateHits = response.hits
                           /\ response.rateMisses = response.misses

(* Liveness.                                                               *)

\* Every call returns, Close among them, and the reporter, the janitor and the
\* goroutines of Get finish what they began, as long as no hook makes a call
\* from under a lock that the call needs.  Stats() is such a call only under the
\* store's mutex.
EveryCallReturns == ~Quiet ~> Quiet \/ unsafe \/ crashed
=============================================================================
