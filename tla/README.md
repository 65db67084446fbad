# Verification of obcache-go

TLA+ models of [obcache-go](../src/README.md), a caching library for Go with function wrapping, duplicate
suppression, TTLs, pluggable eviction and an optional Redis backend; the TLC configurations that check them,
and theorems about them proved with TLAPS.

## The system

| Component | State | Operations | Hard part |
|---|---|---|---|
| `internal/singleflight` `Group` | table key → call under `g.mu`; per call: WaitGroup, result, `dups`, channels | `Do`, `DoChan`, `DoContext`, `doCall`, `Forget`, `InFlight` | `wg.Done()` and the removal from the table are two steps; `dups` is read unlocked; `Forget`; panics |
| `pkg/obcache` `Wrap` | none of its own: the cache, the `Group` `c.sf`, the gauge `inFlight` | look up, enter the flight, call, store, return | the look-up, the flight and the store are three steps; errors; panics; wrappers with different options over one group |
| `pkg/obcache` `Cache` | `c.mu`, the store, `Stats`, hooks, metrics | `Get Set Delete Clear Has TTL Keys Len Stats Cleanup Close` | count and publication of `KeyCount`; `Stats()` does not take `c.mu` |
| `internal/store/memory` `Store`, `StrategyStore` | the tracker of entries under `s.mutex`; callbacks; janitor goroutine | `Get Set Delete Keys Len Clear Cleanup Close` | janitor and removal goroutines beside the cache's writers; which removals call back, and how often |
| `internal/eviction` FIFO, LFU, LRU | map of entries beside a slice, a map of counts, or a golang-lru list | `Add Get Peek Remove Contains Keys Len Clear` | two structures that must stay in step; `""` as "no key" |
| `internal/store/redis` `Store` | `s.mu`; the entries are on a server that other processes share | as above, by commands | read lock taken twice; `Get` writes back; commands fail; keys disappear |
| `internal/entry` `Entry` | value, expiry, access time, compression metadata | `New`, `IsExpired`, `TTL`, `Touch` … | boundary of expiry |
| `pkg/obcache` `Stats` | atomic counters | `inc…`, `setKeyCount`, `Reset` | `Reset` while calls are in flight |
| `pkg/obcache` hooks, logging | five lists per kind of event; loggers | `AddOn…`, `Combine…`, conditions, `invoke…`; `LoggingHookBuilder` | order across the lists; they run under `c.mu` and the store's mutex, and may call the cache or panic |
| metrics (`pkg/metrics`, `metricsReporter`) | reporter goroutine; exporters' custom metrics; a registry | `ExportStats`, `RecordCacheOperation`, custom metrics, `Close` | `Close` waits for the reporter under `c.mu`; the last export; labels that differ; cumulative values added again |
| debug handler | none | a request | reads atomics one by one beside callers that count |
| key generation | none | `DefaultKeyFunc`, `SimpleKeyFunc` | different arguments with one key, one argument with two |
| compression | none | `SerializeAndCompress` and back | JSON does not give back what it was given |
| config | builders | `New` | what is refused, and what is left behind then |

A call of a wrapped function looks its key up in the cache (`c.mu` for reading, then the store's mutex); on
a miss it enters `c.sf` and one of the callers executes the function; whoever is told that its answer was
not shared stores it with `Cache.Set`, which adds to the store and there, at capacity, to the tracker's
victim; the store calls back into the cache, which counts and runs hooks. Beside these run the janitor, one
goroutine for each expired entry that a `Get` came upon, the reporter of metrics, and `Stats()`, none of
which takes `c.mu`.

What makes each correct: the `Group` runs a key once at a time and gives everybody the one answer; a wrapped
call never answers with a value from before an invalidation that no execution under way could have brought
back; a store never outgrows its capacity, loses no live entry in silence, and collects the dead ones; a
tracker takes the victim its policy names; a read never undoes a write; everybody returns.

## Modules

| Module | Models |
|---|---|
| `Singleflight` | the `Group`, one action per critical section of `g.mu`. A caller is one invocation; the call it creates bears its name. |
| `WrappedCall` | `executeWrappedFunction` over an instance of `Singleflight`, one cache slot per key, a versioned source, invalidation, loss of entries, `Stats.Reset` |
| `EvictionConfig` | the parameters of the trackers and their assumptions |
| `EvictionStrategy` | what the interface `Strategy` promises, whatever the policy: `EntriesSpec` of the entries alone, `Spec` also of the key that `Add` returns. The abstract specification of the three |
| `FIFOStrategy`, `LFUStrategy`, `LRUStrategy` | the three trackers, each over its own data structure |
| `Eviction` | `NewStrategy`: one of the three, chosen at the start |
| `MemoryCache` | `Cache` over `memory.Store` or `memory.StrategyStore`: writers under `c.mu`, the janitor, removal goroutines, `Stats()`, `Stats.Reset`, the callbacks and the statistics |
| `RedisStore` | processes of threads that call `Cache` over `redis.Store`; two locks, one server |
| `Hooks` | the lists of hooks, their composition and conditions, and in which orders an event may invoke them |
| `Logging` | loggers, the configuration and its builder, the hooks made of it, what they print |
| `Exporters` | the Prometheus and OpenTelemetry exporters as operators on a record; a registry; labels |
| `ObservedCache` | `Cache` with its hooks, loggers, exporters, reporter, debug handler and `Stats.Reset`: composes the three above with the locks |
| `GoValues` | Go values as far as keys, JSON and types of results tell them apart |
| `KeyGen`, `Compression` | the two packages as operators on values; `Compression` takes `encoding/json` as constants, with what its documentation says of them (`JsonContract`) |
| `Json` | `encoding/json` on the values of `GoValues`: what TLC gives those constants |
| `CacheConfig` | configurations, builders, `New` |
| `MemoizedCall` | one caller of `Wrap`ped functions: options, reflection, entries; composes `Compression` and `CacheConfig`. The function that makes keys is a constant, and so is which arguments are the same |
| `MemoizedKeys` | `MemoizedCall` where keys are those of `KeyGen` |
| `MCObservedCache`, `MCMemoizedCall` | the scenarios of these two for TLC |
| `SingleflightProofs`, `WrappedCallProofs` | theorems about the `Group` and about the wrapper over it |
| `LFUStrategyProofs`, `EvictionProofs` | theorems about LFU, and about the interface and the three trackers |
| `MemoryCacheProofs`, `RedisStoreProofs`, `ObservedCacheProofs`, `MemoizedCallProofs` | theorems about the module each is named for |

How the state corresponds to the code:

- **Singleflight.** `m` is `Group.m`; `run[c]`, `res[c]`, `dups[c]`, `chans[c]` are the fields of the call
  that `c` created (`run` = "returned" is between `wg.Done()` and the closing critical section); `inbox[p]`
  is `p`'s channel of capacity one. `Do` is `Lead` or `Join`, then `FnReturn`, `Complete`, `LeaderReturn`,
  or `WaitDone`. A panic is modelled under `Do`; under `DoChan` it ends the process.
- **WrappedCall.** `wpc` is where an invocation is; `EnterFlight` is `incInFlight` and the opening of
  `sf.Do`; `Finish` is `cache.Set`, the deferred decrement and the return; `cached[k]` is what `cache.Get`
  would answer. Values are known by the version of the source they were computed from.
- **Trackers.** `data`, `order`, `frequencies` are the fields of those names; `recency` is the list inside
  golang-lru, modelled from its use. `report` is the key `Add` returned: the victim for FIFO and LFU, none
  for LRU. `before`, `older`, `uses` and `victim` are history.
- **MemoryCache.** An entry is the time it expires at; `data[k]` is the store. A writing operation is
  `Begin`, its store operation, `Invalidate` for each key that a Delete or Clear counts once the store's
  mutex has been given up, `Count` and `Publish`, with `writer` in place of the held `c.mu`. `resetting` is
  how far a `Stats.Reset` is, which takes no lock; `wiped` is what it took from the statistics, history.
  `removers[r]` is a goroutine of `Get`; `stats` is a `Stats()` between its count and its publication. The
  victim of a full store is any key, which covers all three policies.
- **RedisStore.** `plan` is the sequence of calls on the store that a method of `Cache` still has to make
  (`updateKeyCount` ends each writer with `Keys`); `reads` and `writer` are the store's `s.mu`, which keeps
  new readers out as soon as a writer waits; holding `c.mu` is being in a call.
- **ObservedCache.** `todo[p]` is what goroutine `p` has still to do; a method of `Cache` is the plan
  `Plan(op, k)`, from `"lock"` to `"unlock"`, and a hook that calls the cache puts that plan in front of the
  rest. `readers`, `writer` are `c.mu`, where a writer that waits keeps readers out; `smutex` is the
  store's. A panic leaves the unlocks, which are deferred, and `recordCacheOperation`; in a goroutine of the
  cache's own it ends the program (`crashed`). A hook is a sequence of atoms (log, count, call, panic), each
  with the occasions it is for; `Atoms` bounds those of the scenarios. `Stats.Reset` is one step for each
  statistic (`ResetStat`), of any goroutine, without a lock; `wiped` is what it has taken, `torn` that it
  has taken hits or misses between two reads of the debug handler. `exporters[i].total` and `.last` are what
  the metrics have.
- **MemoizedCall.** `slots` is what the store will answer, by key; a JSON text is known by the value it
  reads back as (`Image`), a compressed one by its size and its compressor. `last` is the last call and how
  it ended: with results, a panic of reflection, or never, when a call that panicked holds its key. The last
  result is an error if its type implements `error`, whatever the type (`Implements`); the text of a string
  is a sequence of tokens, one of which (`BadByte`) is not UTF-8. The limits of `keygen.go` (10 elements, 5
  pairs, 10 fields, 64 bytes) are constants.

`Bug_…` definitions are deliberate faults that no action uses. Each shows that a property can be broken by a
plausible mistake in the code it is about.

## Runs

Passing runs:

| Run | Shows | Bounds |
|---|---|---|
| `Singleflight` | open calls of a key exceed its Forgets by one at most (`InFlightBound`); an answer is that of the call joined, "shared" exactly when somebody else joined it (`AnswerIsShared`); the table leads to open calls of the key only (`RegisteredIsOpen`); every invocation returns unless a function has panicked (`ReturnsUnlessPanicked`) | 3 invocations, 1 key, 2 outcomes: a leader, a duplicate and a third that comes between any two steps of theirs. Keys do not interact; for several the invariants are proved |
| `WrappedCall` | after a Delete nothing older than the oldest execution then under way is answered (`FreshAfterDelete`); the gauge is short by exactly who was inside at the last Reset (`InFlightShort`); only answers nobody shared are cached, errors only under the wrapper's own option (`OnlyLoneAnswersCached`) | 3 invocations, 1 key, 2 versions, errors and panics |
| `Eviction` | map and slice of FIFO, map and counts of LFU agree (`StructuresAgree`); victims are first-in, least used, least recent (`OrderIsArrival`, `VictimLeastUsed`, `VictimLeastRecent`); entries go only by Remove, by Clear, or one at a time to an Add of a full tracker (`EntriesKept`); `Add` of FIFO and LFU returns the key that goes, and no other (`ImplementsStrategy`, false of LRU, which it leaves out) | 4 keys, capacity 3, 2 entries, counts to 3 |
| `MemoryCache` | capacity (`WithinCapacity`); no loss uncounted (`LossesCounted`), `KeyCount` and `Invalidations` not short (`KeyCountNotBehind`, `InvalidationsCounted`), with what a `Stats.Reset` took away; no cleanup takes a live entry (`LiveEntriesStay`); expired entries go (`ExpiredCollected`) | 2 keys, capacity 1, 3 writing operations or Resets, 2 removers, TTL 1 and a clock to 2, so that what is set at 0 expires and what is set later does not. "lru" and "lfu" suffice: without the empty key "fifo" and "lfu" are the same here |
| `RedisStore` | in one process a read never undoes a write (`LastWriteStands`); every call returns unless a counting `Stats` is overtaken by a writer (`ReturnsUnlessOvertaken`) | 1 process of 2 threads, 2 keys, 3 calls, clock to 1, failing commands |
| `MCObservedCache` | no panic of a hook, and no second Close, leaves a lock held (`LocksFreed`); statistics, with what a `Stats.Reset` has wiped, counters of hooks and log lines agree once nobody is at work (`HooksSeeEveryEvent`); no event is logged before it is counted (`CountedBeforeLogged`); the last export has all that was counted before Close and not reset since (`LastExportComplete`), and no statistics are exported after it (`NothingExportedAfterClose`; the deferred `RecordCacheOperation` of a call in flight, `cache.go:204` and `:236`, does reach a closed exporter); what the debug handler shows fits together, unless a Reset of hits or misses comes between its reads (`DebugConsistent`); every call returns unless a hook calls the cache from under a lock (`EveryCallReturns`) | 12 configurations (`MCScenarios`), 2 callers (1 where entries expire), 2 keys, capacity 1, 1 remover, 2 or 3 calls, one tick of the reporter, one expiry: a full store evicts at the second key, a third call observes |
| `MCMemoizedCall` | over memory a wrapped function answers as the function does, if the type of its error can be nil (`Transparent`); over JSON it does, or panics, when it is not variadic and no result is of an interface type, a map or a string that is not UTF-8 (`ExactOrPanic`); keys of plain arguments differ when the arguments do (`PlainArgsApart`) and only then (`StableKey`) | 20 functions of every shape of results, 8 configurations that are accepted and 6 refused, 4 sets of options, 2 or 3 calls: compute, find, and find what another call left; 34 values and 16 pairs of strings as arguments, for keys; limits of 2 elements, 2 pairs, 2 fields |

Three invocations, or three operations, are enough for each property to be broken: all the faults above are
found within these bounds, and every interaction in the code is between two parties, a third being the one
who observes. Deadlock is not checked where the number of calls is bounded, since the system then really
stops when all are done; `Eviction` checks it. Where no deadlock is checked, liveness says that nobody is
left waiting.

Runs that must find a violation; each property is what a comment, document or test says:

| Run | Finding |
|---|---|
| `SingleflightPanic` | the function panics under `Do`: duplicates, and all later callers of the key, wait for ever |
| `WrappedCallCached` | two callers overlap: neither stores the answer, and the next call executes the function again |
| `MemoryCacheRemover` | the goroutine that removes an expired entry removes the live one that replaced it |
| `RedisStoreStats` | `Stats()` and a `Set` wait for each other for ever: `Keys` read-locks twice |
| `RedisStoreShared` | the write-back of a `Get` in one process undoes a `Set` or `Delete` of another |

Divergences met on the way that have no run of their own: a `Forget`ten call that completes deletes the
newer call of its key, so a second Forget is not needed for a third execution (`InFlightBound` is
therefore stated with the number of Forgets); a caller that missed before the first execution stored, and
enters the group after it left, executes again; `Stats.Reset` during a call takes the gauge below zero;
over `memory.Store` a `Delete` counts as an eviction and an expiry as two, and over both stores two Gets
of one expired entry count two evictions (`LossesCounted` is an inequality for that reason); a `Delete` of
an absent key counts as an invalidation; a `Stats()` among writers publishes a stale `KeyCount`; the
`StrategyStore` evicts the entry of the empty key without telling anybody; an unknown `EvictionType` gives
a `StrategyStore` over `LRUStrategy`, whose evictions it never hears of, since `LRUStrategy.Add` returns
`""` whatever goes (`lru.go:37`), where the interface promises "the key of an entry to evict if capacity
is exceeded" (`eviction.go:10`; `ImplementsStrategy` is therefore about FIFO and LFU); a `Stats.Reset`
between the reads of the debug handler makes the hits and misses it shows exceed its total. With the empty
key among the keys, `findLFU`'s answer `""` for it is read as "nothing to evict", and the tracker grows
past its capacity (`Eviction` is therefore run without it).

Of the observers and of values:

- The plain hooks run before those of high priority, and these before the `Ctx` hooks of any (`hooks.go:85`
  says "execute before other priorities"); `CountedBeforeLogged` is about one list.
- The context of a hook is always the background context and its arguments are always nil, so no condition
  on a context is ever met, and no log line has the `request_id` or the count of arguments.
- A hook that panics makes the operation panic, after its effect on the store; in a goroutine of the cache
  it ends the program (`doc.go:160` says that hooks do not affect cache operations).
- A hook on eviction that calls even `Stats()` waits for ever, since it has the store's mutex.
- `ExportStats` adds the current value of a cumulative statistic to a counter, at each export anew.
- Slow operations are never logged, whatever `EnableSlowOperationLogging` was given.
- A second `Close` panics.
- "Caching is transparent" (`doc.go:63`) fails over Redis, and with compression: an `int` or a struct comes
  back as a `float64` or a map and the call panics, a result of type `any` or `map[string]any` is altered
  without notice, and a cached error becomes a value, or a panic.
- Over both, a string that is not UTF-8 comes back with other bytes and no panic, since `encoding/json`
  replaces what it cannot write; `ExactOrPanic` leaves such strings out.
- `ValidateWrappableFunction` accepts a last result of any type that implements `error` (`wrap.go:393`), and
  the wrapper asks it `IsNil` (`wrap.go:205`), which panics where the type cannot be nil, such as
  `syscall.Errno` or a struct: whenever the function computes, and with the key held, so that the next
  caller waits for ever. `Transparent` leaves these types out.
- A wrapped variadic function is called with its slice as one argument: of most types this panics, to
  `...any` it goes ahead, and the function sees one argument, a slice, where there were several
  (`ValidateWrappableFunction` refuses variadic functions, `Wrap` does not ask it).
- A nil result of an interface type, and a function whose only result is an error that is nil, panic on
  return. So does a call with a nil context, and one with an array among its arguments.
- Keys do not name the function: two functions wrapped over one cache with the same arguments share an
  entry, and a flight.
- `New` leaves the store, and its cleanup goroutine, behind when the compression is refused.

## Fairness

- `Singleflight`: weak fairness of `Work`, which is any of `FnReturn`, `FnPanic`, `Complete`, `WaitDone`,
  `LeaderReturn` and `Receive` of any invocation. The function ends, one way or the other; while some
  goroutine can run, one does. That is less than fairness for each, and enough, since each step is taken
  once and, once enabled, stays so until taken. Nothing is assumed of cancellation, Forget or new calls.
- `ObservedCache`: weak fairness of `Work` in the same sense: a step of whatever goroutine has begun
  something, and of the reporter's `select` once its channel is closed. No ticker has to tick, nobody has to
  call, and nothing has to expire.
- `MemoryCache`: weak fairness of the janitor (a ticker that runs until Close) and of the writer that holds
  `c.mu`. No fairness of the clock, of the removers or of any caller.
- `RedisStore`: weak fairness of each thread's next step. Commands return, with an answer or an error.

## Proofs

All for any values of the constants, under the assumptions named in the modules.

- `SingleflightProofs`. None of the three safety invariants is inductive. `StructInv` is: it adds to
  `TypeOK` what each control point means (who has a call, whose it is, that it has begun, that its key is
  set) and that an entry of `m` is an open call of its key which nobody has forgotten. `TypeCorrect` and
  `RegistryLeadsToOpenCalls` follow. `RegistryInv` strengthens `InFlightBound` by an account: a key's entry
  in `m` pays for one of its open calls, each Forget for one more; a completed or forgotten call never
  leaves the two out of balance. That is `DuplicatesSuppressed`. `AnswerInv` ties `dups[c]` to the existence
  of others on `c`, the channels of `c` to its callers, and what is in a channel or was returned to what the
  fields of the call now say, which gives `AnswersAreShared`.
- `LFUStrategyProofs`. `MapsAgree` (entries and counts have the same keys) and `EvictsLeastUsed` (with the
  counts equal to the uses, the least count is the least used) hold with the empty key and without.
  `LFUImplementsStrategy` assumes that nobody uses the empty key, without which it is false; it maps every
  step to one of `EvictionStrategy` or none.
- `MemoryCacheProofs`. All the safety of `MemoryCache`. `InvalidationInv` adds to `InvalidationsCounted`
  (which has what the writer has still to count once the store's mutex is given up, and what a Reset took
  away) that, between its two steps on the store, Clear has in hand all that is live: only the writer adds,
  and what runs beside it (`BesideShrinks`) makes no key live. For the same reason a count in the hands of a
  writer, or of a `Stats()` that met no writer, is not short (`KeyCountInv`), hence `KeyCountKeepsUp`; a
  Reset is left to the next count, as such a `Stats()` is. Neither needs the capacity. `CapacityKept`,
  `TypeCorrect`, `NoSilentLoss` and `CleanupSparesLive` assume that nobody uses the empty key; a Set is one
  entry more where there is room, or one out whose eviction is counted and one in (`SetKeepsRoom`), and
  every other step's removals are paid for by what it counts.

- `WrappedCallProofs`. All the safety of `WrappedCall`. A step of the wrapper is one of the Group or leaves
  it alone (`GroupNext`), so `StructInv` and `AnswerInv` of `SingleflightProofs` hold of the instance as
  they are, and `GroupIsSingleflight` is the refinement itself. `PathInv` ties where an invocation is in the
  wrapper to where it is in the Group. `FreshAfterDelete` needs `VersionInv`: the floor of a key is no newer
  than what is cached, nor than the version with which any execution began that somebody waits for; what is
  due to a caller is no newer than the execution it is on or, when it has only missed, than any it may yet
  join; a result is no older than the beginning of its execution. A Delete sets the floor to the beginning
  of the oldest execution then under way (`FloorIsLeast`). `InFlightShort` is inductive by counting
  (`GaugeStep`), `OnlyLoneAnswersCached` once `dups` is known never to shrink.
- `EvictionProofs`. The slice of FIFO and the list of LRU are one structure: a list of the held keys, once
  each (`Lists`), in the order of the history (`Precedes`). What an append, a prepend, a removal of the
  first occurrence and the loss of an end make of such a list are lemmas (`AppendLists`, `PrependLists`,
  `WithoutLists`, ...); `StructuresAgree`, `OrderIsArrival` and `VictimLeastRecent` follow, and LFU comes
  from `LFUStrategyProofs`. `TrackersKeepEntries`, `TrackersImplementStrategy` and `CapacityHolds` assume
  that nobody uses the empty key, as the run does; the others do not. `TrackersKeepEntries` is of all
  three and of the entries alone; `TrackersImplementStrategy`, with the key that `Add` returns, leaves LRU
  out, which returns `""` also when it evicts. `InterfaceBounds` is about the abstract specification
  alone: what the interface promises is enough for the bound, since a replacement is one out, one in
  (`SwapSize`). `CapacityHolds` is the two together: the trackers keep their entries as it says, and so
  inherit its bound.
- `RedisStoreProofs`. `LockInv` says, of every thread, how many read locks it has at each control point,
  that one who has asked for the write lock is the writer its process knows, and that one who has it meets
  no reader. `WriterExcludes` follows, for any number of processes. `LastWriteHolds` has in addition that a
  `Get` about to write back (`settling`) has in hand what was last written under its key: its read lock
  keeps the writers of its own process out until it has. That is an assumption on the constants, one
  process, and the theorem is false for two, as the run `RedisStoreShared` shows.
- `ObservedCacheProofs`. The invariant is about what each goroutine has left to do. `Balanced`: the locks it
  has and those it will take are as many as it will let go, of each of the three kinds. `LocksFirst`: before
  a step that takes a lock nothing is left that can panic or run a hook, so that what a panic leaves
  (`Deferred`) takes no lock and is balanced too. `WaitFirst`, with `CloseInv`: the step that closes the
  exporter comes after one that waits for the reporter, and the reporter is the only one that exports. Every
  step of `Next` begins a call, advances a goroutine by replacing its next step with a balanced plan,
  unwinds one, or launches a goroutine (`Shape`), so the invariant is proved once for each of the four. Each
  plan is balanced by counting over concatenation and flattening; flattening a sequence of any length
  (hooks, keys, exporters) is an induction on its beginnings, done with sets (`Induction`). From it come
  `TypeCorrect`, `LocksFreedHolds`, `UnlocksOwn` (stronger than what the run checks: no unlocking, deferred
  ones included, of a lock that its goroutine does not have) and `ExportEndsFirst`. `DebugHolds` has an
  invariant of its own, `ReadInv`: what has been read is in the order of the reading, and no more than the
  counters, as long as no Reset of hits or misses has come between the reads (`torn`); every other step only
  makes the counters grow (`CountsGrow`). `FinalExportHolds` needs the order of the steps of Close: `Linked`
  says that each, up to the closing of the exporter, comes right after the one before it, in whatever a
  goroutine has left, and so under the lock it took (`OwnerKept`). By `LastInv` a Close that has told the
  reporter to stop goes on to close the exporter, so nobody else replaces the statistics it found
  (`FoundKept`); the last export begins after that, its plan has every statistic of every exporter
  (`PlanHas`), and what has not been given is still in the plan (`CompleteKept`); a Reset lowers the
  statistic, what is owed of it (`atClose`) with it, and takes nothing from an exporter (`ResetLowers`).
  What an exporter has been given is a sum over its samples, which no operation on it makes smaller
  (`ExportersGrow`). Exporters are assumed to be new when the cache is made (`ScenariosKnown`).
  `HooksSeeEveryEventHolds` and `CountedBeforeLoggedHolds` are an account of each event (`TotalsInv`): until
  something panics, what the counters have, or the log, and what goroutines have still to count, or to log,
  add up to the statistic and what Resets have wiped from it (`Ever`, which a Reset leaves alone;
  `CountedInv`, `LoggedInv`). What is still to do is a sum over goroutines (`Due`) of the steps of that kind
  left to each (`Tally`). An event that is told puts one counting and one logging step in front
  (`EventHooks`, from what the order of priorities, flattening and the composition of hooks keep of a list:
  `None`, `Sole`, `InOrder`); taking such a step moves one from what is due to what was seen (`DueActs`).
  Every step of `Next` is one of four moves in that respect: `Waits`, `Acts`, `Tells`, `Panics` (`AllMove`).
  Neither property is inductive, and the account alone does not give the second: `OrderInv` adds that, from
  each place of what a goroutine has left, the steps that count are no more than those that log (`Covers`),
  so that a panic, which drops the hooks behind it, never drops a counting step and spares the logging one.
  `FitInv` is what keeps a counting step from being refused: the first exporter has the name as a counter
  from its first use on, and the registry has it from nobody else. Both theorems are about the events that a
  scenario has counted or logged, and what that means is the assumption: one hook of the `Ctx` priority list
  of the event counts it, or logs it, for every key, no other does, and the counting one has the higher
  priority (`ObserversKnown`); it counts with a counter whose labels the exporter has not got itself, and
  logs at a level that the logger does not drop (`Fits`, in `ScenariosKnown`). All the other hooks, counted
  events or not, are any.
- `MemoizedCallProofs`. For any functions, options, configurations, key functions and any `encoding/json`
  that does what it says, under three assumptions on the constants: a function panics or returns results of
  its types, as Go makes it (`FunctionTypes`); one name is one function, which answers the same to the same
  arguments (`Deterministic`, what memoizing asks for); and JSON is as documented on what it is handed
  (`JsonAssumption`, with `JsonContract`, which leaves open what becomes of a string that is not UTF-8 and
  of a struct). That a function answers what the caller is given is not inductive: the answer comes from
  what earlier calls left. `IInv` says of every entry that some call made under its key computed it, and
  that the entry is what the form of storage makes of that call's results (`Explains`), or an image of it in
  JSON; when the last call is alone with its key, that call is one with the same function and the same
  arguments (`SameRun`). One lemma says what each form of storage gives back (`EntryKeeps`, `FoundInMemory`,
  `FoundInJson`), others what reflection makes of it: the value itself, and of an error the zeros beside it
  (`ValueAnswered`, `ErrorAnswered`), and of an image either the value or a panic, because no type but an
  interface takes both (`ImageAnswered`). `TypeCorrect`, `TransparentHolds` and `ExactOrPanicHolds` follow.
  A type of error that cannot be nil is in the properties too, as what `Transparent` leaves out: it never
  gets as far as an entry. Nothing is assumed of the key function, not even that keys of different arguments
  differ: `Alone` is in the properties.

The proofs found two things. A panic in `close(s.stopCleanup)` comes before the store is cleared and so
before its mutex is taken; the model had the unlocking of that mutex deferred already, and `Balanced` was
not preserved: now the store's part of `Close` begins only after it. And `LockInv` needs `MarkersDistinct`:
that the markers for nobody, for no entry and the like are not themselves threads, keys or entries.

Model-checked only:

- all liveness, which is out of the prover's reach;
- `PlainArgsApart` and `StableKey` of `MemoizedKeys`: keys are computed by recursion over values, and what a
  recursive definition computes is known by induction only. `StableKey` also rests on no map having two keys
  of one text.

## Not modelled

- The text of log lines, of keys beyond what tells them apart, of HTTP answers; units, buckets and
  descriptions of metrics; gzip, zlib, golang-lru, Redis, the Prometheus and OpenTelemetry libraries,
  `reflect`, `fmt`, `encoding/json` and `sync`, all of which are modelled from how the code uses them.
- Registration of a hook or a change of a configuration while the cache runs: both are unsynchronised, and
  done before the cache is made wherever the repository does it.
- Over Redis, hooks and metrics: `ObservedCache` has the stores in memory.
- A Redis entry that does not parse, and the cleanup callback of the Redis store, which counts an expired
  entry once for each Get that comes upon it.
- A wrapped function that calls itself, through its wrapper, with the same arguments: it would wait for its
  own call. Invocations of the models are goroutines of their own.
- A capacity of zero or less in the trackers (`CacheConfig` has what `New` makes of one).
- Labels that are nil: the OpenTelemetry exporter then drops those of its configuration too
  (`convertLabels`), where the model adds them to a map without labels. No property depends on it.
- `NewDebugServer`, the paths and methods of the debug handler, the examples and scripts.

## Plan

1. done: `Singleflight`, `WrappedCall`, the trackers, `MemoryCache`, `RedisStore`, the first theorems;
2. done: `Hooks`, `Logging`, `Exporters` and their composition `ObservedCache`;
3. done: `GoValues`, `KeyGen`, `Compression`, `CacheConfig` and their composition `MemoizedCall`;
4. done: theorems about all the safety of `Singleflight`, `WrappedCall`, the trackers, `MemoryCache`,
   `RedisStore`, `ObservedCache` and `MemoizedCall`, but for the two invariants about keys;
5. extensions: self-calls of a wrapped function; hooks over Redis.
