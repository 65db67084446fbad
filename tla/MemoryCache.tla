---------------------------- MODULE MemoryCache ----------------------------
(***************************************************************************)
(* Cache over its two in-memory stores: memory.Store ("lru", around the    *)
(* golang-lru cache) and memory.StrategyStore ("fifo" and "lfu", around    *)
(* that eviction strategy).  The cache's lock c.mu makes writers exclude   *)
(* each other and readers; each store operation is one action under the    *)
(* store's own s.mutex.  What takes s.mutex without c.mu runs between the  *)
(* steps of a writer: the janitor, the goroutines that Get starts to       *)
(* remove an expired entry, Stats() and its Reset().  Values, hits and     *)
(* misses are left out: an entry is the time it expires at.  The victim of *)
(* a full store is any of its keys, which covers the three policies.       *)
(***************************************************************************)
EXTENDS Naturals, FiniteSets

CONSTANTS
  Backends,   \* the stores to choose from
  Keys,
  Capacity,
  TTLs,       \* TTLs of entries, defaults applied; one beyond MaxTime is "none"
  Removers,   \* bound on the goroutines of Get alive at a time
  MaxTime,    \* bound on the clock
  MaxOps,     \* bound on the writing operations and Resets
  Ops,        \* which of them are called
  EmptyKey,   \* the key "": one of Keys, or not when nobody uses it
  Absent, Idle

ASSUME BackendsKnown == Backends \subseteq {"lru", "fifo", "lfu"} /\ Backends # {}
ASSUME OpsKnown == Ops \subseteq {"Set", "Delete", "Clear", "Cleanup", "Close"}
ASSUME Numbers ==
  /\ Capacity \in Nat \ {0}
  /\ MaxTime \in Nat /\ MaxOps \in Nat
  /\ TTLs \subseteq Nat \ {0}
ASSUME Finite == IsFiniteSet(Keys) /\ IsFiniteSet(Removers)
ASSUME AbsentDistinct == Absent \notin Nat

VARIABLES
  backend,
  clock,
  data,           \* the store: Keys -> expiry of the entry
  writer,         \* the operation that holds c.mu, or Idle
  stats,          \* the unlocked Stats() that is about to publish, or Idle:
                  \* its count, and whether a writer was about meanwhile
  removers,       \* the key and the progress of each remover
  janitor,        \* "running", or "stopped" after Close
  closed,
  keyCount, evictions, invalidations,   \* the statistics
  resetting,      \* the statistic that a Reset() is about to zero, or "none"
  ops,            \* writing operations and Resets so far
  wiped,          \* history: what Reset took from evictions and invalidations
  entered,        \* history: entries that came under a new key
  asked,          \* history: entries taken out by Delete, Clear or Close
  dropped,        \* history: those of them that Delete or Clear took out live
  mixed           \* history: whether keyCount is from a Stats() among writers, or
                  \* a Reset

vars == <<backend, clock, data, writer, stats, removers, janitor, closed,
          keyCount, evictions, invalidations, resetting, ops, wiped,
          entered, asked, dropped, mixed>>
timing == <<backend, clock>>
zeroing == <<resetting, wiped>>
accounts == <<zeroing, ops, entered, asked, dropped>>
lifecycle == <<janitor, closed>>

Held == {k \in Keys : data[k] # Absent}
\* IsExpired: now is after the expiry
Live(k) == data[k] # Absent /\ data[k] >= clock
Expired == {k \in Held : ~Live(k)}
LenNow == Cardinality({k \in Keys : Live(k)})
Expiries == {c + t : c \in 0..MaxTime, t \in TTLs}

\* the writing operations under way, by how far they are; the goroutines of
\* Get; the calls of Stats()
WriterStates ==
  [op : Ops, key : Keys, exp : Expiries \union {0},
   step : {"store", "clear", "invalidate", "count", "publish"}, n : 0..Cardinality(Keys)]
RemoverStates == [key : Keys, step : {"remove", "notify"}]
StatsStates == [n : Nat, mixed : BOOLEAN]
Wiped == [evictions : Nat, invalidations : Nat]

ASSUME IdleDistinct == Idle \notin WriterStates \union RemoverStates \union StatsStates

TypeOK ==
  /\ backend \in Backends
  /\ clock \in 0..MaxTime
  /\ data \in [Keys -> Expiries \union {Absent}]
  /\ writer \in WriterStates \union {Idle}
  /\ stats \in StatsStates \union {Idle} /\ (stats # Idle => stats.n <= Capacity)
  /\ removers \in [Removers -> RemoverStates \union {Idle}]
  /\ janitor \in {"running", "stopped"} /\ closed \in BOOLEAN
  /\ keyCount \in 0..Capacity
  /\ evictions \in Nat /\ invalidations \in Nat /\ ops \in 0..MaxOps
  /\ resetting \in {"none", "invalidations", "keyCount"}
  /\ wiped \in Wiped
  /\ entered \in Nat /\ asked \in Nat /\ dropped \in Nat /\ mixed \in BOOLEAN

Init ==
  /\ backend \in Backends
  /\ clock = 0
  /\ data = [k \in Keys |-> Absent]
  /\ writer = Idle /\ stats = Idle
  /\ removers = [r \in Removers |-> Idle]
  /\ janitor = "running" /\ closed = FALSE
  /\ keyCount = 0 /\ evictions = 0 /\ invalidations = 0
  /\ resetting = "none" /\ wiped = [evictions |-> 0, invalidations |-> 0]
  /\ ops = 0 /\ entered = 0 /\ asked = 0 /\ dropped = 0 /\ mixed = FALSE

\* data without the keys in S
Without(S) == [k \in Keys |-> IF k \in S THEN Absent ELSE data[k]]

\* the evict callbacks of taking out n present entries by Remove or Purge:
\* golang-lru makes them, the strategies do not
Callbacks(n) == IF backend = "lru" THEN n ELSE 0

-----------------------------------------------------------------------------
(* Writers: take c.mu, change the store, count it, publish the count.      *)

\* A Set computes the expiry before it takes the lock
Begin(op, k, ttl) ==
  /\ writer = Idle /\ ops < MaxOps
  /\ op = "Close" => ~closed
  /\ writer' = [op |-> op, key |-> k, exp |-> IF op = "Set" THEN clock + ttl ELSE 0,
                 step |-> "store", n |-> 0]
  /\ stats' = IF stats = Idle THEN Idle ELSE [stats EXCEPT !.mixed = TRUE]
  /\ ops' = ops + 1
  /\ UNCHANGED <<timing, data, removers, lifecycle, keyCount, evictions,
                 invalidations, zeroing, entered, asked, dropped, mixed>>

At(op, step) == writer # Idle /\ writer.op = op /\ writer.step = step
Proceed(step) == writer' = [writer EXCEPT !.step = step]

\* admits one entry too many
Bug_Room == writer.key \in Held \/ Cardinality(Held) <= Capacity

\* Add finds the key, or room.  LFU takes the answer "" of findLFU for "no
\* victim", and lets the key in.
Room ==
  \/ writer.key \in Held
  \/ Cardinality(Held) < Capacity
  \/ backend = "lfu" /\ EmptyKey \in Held

\* evicts without the callback
Bug_Callback(v) == 0

\* the evict callback of a victim: the StrategyStore takes the key "" for
\* "nothing was evicted"
Callback(v) == IF backend # "lru" /\ v = EmptyKey THEN 0 ELSE 1

\* store.Set: a new key takes the place of a victim when the store is full
StoreSet ==
  LET k == writer.key IN
  /\ At("Set", "store")
  /\ \/ /\ Room
        /\ data' = [data EXCEPT ![k] = writer.exp]
        /\ UNCHANGED evictions
     \/ /\ k \notin Held /\ Cardinality(Held) >= Capacity
        /\ \E v \in Held :
             /\ backend = "lfu" => v # EmptyKey
             /\ data' = [data EXCEPT ![v] = Absent, ![k] = writer.exp]
             /\ evictions' = evictions + Callback(v)
  /\ entered' = entered + (IF k \in Held THEN 0 ELSE 1)
  /\ Proceed("count")
  /\ UNCHANGED <<timing, stats, removers, lifecycle, keyCount, invalidations, zeroing, ops,
                 asked, dropped, mixed>>

\* store.Delete; one invalidation is to be counted, whether or not the key was
\* there
StoreDelete ==
  LET gone == {writer.key} \intersect Held IN
  /\ At("Delete", "store")
  /\ data' = Without(gone)
  /\ evictions' = evictions + Callbacks(Cardinality(gone))
  /\ asked' = asked + Cardinality(gone)
  /\ dropped' = dropped + Cardinality(gone \ Expired)
  /\ writer' = [writer EXCEPT !.step = "invalidate", !.n = 1]
  /\ UNCHANGED <<timing, stats, removers, lifecycle, keyCount, invalidations, zeroing, ops,
                 entered, mixed>>

\* asks for the keys when they are gone
Bug_ClearKeys ==
  /\ At("Clear", "store")
  /\ writer' = [writer EXCEPT !.step = "clear", !.n = 0]
  /\ UNCHANGED <<timing, data, stats, removers, lifecycle, keyCount, evictions,
                 invalidations, accounts, mixed>>

\* Clear asks for the keys (those that have not expired) and then clears
ClearKeys ==
  /\ At("Clear", "store")
  /\ writer' = [writer EXCEPT !.step = "clear", !.n = LenNow]
  /\ UNCHANGED <<timing, data, stats, removers, lifecycle, keyCount, evictions,
                 invalidations, accounts, mixed>>

StoreClear ==
  /\ At("Clear", "clear")
  /\ data' = Without(Keys)
  /\ evictions' = evictions + Callbacks(Cardinality(Held))
  /\ asked' = asked + Cardinality(Held)
  /\ dropped' = dropped + LenNow
  /\ Proceed("invalidate")
  /\ UNCHANGED <<timing, stats, removers, lifecycle, keyCount, invalidations, zeroing, ops,
                 entered, mixed>>

\* incInvalidations, for one key after the other, when s.mutex has been given up
Invalidate ==
  /\ writer # Idle /\ writer.step = "invalidate"
  /\ \/ /\ writer.n > 0
        /\ invalidations' = invalidations + 1
        /\ writer' = [writer EXCEPT !.n = @ - 1]
     \/ /\ writer.n = 0
        /\ Proceed("count")
        /\ UNCHANGED invalidations
  /\ UNCHANGED <<timing, data, stats, removers, lifecycle, keyCount, evictions, accounts, mixed>>

\* takes entries at the very tick they expire
Bug_CollectEarly ==
  LET gone == {k \in Held : data[k] <= clock} IN
  /\ data' = Without(gone)
  /\ evictions' = evictions + Cardinality(gone) + Callbacks(Cardinality(gone))

\* finds nothing to collect
Bug_CollectNothing == UNCHANGED <<data, evictions>>

\* Both stores' Cleanup: every entry that has expired is removed, with the
\* cleanup callback on top of what Remove itself calls
Collect ==
  /\ data' = Without(Expired)
  /\ evictions' = evictions + Cardinality(Expired) + Callbacks(Cardinality(Expired))

StoreCleanup ==
  /\ At("Cleanup", "store")
  /\ Collect
  /\ Proceed("count")
  /\ UNCHANGED <<timing, stats, removers, lifecycle, keyCount, invalidations, accounts, mixed>>

\* store.Close: tells the janitor to stop, and clears; nothing is counted
StoreClose ==
  /\ At("Close", "store")
  /\ closed' = TRUE
  /\ data' = Without(Keys)
  /\ evictions' = evictions + Callbacks(Cardinality(Held))
  /\ asked' = asked + Cardinality(Held)
  /\ writer' = Idle
  /\ UNCHANGED <<timing, stats, removers, janitor, keyCount, invalidations, zeroing, ops,
                 entered, dropped, mixed>>

\* updateKeyCount: store.Len() and then setKeyCount are two steps
Count ==
  /\ writer # Idle /\ writer.step = "count"
  /\ writer' = [writer EXCEPT !.step = "publish", !.n = LenNow]
  /\ UNCHANGED <<timing, data, stats, removers, lifecycle, keyCount, evictions,
                 invalidations, accounts, mixed>>

\* forgets to publish
Bug_Publish ==
  /\ writer # Idle /\ writer.step = "publish"
  /\ writer' = Idle /\ mixed' = FALSE
  /\ UNCHANGED <<timing, data, stats, removers, lifecycle, keyCount, evictions,
                 invalidations, accounts>>

Publish ==
  /\ writer # Idle /\ writer.step = "publish"
  /\ keyCount' = writer.n
  /\ writer' = Idle /\ mixed' = FALSE
  /\ UNCHANGED <<timing, data, stats, removers, lifecycle, evictions, invalidations, accounts>>

-----------------------------------------------------------------------------
(* What runs beside the writers.                                           *)

\* Get, Has and TTL, of an expired entry: a miss, and a goroutine to remove it
GetExpired(k, r) ==
  /\ writer = Idle
  /\ k \in Expired /\ removers[r] = Idle
  /\ removers' = [removers EXCEPT ![r] = [key |-> k, step |-> "remove"]]
  /\ UNCHANGED <<timing, data, writer, stats, lifecycle, keyCount, evictions,
                 invalidations, accounts, mixed>>

\* s.mutex and Remove(key): the goroutine does not look at the entry again
RemoverRemove(r) ==
  /\ removers[r] # Idle /\ removers[r].step = "remove"
  /\ LET gone == {removers[r].key} \intersect Held IN
       /\ data' = Without(gone)
       /\ evictions' = evictions + Callbacks(Cardinality(gone))
  /\ removers' = [removers EXCEPT ![r].step = "notify"]
  /\ UNCHANGED <<timing, writer, stats, lifecycle, keyCount, invalidations, accounts, mixed>>

\* the cleanup callback, outside s.mutex, whether or not Remove found anything
RemoverNotify(r) ==
  /\ removers[r] # Idle /\ removers[r].step = "notify"
  /\ evictions' = evictions + 1
  /\ removers' = [removers EXCEPT ![r] = Idle]
  /\ UNCHANGED <<timing, data, writer, stats, lifecycle, keyCount, invalidations, accounts, mixed>>

\* a tick of the cleanup ticker; after Close one may still be pending
Janitor ==
  /\ janitor = "running"
  /\ Collect
  /\ janitor' = IF closed THEN "stopped" ELSE janitor
  /\ UNCHANGED <<timing, writer, stats, removers, closed, keyCount, invalidations, accounts,
                 mixed>>

JanitorStop ==
  /\ janitor = "running" /\ closed
  /\ janitor' = "stopped"
  /\ UNCHANGED <<timing, data, writer, stats, removers, closed, keyCount, evictions,
                 invalidations, accounts, mixed>>

\* Stats() calls updateKeyCount without c.mu
StatsCount ==
  /\ stats = Idle
  /\ stats' = [n |-> LenNow, mixed |-> writer # Idle]
  /\ UNCHANGED <<timing, data, writer, removers, lifecycle, keyCount, evictions,
                 invalidations, accounts, mixed>>

StatsPublish ==
  /\ stats # Idle
  /\ keyCount' = stats.n
  /\ stats' = Idle /\ mixed' = stats.mixed
  /\ UNCHANGED <<timing, data, writer, removers, lifecycle, evictions, invalidations, accounts>>

\* Stats.Reset zeroes one statistic after the other, without a lock
ResetEvictions ==
  /\ resetting = "none" /\ ops < MaxOps
  /\ evictions' = 0
  /\ wiped' = [wiped EXCEPT !.evictions = @ + evictions]
  /\ resetting' = "invalidations" /\ ops' = ops + 1
  /\ UNCHANGED <<timing, data, writer, stats, removers, lifecycle, keyCount, invalidations,
                 entered, asked, dropped, mixed>>

ResetInvalidations ==
  /\ resetting = "invalidations"
  /\ invalidations' = 0
  /\ wiped' = [wiped EXCEPT !.invalidations = @ + invalidations]
  /\ resetting' = "keyCount"
  /\ UNCHANGED <<timing, data, writer, stats, removers, lifecycle, keyCount, evictions,
                 ops, entered, asked, dropped, mixed>>

ResetKeyCount ==
  /\ resetting = "keyCount"
  /\ keyCount' = 0 /\ mixed' = TRUE
  /\ resetting' = "none"
  /\ UNCHANGED <<timing, data, writer, stats, removers, lifecycle, evictions, invalidations,
                 wiped, ops, entered, asked, dropped>>

Reset == ResetEvictions \/ ResetInvalidations \/ ResetKeyCount

Tick ==
  /\ clock < MaxTime
  /\ clock' = clock + 1
  /\ UNCHANGED <<backend, data, writer, stats, removers, lifecycle, keyCount, evictions,
                 invalidations, accounts, mixed>>

Write ==
  \/ StoreSet \/ StoreDelete \/ ClearKeys \/ StoreClear \/ StoreCleanup \/ StoreClose
  \/ Invalidate \/ Count \/ Publish

Next ==
  \/ \E op \in Ops, k \in Keys, ttl \in TTLs : Begin(op, k, ttl)
  \/ Write
  \/ \E k \in Keys, r \in Removers : GetExpired(k, r)
  \/ \E r \in Removers : RemoverRemove(r) \/ RemoverNotify(r)
  \/ Janitor \/ JanitorStop
  \/ StatsCount \/ StatsPublish
  \/ Reset
  \/ Tick

Spec == Init /\ [][Next]_vars

\* The ticker keeps ticking (CleanupInterval > 0) and the goroutines run
FairSpec == Spec /\ WF_vars(Janitor) /\ WF_vars(Write)

-----------------------------------------------------------------------------
(* Safety.                                                                 *)

\* Whoever adds and removes beside the writers, the store never holds more
\* entries than MaxEntries.
WithinCapacity == Cardinality(Held) <= Capacity

\* No entry is lost in silence: what came in and neither stayed nor was taken
\* out on request has been counted as an eviction (before a Reset or since), or
\* a remover is about to.
Notifying == {r \in Removers : removers[r] # Idle /\ removers[r].step = "notify"}
LossesCounted ==
  entered <= Cardinality(Held) + asked + evictions + wiped.evictions + Cardinality(Notifying)

\* A live entry goes only on request, to make room for another key, or to a
\* remover started for an earlier entry of its key; never to a cleanup.
LiveEntriesStay ==
  [][\A k \in Keys : Live(k) /\ data'[k] = Absent =>
       \/ StoreDelete \/ StoreClear \/ StoreClose
       \/ StoreSet /\ writer.key # k /\ Cardinality(Held) = Capacity
       \/ \E r \in Removers : RemoverRemove(r) /\ removers[r].key = k]_data

\* The comments on Get's goroutine and on the stores' Cleanup: what they
\* remove is the "expired entry".
RemoversSpareLive ==
  [][\A r \in Removers : RemoverRemove(r) => ~Live(removers[r].key)]_vars

\* "KeyCount is the current number of keys in the cache": when no writer is at
\* work it never falls short of them, unless it was last written by a Stats()
\* among writers, which do not wait for each other, or by a Reset.  (It may
\* exceed them: what expires or is collected is not discounted before the next
\* count.)
KeyCountNotBehind == writer = Idle /\ ~mixed => keyCount >= LenNow

\* "Invalidations is the number of manually invalidated entries": with those
\* that the writer has still to count, and those a Reset took away, it is no less
\* than the live entries Delete and Clear took out, although Clear asks for the
\* keys before it clears, and the janitor or a remover may come in between.
Pending == IF writer # Idle /\ writer.step = "invalidate" THEN writer.n ELSE 0
InvalidationsCounted == dropped <= invalidations + wiped.invalidations + Pending

(* Liveness.                                                               *)

\* An entry that has expired is collected, or stored anew, whether or not
\* anybody asks for its key again, as long as the cache is open.
ExpiredCollected ==
  \A k \in Keys : k \in Expired ~> k \notin Expired \/ closed
=============================================================================
