----------------------------- MODULE CacheConfig -----------------------------
(***************************************************************************)
(* Configurations of a cache, their builders, and what New makes of one.   *)
(* Times are natural numbers of seconds.                                   *)
(***************************************************************************)
EXTENDS Compression, TLC

CONSTANT None       \* nil

\* A client that is given, or the address of the server to connect to
RedisConfig(client, addr, prefix) == [client |-> client, addr |-> addr, prefix |-> prefix]
MetricsConfig(exporter, enabled, name, interval, labels) ==
  [exporter |-> exporter, enabled |-> enabled, name |-> name, interval |-> interval,
   labels |-> labels]

NewDefaultConfig ==
  [store |-> "memory", maxEntries |-> 1000, defaultTTL |-> 300, cleanup |-> 60,
   eviction |-> "lru", keyFunc |-> None, hooks |-> "empty", redis |-> None,
   metrics |-> None, compression |-> None]

NewSimpleConfig(maxEntries, defaultTTL) ==
  [NewDefaultConfig EXCEPT !.maxEntries = maxEntries, !.defaultTTL = defaultTTL,
                           !.cleanup = defaultTTL \div 2]

\* WithRedis, and what it has in common with NewRedisConfig
WithRedis(config, redis) ==
  [config EXCEPT !.store = "redis", !.redis = redis, !.maxEntries = 0, !.cleanup = 0]
NewRedisConfig(addr) == WithRedis(NewDefaultConfig, RedisConfig(None, addr, "obcache:"))
NewRedisConfigWithClient(client) ==
  WithRedis(NewDefaultConfig, RedisConfig(client, "", "obcache:"))

\* WithMaxEntries, WithDefaultTTL, WithCleanupInterval, WithKeyGenFunc, WithHooks,
\* WithMetrics, WithCompression, WithEvictionType
Set(config, field, value) == [config EXCEPT ![field] = value]

-----------------------------------------------------------------------------
(* New.  How it ends is "ok", "error" or "panic".                          *)

Failed(ends) == [ends |-> ends]

\* The strategies are chosen by NewStrategy, whose default is LRU; LRU there
\* insists on a positive capacity, and FIFO makes a slice of that capacity
createMemoryStore(config) ==
  IF config.eviction \notin {"", "lru"}
    THEN IF \/ config.eviction \notin {"lfu", "fifo"} /\ config.maxEntries <= 0
            \/ config.eviction = "fifo" /\ config.maxEntries < 0
         THEN Failed("panic")
         ELSE [ends |-> "ok", kind |-> "strategy", janitor |-> config.cleanup > 0,
               policy |-> IF config.eviction \in {"lfu", "fifo"} THEN config.eviction ELSE "lru"]
    ELSE IF config.maxEntries <= 0 THEN Failed("error")
         ELSE [ends |-> "ok", kind |-> "memory", janitor |-> config.cleanup > 0, policy |-> "lru"]

\* up: the servers that answer a ping
createRedisStore(config, up) ==
  IF config.redis = None THEN Failed("error")
  ELSE IF config.redis.client = None /\ config.redis.addr \notin up THEN Failed("error")
  ELSE [ends |-> "ok", kind |-> "redis", defaultTTL |-> config.defaultTTL,
        prefix |-> IF config.redis.prefix = "" THEN "obcache:" ELSE config.redis.prefix]

\* a nil compression configuration is the default one, which is off
initializeCompression(config) ==
  LET compression == IF config.compression = None THEN DefaultCompression
                                                  ELSE config.compression
  IN [config |-> compression, ok |-> Supported(compression)]

\* The labels of the configuration may replace cache_name; with an interval
\* there is a reporter
initializeMetrics(config) ==
  LET m == config.metrics
      named == "cache_name" :> IF m.name = "" THEN "default" ELSE m.name
      off == [exporter |-> None, reporting |-> FALSE]
  IN IF m = None THEN off
     ELSE IF ~m.enabled \/ m.exporter = None THEN off
     ELSE [exporter |-> m.exporter, labels |-> m.labels @@ named, reporting |-> m.interval > 0]

\* The store comes first: when compression is refused it stays behind, and its
\* cleanup goroutine with it
New(config, up) ==
  LET store == CASE config.store = "memory" -> createMemoryStore(config)
                 [] config.store = "redis" -> createRedisStore(config, up)
                 [] OTHER -> Failed("error")
      compression == initializeCompression(config)
  IN IF store.ends # "ok" THEN store
     ELSE IF ~compression.ok THEN Failed("error")
     ELSE [ends |-> "ok", store |-> store, defaultTTL |-> config.defaultTTL,
           compression |-> compression.config,
           compressor |-> NewCompressor(compression.config),
           metrics |-> initializeMetrics(config), keyFunc |-> config.keyFunc,
           hooks |-> config.hooks]

\* getKeyGenFunc
getKeyGenFunc(cache) == IF cache.keyFunc = None THEN "default" ELSE cache.keyFunc
=============================================================================
