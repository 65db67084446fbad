----------------------------- MODULE WrappedCall -----------------------------
(***************************************************************************)
(* A function wrapped by obcache.Wrap: executeWrappedFunction and          *)
(* executeFunctionWithSingleflight over the Group of Singleflight and over *)
(* one cache slot per key.  Each element of Callers is one invocation of   *)
(* the wrapped function.  What the function reads is a source whose        *)
(* version grows; the cache may be invalidated, and its entries expire or  *)
(* are evicted, at any time.  The backend's Set is taken to succeed, which *)
(* the memory store without compression guarantees.                        *)
(***************************************************************************)
EXTENDS Integers, FiniteSets, FiniteSetsExt

CONSTANTS
  Callers, Keys,
  MaxVersion,     \* bound on the versions of the source
  NoCall, NoOutcome, NoKey, Empty, CtxErr,
  NoEntry,        \* an empty cache slot
  MayErr,         \* whether the function may return an error
  CacheErrors,    \* invocations of wrappers that have WrapOptions.CacheErrors
  MayInvalidate,  \* whether the source changes and entries disappear
  MayPanic        \* whether the function may panic

\* a value is known by the version of the source it was computed from
Outcomes == [ver : 0..MaxVersion, err : IF MayErr THEN BOOLEAN ELSE {FALSE}]

ASSUME VersionBound == MaxVersion \in Nat
ASSUME NoEntryDistinct == NoEntry \notin Outcomes
ASSUME CacheErrorsType == CacheErrors \subseteq Callers
ASSUME CallersFinite == IsFiniteSet(Callers)
ASSUME FlagsBoolean == {MayErr, MayInvalidate, MayPanic} \subseteq BOOLEAN

VARIABLES
  m, pc, call, key, run, res, dups, chans, inbox, cancelled, ret, forgotten,
              \* the Group c.sf, see Singleflight
  cached,     \* the cache's answer for a key
  src,        \* version of the source
  began,      \* history: version of the source when an execution began
  wpc,        \* where each invocation of the wrapped function is
  arg,        \* the key it was made with
  wret,       \* what it returned
  inFlight,   \* stats.inFlight
  lost,       \* history: invocations inside at the last Stats.Reset
  floor,      \* history: no version below this may be seen any more
  due         \* history: floor of the key when the invocation began

sfvars == <<m, pc, call, key, run, res, dups, chans, inbox, cancelled, ret, forgotten>>
wvars == <<cached, src, began, wpc, arg, wret, inFlight, lost, floor, due>>
vars == <<sfvars, wvars>>

SF == INSTANCE Singleflight WITH MayForget <- FALSE

ASSUME MarkersDistinct ==
  /\ NoCall \notin Callers /\ NoKey \notin Keys /\ NoOutcome \notin Outcomes
  /\ Empty \notin SF!Result /\ CtxErr \notin SF!Result /\ CtxErr # Empty

TypeOK ==
  /\ SF!TypeOK
  /\ cached \in [Keys -> Outcomes \union {NoEntry}]
  /\ src \in 0..MaxVersion
  /\ began \in [Callers -> 0..MaxVersion]
  /\ wpc \in [Callers -> {"idle", "missed", "inflight", "done", "panicked"}]
  /\ arg \in [Callers -> Keys \union {NoKey}]
  /\ wret \in [Callers -> Outcomes \union {NoOutcome}]
  /\ inFlight \in Int /\ lost \in Nat
  /\ floor \in [Keys -> 0..MaxVersion]
  /\ due \in [Callers -> 0..MaxVersion]

Init ==
  /\ SF!Init
  /\ cached = [k \in Keys |-> NoEntry]
  /\ src = 0
  /\ began = [p \in Callers |-> 0]
  /\ wpc = [p \in Callers |-> "idle"]
  /\ arg = [p \in Callers |-> NoKey]
  /\ wret = [p \in Callers |-> NoOutcome]
  /\ inFlight = 0 /\ lost = 0
  /\ floor = [k \in Keys |-> 0]
  /\ due = [p \in Callers |-> 0]

Inside(k) == {p \in Callers : wpc[p] = "inflight" /\ arg[p] = k}

-----------------------------------------------------------------------------
\* answers from the cache whatever Get says of `found`
Bug_LookupBlind(p, k) ==
  /\ wpc[p] = "idle"
  /\ arg' = [arg EXCEPT ![p] = k]
  /\ due' = [due EXCEPT ![p] = floor[k]]
  /\ wpc' = [wpc EXCEPT ![p] = "done"]
  /\ wret' = [wret EXCEPT ![p] = cached[k]]
  /\ UNCHANGED <<sfvars, cached, src, began, inFlight, lost, floor>>

\* cache.Get decides between answering from the cache and calling
Lookup(p, k) ==
  /\ wpc[p] = "idle"
  /\ arg' = [arg EXCEPT ![p] = k]
  /\ due' = [due EXCEPT ![p] = floor[k]]
  /\ IF cached[k] # NoEntry
       THEN /\ wpc' = [wpc EXCEPT ![p] = "done"]
            /\ wret' = [wret EXCEPT ![p] = cached[k]]
       ELSE /\ wpc' = [wpc EXCEPT ![p] = "missed"]
            /\ UNCHANGED wret
  /\ UNCHANGED <<sfvars, cached, src, began, inFlight, lost, floor>>

\* incInFlight, then the opening of sf.Do; the cache is not consulted again
EnterFlight(p) ==
  /\ wpc[p] = "missed"
  /\ SF!Do(p, arg[p])
  /\ wpc' = [wpc EXCEPT ![p] = "inflight"]
  /\ began' = [began EXCEPT ![p] = src]
  /\ inFlight' = inFlight + 1
  /\ UNCHANGED <<cached, src, arg, wret, lost, floor, due>>

\* The wrapped function returns what it read at some time since it began
Compute(c) ==
  /\ \E v \in Outcomes : v.ver \in began[c]..src /\ SF!FnReturn(c, v)
  /\ UNCHANGED wvars

\* The steps of the Group that concern nothing else
GroupStep(p) ==
  /\ SF!FnPanic(p) \/ SF!Complete(p) \/ SF!WaitDone(p) \/ SF!LeaderReturn(p)
  /\ UNCHANGED wvars

\* stores an error whatever the wrapper's options say
Bug_StoreErrors(p) ==
  cached' = IF ret[p].shared THEN cached ELSE [cached EXCEPT ![arg[p]] = ret[p].val]

\* cache.Set, only by a caller whose answer was not shared: neither the
\* followers nor the leader of a shared call store it
Store(p) ==
  cached' = IF ret[p].shared \/ (ret[p].val.err /\ p \notin CacheErrors)
              THEN cached ELSE [cached EXCEPT ![arg[p]] = ret[p].val]

\* sf.Do has returned: cache.Set, the deferred decInFlight, return
Finish(p) ==
  /\ wpc[p] = "inflight" /\ pc[p] = "returned"
  /\ Store(p)
  /\ wret' = [wret EXCEPT ![p] = ret[p].val]
  /\ wpc' = [wpc EXCEPT ![p] = "done"]
  /\ inFlight' = inFlight - 1
  /\ UNCHANGED <<sfvars, src, began, arg, lost, floor, due>>

\* decrements only on the ordinary way out
Bug_UnwindUncounted(p) ==
  /\ wpc[p] = "inflight" /\ pc[p] = "panicked"
  /\ wpc' = [wpc EXCEPT ![p] = "panicked"]
  /\ UNCHANGED <<sfvars, cached, src, began, arg, wret, inFlight, lost, floor, due>>

\* The panic passes through the deferred decInFlight
Unwind(p) ==
  /\ wpc[p] = "inflight" /\ pc[p] = "panicked"
  /\ wpc' = [wpc EXCEPT ![p] = "panicked"]
  /\ inFlight' = inFlight - 1
  /\ UNCHANGED <<sfvars, cached, src, began, arg, wret, lost, floor, due>>

-----------------------------------------------------------------------------
(* The environment.                                                        *)

Update ==
  /\ MayInvalidate /\ src < MaxVersion
  /\ src' = src + 1
  /\ UNCHANGED <<sfvars, cached, began, wpc, arg, wret, inFlight, lost, floor, due>>

\* cache.Delete(k): from now on only executions under way can bring back a
\* version older than the source's
Invalidate(k) ==
  /\ MayInvalidate
  /\ cached' = [cached EXCEPT ![k] = NoEntry]
  /\ floor' = [floor EXCEPT ![k] =
                 Min({src} \union {began[call[p]] : p \in Inside(k)})]
  /\ UNCHANGED <<sfvars, src, began, wpc, arg, wret, inFlight, lost, due>>

\* k's entry expires or is evicted
Lose(k) ==
  /\ MayInvalidate /\ cached[k] # NoEntry
  /\ cached' = [cached EXCEPT ![k] = NoEntry]
  /\ UNCHANGED <<sfvars, src, began, wpc, arg, wret, inFlight, lost, floor, due>>

\* Stats.Reset, the fields that matter here
Reset ==
  /\ inFlight' = 0
  /\ lost' = Cardinality({p \in Callers : wpc[p] = "inflight"})
  /\ UNCHANGED <<sfvars, cached, src, began, wpc, arg, wret, floor, due>>

Next ==
  \/ \E p \in Callers : \/ \E k \in Keys : Lookup(p, k)
                        \/ EnterFlight(p) \/ Compute(p) \/ GroupStep(p)
                        \/ Finish(p) \/ Unwind(p)
  \/ \E k \in Keys : Invalidate(k) \/ Lose(k)
  \/ Update
  \/ Reset

Spec == Init /\ [][Next]_vars

-----------------------------------------------------------------------------
\* Invalidation works although stores are late: once a key is deleted, an
\* invocation that begins afterwards is answered with a version no older than
\* the oldest execution that was under way at the deletion, whether the answer
\* comes from the cache, its own execution or one it joined.
FreshAfterDelete ==
  \A p \in Callers : wret[p] \in Outcomes => wret[p].ver >= due[p]

\* The gauge Stats.inFlight, "the number of requests currently being processed",
\* on every way out of the wrapper, the panic's included: it falls short by
\* whoever was inside when Stats.Reset last zeroed it, for ever, and so is exact
\* when Reset found nobody inside.
InFlightShort == inFlight = Cardinality({p \in Callers : wpc[p] = "inflight"}) - lost

\* What the cache answers was computed by an execution nobody joined, and an
\* error only by one whose own wrapper has CacheErrors, although wrappers with
\* and without it share executions: an outcome several callers were given, the
\* leader among them, is never stored.
OnlyLoneAnswersCached ==
  \A k \in Keys : cached[k] # NoEntry =>
    \E c \in Callers : /\ run[c] = "finished" /\ key[c] = k /\ dups[c] = 0
                       /\ res[c] = cached[k]
                       /\ cached[k].err => c \in CacheErrors

\* The package's "Database query" then "Cache hit": once every invocation is
\* over and one of them returned a value, the value is in the cache.
AnsweredMeansCached ==
  (\A p \in Callers : wpc[p] \in {"idle", "done"}) =>
    \A p \in Callers : wpc[p] = "done" /\ ~wret[p].err => cached[arg[p]] # NoEntry
=============================================================================
