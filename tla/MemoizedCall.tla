---------------------------- MODULE MemoizedCall ----------------------------
(***************************************************************************)
(* One caller of functions wrapped over one cache: the options of Wrap,    *)
(* the key of a call, the conversion of what was computed or found to the  *)
(* types of the function, and the form in which the store keeps it.  What  *)
(* WrappedCall takes to be one value per key is here a Go value that goes  *)
(* through reflection and JSON; what happens between concurrent callers is *)
(* there.  A function is a record of its types and of what it does with    *)
(* each argument list it is called with.                                   *)
(***************************************************************************)
EXTENDS CacheConfig

CONSTANTS
  KeyGenFunc(_, _),  \* the key that the function so named makes of arguments
  SameArgs(_, _),  \* whether a caller would tell two lists of arguments apart
  Scenarios,         \* configurations with the wrappers over them
  Up                 \* the Redis servers that answer

VARIABLES
  scenario,
  slots,          \* what the store has, by key
  stuck,          \* keys whose call in the singleflight group never completes
  asked,          \* history: wrapper, arguments and key of each call
  last,           \* history: the last call and how it ended
  calls           \* bounded by the scenario

vars == <<scenario, slots, stuck, asked, last, calls>>

Cache == New(scenario.config, Up)
JsonImages == Cache.store.kind = "redis" \/ Cache.compression.enabled

-----------------------------------------------------------------------------
(* Options.                                                                *)

WrapOptions(cache) ==
  [ttl |-> cache.defaultTTL, keyFunc |-> getKeyGenFunc(cache), disable |-> FALSE,
   cacheErrors |-> FALSE, errorTTL |-> 0]

WithTTL(opts, ttl) == [opts EXCEPT !.ttl = ttl]
WithKeyFunc(opts, f) == [opts EXCEPT !.keyFunc = f]
WithoutCache(opts) == [opts EXCEPT !.disable = TRUE]
WithErrorCaching(opts) == [opts EXCEPT !.cacheErrors = TRUE]
WithErrorTTL(opts, ttl) == [opts EXCEPT !.cacheErrors = TRUE, !.errorTTL = ttl]

\* ValidateWrappableFunction, which Wrap does not ask
Wrappable(fn) ==
  /\ ~fn.variadic
  /\ fn.out # <<>>
  /\ Len(fn.out) > 1 => Implements(Last(fn.out), "error")

hasErrorReturn(fn) == Len(fn.out) >= 2 /\ Implements(Last(fn.out), "error")

\* The type of the error may be another than error itself, and a nil error is
\* its zero; where it cannot be nil, IsNil panics
NilError(fn) == Zero(Last(fn.out))
IsNilPanics(fn) == hasErrorReturn(fn) /\ ~Nilable(Last(fn.out))

-----------------------------------------------------------------------------
(* Results.  A call returns results or panics.                             *)

Returns(results) == [ends |-> "returned", results |-> results]
Panicked == [ends |-> "panicked", results |-> <<>>]

\* fnValue.Call, to which the arguments after the dots of a variadic function are
\* one argument, a slice: it goes ahead only where this can be an element too
Run(fn, args) ==
  IF ~fn.variadic THEN fn.does[args]
  ELSE IF Last(fn.in) = "[]any" THEN fn.does[Front(args) \o <<Slice("[]any", <<Last(args)>>)>>]
  ELSE Panicked

\* What MakeFunc makes of the results: each must be assignable to its type; a
\* zero of the type is
Returned(fn, results, zeros) ==
  IF /\ Len(results) = Len(fn.out)
     /\ \A i \in DOMAIN results \ zeros : Assignable(results[i], fn.out[i])
    THEN Returns(results)
    ELSE Panicked

createErrorReturn(fn, err) ==
  LET n == Len(fn.out)
  IN IF n = 0 THEN Panicked
     ELSE Returned(fn, [i \in 1..n |-> IF i = n THEN err ELSE Zero(fn.out[i])], 1..(n - 1))

\* convertComputedValue: one value is itself, any other number a []any
convertComputedValue(value, fn) ==
  LET n == Len(fn.out) - (IF hasErrorReturn(fn) THEN 1 ELSE 0)
      several == value.kind = "slice" /\ value.type = "[]any"
      tail == IF hasErrorReturn(fn) THEN <<NilError(fn)>> ELSE <<>>
  IN IF n = 1 THEN Returned(fn, <<value>> \o tail, {2})
     ELSE IF ~several \/ Len(value.elems) < n \/ (tail = <<>> /\ Len(value.elems) > n)
            THEN Panicked
     ELSE Returned(fn, SubSeq(value.elems, 1, n) \o tail, {n + 1})

cachedError(err) == Struct("cachedError", <<Field("Err", TRUE, err)>>)
isCachedError(value) == value.kind = "struct" /\ value.type = "cachedError"

\* takes a cached error for a value
Bug_convertCachedValue(value, fn) == convertComputedValue(value, fn)

convertCachedValue(value, fn) ==
  IF isCachedError(value) THEN createErrorReturn(fn, value.fields[1].v)
                          ELSE convertComputedValue(value, fn)

\* processResults, where IsNil does not panic: an error, or what is to be kept
processResults(results, fn) ==
  LET n == Len(results)
      failed == hasErrorReturn(fn) /\ results[n] # NilError(fn)
      kept == IF hasErrorReturn(fn) THEN SubSeq(results, 1, n - 1) ELSE results
  IN [err |-> IF failed THEN results[n] ELSE Nil,
      value |-> IF failed THEN Nil ELSE IF Len(kept) = 1 THEN kept[1] ELSE Slice("[]any", kept)]

\* What a cache that keeps errors is given of the results
ToKeep(results, fn) ==
  LET done == processResults(results, fn)
  IN IF done.err = Nil THEN done.value ELSE cachedError(done.err)

-----------------------------------------------------------------------------
(* Entries.                                                                *)

\* A rough size in bytes of a value
approximateSize(v) ==
  CASE v.kind = "nil" -> 0
    [] v.kind = "string" -> Len(v.s)
    [] v.kind \in {"int", "uint", "float64"} -> 8
    [] v.kind = "bool" -> 1
    [] v.kind \in {"slice", "array"} -> 8 * Len(v.elems)
    [] v.kind = "map" -> 16 * Len(v.pairs)
    [] v.kind = "struct" -> 8 * Len(v.fields)
    [] OTHER -> 64

Entry(value, ttl) ==
  [value |-> value, ttl |-> ttl, compressed |-> FALSE, original |-> 0, size |-> 0]

createCompressedEntry(value, ttl) ==
  LET c == Cache.compression
      s == SerializeAndCompress(value, Cache.compressor, c.minSize)
      plain == SerializeAndCompress(value, NoOpCompressor, 0)
  IN IF ~c.enabled THEN [ok |-> TRUE, entry |-> Entry(value, ttl)]
     ELSE IF ~s.ok THEN [ok |-> FALSE]
     ELSE IF ~s.compressed THEN [ok |-> TRUE, entry |-> Entry(Bytes(s.data), ttl)]
     ELSE [ok |-> TRUE,
           entry |-> [Entry(Bytes(s.data), ttl) EXCEPT
                        !.compressed = TRUE, !.size = s.data.size,
                        !.original = IF plain.ok THEN plain.data.size
                                                 ELSE approximateSize(value)]]

\* What the store will answer for an entry: Redis keeps its JSON, and of that
\* the value and the times
Stored(entry) ==
  IF Cache.store.kind = "redis" THEN Entry(Image(entry.value), entry.ttl) ELSE entry

\* Cache.Set, whose error the wrapper passes over
Kept(key, value, ttl) ==
  LET made == createCompressedEntry(value, IF ttl <= 0 THEN Cache.defaultTTL ELSE ttl)
  IN IF ~made.ok THEN slots
     ELSE IF Cache.store.kind = "redis" /\ ~Serialisable(made.entry.value) THEN slots
     ELSE [k \in DOMAIN slots \union {key} |->
             IF k = key THEN Stored(made.entry) ELSE slots[k]]

\* a value that is not bytes was not compressed
Bug_decompressValue(entry) ==
  IF Cache.compression.enabled /\ entry.value.kind = "bytes"
    THEN DecompressAndDeserialize(entry.value.data, entry.compressed, Cache.compressor)
    ELSE [ok |-> TRUE, value |-> entry.value]

decompressValue(entry) ==
  IF ~Cache.compression.enabled THEN [ok |-> TRUE, value |-> entry.value]
  ELSE IF entry.value.kind # "bytes" THEN [ok |-> FALSE]
  ELSE DecompressAndDeserialize(entry.value.data, entry.compressed, Cache.compressor)

\* Cache.Get
Hit(key) == key \in DOMAIN slots /\ decompressValue(slots[key]).ok

-----------------------------------------------------------------------------
(* What there is to call, and what Go says of it.                          *)

\* Wrap panics for what is not a function, and needs a cache
Usable(s) == {w \in s.wrappers : New(s.config, Up).ends = "ok" /\ w.fn.kind = "func"}

ASSUME ScenarioTypes ==
  \A s \in Scenarios :
    /\ s.calls \in Nat /\ s.config.defaultTTL \in Nat
    /\ \A w \in Usable(s) : w.opts.ttl \in Int /\ w.opts.errorTTL \in Int

\* A value of a type; nobody else has values of the type cachedError
HasType(v, type) ==
  IF v = Nil THEN type \in Interfaces
             ELSE Assignable(v, type) /\ ~isCachedError(v)

\* A function panics, or returns results of its types.
ASSUME FunctionTypes ==
  \A s \in Scenarios : \A w \in Usable(s) :
    /\ w.fn.out \in Seq(Range(w.fn.out))
    /\ \A args \in w.fn.inputs :
         LET r == Run(w.fn, args)
         IN \/ r = Panicked
            \/ /\ r = Returns(r.results) /\ r.results \in Seq(Range(r.results))
               /\ Len(r.results) = Len(w.fn.out)
               /\ \A i \in DOMAIN w.fn.out : HasType(r.results[i], w.fn.out[i])

\* A name is that of one function, which answers the same to the same arguments.
ASSUME Deterministic ==
  \A s \in Scenarios : \A v, w \in Usable(s) :
    v.fn.name = w.fn.name =>
      /\ v.fn = w.fn
      /\ \A a, b \in w.fn.inputs : SameArgs(a, b) => Run(w.fn, a) = Run(w.fn, b)

\* encoding/json does as it says with all that is handed to it: with each result,
\* with what is kept of several or of an error, and with the bytes these become.
ASSUME JsonAssumption ==
  \A s \in Scenarios : \A w \in Usable(s) : \A args \in w.fn.inputs :
    LET cache == New(s.config, Up)
        r == Run(w.fn, args)
        v == ToKeep(r.results, w.fn)
        bytes == SerializeAndCompress(v, cache.compressor, cache.compression.minSize)
    IN r.ends = "returned" =>
         /\ \A i \in DOMAIN r.results : JsonContract(r.results[i])
         /\ JsonContract(v)
         /\ bytes.ok => JsonContract(Bytes(bytes.data))

-----------------------------------------------------------------------------
(* Calls.                                                                  *)

\* extractContextAndArgs: a context that is nil panics, as it is not a Context
HasContext(fn) == fn.in # <<>> /\ fn.in[1] = "context.Context"
keyArgs(fn, args) == IF HasContext(fn) THEN Tail(args) ELSE args

KeyOf(w, args) ==
  IF HasContext(w.fn) /\ args[1] = Nil THEN <<Panics>>
  ELSE KeyGenFunc(w.opts.keyFunc, keyArgs(w.fn, args))

\* w.fn was called with args, and the call ended as `how' says
Ended(w, args, how) ==
  /\ asked' = asked \union {[w |-> w, args |-> args, key |-> KeyOf(w, args)]}
  /\ last' = [w |-> w, args |-> args, how |-> how]
  /\ calls' = calls + 1
  /\ UNCHANGED scenario

\* Neither the key nor the cache matters, unless making the key panics
KeylessCall(w, args) ==
  /\ KeyPanics(KeyOf(w, args)) \/ w.opts.disable
  /\ Ended(w, args, IF KeyPanics(KeyOf(w, args)) THEN Panicked ELSE Run(w.fn, args))
  /\ UNCHANGED <<slots, stuck>>

HitCall(w, args) ==
  LET key == KeyOf(w, args) IN
  /\ ~KeyPanics(key) /\ ~w.opts.disable /\ Hit(key)
  /\ Ended(w, args, convertCachedValue(decompressValue(slots[key]).value, w.fn))
  /\ UNCHANGED <<slots, stuck>>

\* joins a call that will never complete
HungCall(w, args) ==
  LET key == KeyOf(w, args) IN
  /\ ~KeyPanics(key) /\ ~w.opts.disable /\ ~Hit(key) /\ key \in stuck
  /\ Ended(w, args, [ends |-> "hangs", results |-> <<>>])
  /\ UNCHANGED <<slots, stuck>>

\* executeFunctionWithSingleflight, alone
ComputedCall(w, args) ==
  LET key == KeyOf(w, args)
      ran == Run(w.fn, args)
      done == processResults(ran.results, w.fn)
      errorTTL == IF w.opts.errorTTL = 0 THEN w.opts.ttl ELSE w.opts.errorTTL
  IN
  /\ ~KeyPanics(key) /\ ~w.opts.disable /\ ~Hit(key) /\ key \notin stuck
  /\ \/ /\ ran.ends = "panicked" \/ IsNilPanics(w.fn)
        /\ stuck' = stuck \union {key}
        /\ Ended(w, args, Panicked) /\ UNCHANGED slots
     \/ /\ ran.ends = "returned" /\ ~IsNilPanics(w.fn) /\ done.err # Nil
        /\ slots' = IF w.opts.cacheErrors THEN Kept(key, cachedError(done.err), errorTTL)
                                          ELSE slots
        /\ Ended(w, args, createErrorReturn(w.fn, done.err)) /\ UNCHANGED stuck
     \/ /\ ran.ends = "returned" /\ ~IsNilPanics(w.fn) /\ done.err = Nil
        /\ slots' = Kept(key, done.value, w.opts.ttl)
        /\ Ended(w, args, convertComputedValue(done.value, w.fn)) /\ UNCHANGED stuck

\* Expiry, eviction, Delete
Lose(key) ==
  /\ slots' = [k \in DOMAIN slots \ {key} |-> slots[k]]
  /\ UNCHANGED <<scenario, stuck, asked, last, calls>>

NoCallYet == [ends |-> "none", results |-> <<>>]

Init ==
  /\ scenario \in Scenarios
  /\ slots = [k \in {} |-> Nil] /\ stuck = {}
  /\ asked = {} /\ last = [how |-> NoCallYet]
  /\ calls = 0

Calls(Call(_, _)) ==
  \E w \in Usable(scenario) :
    calls < scenario.calls /\ \E args \in w.fn.inputs : Call(w, args)

Next ==
  \/ Calls(KeylessCall) \/ Calls(HitCall) \/ Calls(HungCall) \/ Calls(ComputedCall)
  \/ \E key \in DOMAIN slots : Lose(key)

Spec == Init /\ [][Next]_vars

-----------------------------------------------------------------------------
(* Properties.                                                             *)

Called == last.how.ends # "none"

TypeOK ==
  /\ scenario \in Scenarios /\ calls \in 0..scenario.calls
  /\ last.how.ends \in {"none", "returned", "panicked", "hangs"}
  /\ \A key \in DOMAIN slots : /\ ~KeyPanics(key) /\ slots[key].ttl \in Nat
                              /\ slots[key].compressed => slots[key].size < slots[key].original
  /\ stuck \subseteq {x.key : x \in asked}

\* No call of another function or with other arguments has met the key of the
\* last call.
Alone ==
  \A x \in asked : x.key = KeyOf(last.w, last.args) =>
    x.w.fn.name = last.w.fn.name /\ SameArgs(x.args, last.args)

\* What the function itself answers, where its error is nil; beside an error
\* the other results are zero
Answer ==
  LET fn == last.w.fn  r == fn.does[last.args].results
  IN IF hasErrorReturn(fn) /\ Last(r) # NilError(fn) /\ ~last.w.opts.disable
       THEN [i \in DOMAIN r |-> IF i = Len(r) THEN r[i] ELSE Zero(fn.out[i])]
       ELSE r

\* The last call was of a function that ValidateWrappableFunction accepts, over a
\* store in memory without compression, and the function itself returns.
Accepted ==
  /\ Called /\ ~JsonImages /\ Wrappable(last.w.fn)
  /\ ~KeyPanics(KeyOf(last.w, last.args)) /\ last.w.fn.does[last.args].ends = "returned"

\* The results whose type is an interface, but for the error, are not nil
NoNilInterface ==
  LET fn == last.w.fn  r == fn.does[last.args].results
  IN \A i \in DOMAIN r : i < Len(r) \/ ~hasErrorReturn(fn) => r[i] # Nil

\* "Use exactly like the original function - caching is transparent" (doc.go):
\* so it is over a store in memory without compression, for a function that
\* ValidateWrappableFunction accepts and that returns, where keys do not
\* collide, the type of the error can be nil and no other result is a nil
\* interface: whether computed, found, or found as a cached error, the caller
\* gets the function's own answer and no panic of reflection.  (For an error type
\* that cannot be nil, a number or a struct, which ValidateWrappableFunction
\* accepts as well, IsNil panics whenever the function computes, and the next
\* caller with the key waits for ever.)
Transparent ==
  Accepted /\ Alone /\ ~IsNilPanics(last.w.fn) /\ NoNilInterface => last.how = Returns(Answer)

\* Over Redis, or with compression, values come back as their JSON does.  For
\* results without an interface in their types a call may panic, yet it never
\* returns anything but the function's answer, not even when errors are cached
\* and JSON makes values of them.  Left out are strings that are not UTF-8,
\* which are found with other bytes in them than the function returned, and
\* variadic functions, which are called with their slice as one argument.
ExactOrPanic ==
  (/\ Called /\ Alone /\ last.how.ends = "returned" /\ ~last.w.fn.variadic
   /\ Range(last.w.fn.out) \intersect {"any", "map[string]any", "[]any"} = {}
   /\ \A r \in Range(last.w.fn.does[last.args].results) : TypeOf(r) = "string" => ValidUTF8(r))
  => last.how.results = Answer
=============================================================================
