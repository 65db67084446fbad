--------------------------- MODULE MCMemoizedCall ---------------------------
(* Functions, configurations and options of MemoizedCall for TLC.          *)
EXTENDS MemoizedKeys, Json

A == Str(<<"a">>)
B == Str(<<"b">>)
IntOf(n) == Num("int", n)
User == Ptr("*User", 1, Struct("User", <<Field("Name", TRUE, A), Field("id", FALSE, IntOf(7))>>))
Record == Map("map[string]any", <<<<A, IntOf(1)>>>>)
Long == Str(<<"a", "b", "a", "b", "a", "b", "a", "b", "a", "b", "a", "b">>)

Func(name, in, out, does) ==
  [name |-> name, kind |-> "func", in |-> in, out |-> out, variadic |-> FALSE,
   inputs |-> DOMAIN does, does |-> does]

\* a function of one string
OfString(name, out, ofA, ofB) ==
  Func(name, <<"string">>, out,
       [x \in {<<A>>, <<B>>} |-> IF x = <<A>> THEN ofA ELSE ofB])

Ctx(id) == [kind |-> "ctx", id |-> id]
Sum == Func("sum", <<"[]int">>, <<"int">>,
            <<Slice("[]int", <<IntOf(1)>>)>> :> Returns(<<IntOf(1)>>))

Clock(n) == Struct("Time", <<Field("wall", FALSE, IntOf(n))>>)

\* an error that is a number; text that is not UTF-8
Syscall == OfString("syscall", <<"int", "Errno">>, Returns(<<IntOf(1), Errno(0)>>),
                    Returns(<<IntOf(0), Errno(2)>>))
Raw == OfString("raw", <<"string">>, Returns(<<Str(<<"a", BadByte>>)>>), Returns(<<A>>))

\* func(...any) int, the number of its arguments
CountAll ==
  LET two == <<Slice("[]any", <<A, B>>)>>
      one == <<Slice("[]any", two)>>
  IN [Func("countAll", <<"[]any">>, <<"int">>,
           two :> Returns(<<IntOf(2)>>) @@ one :> Returns(<<IntOf(1)>>))
        EXCEPT !.variadic = TRUE, !.inputs = {two}]

MCFunctions ==
  {OfString("count", <<"int">>, Returns(<<IntOf(1)>>), Returns(<<IntOf(2)>>)),
   OfString("text", <<"string">>, Returns(<<Long>>), Panicked),
   OfString("load", <<"*User", "error">>, Returns(<<User, Nil>>),
            Returns(<<NilPtr("*User"), Err(1)>>)),
   OfString("read", <<"string", "error">>, Returns(<<B, Nil>>), Returns(<<A, Err(1)>>)),
   OfString("lookup", <<"any">>, Returns(<<IntOf(1)>>), Returns(<<Nil>>)),
   OfString("fetch", <<"map[string]any", "error">>, Returns(<<Record, Nil>>),
            Returns(<<NilMap("map[string]any"), Err(1)>>)),
   OfString("stat", <<"float64", "bool", "error">>,
            Returns(<<Num("float64", 1), Bool(TRUE), Nil>>),
            Returns(<<Num("float64", 2), Bool(FALSE), Err(1)>>)),
   OfString("open", <<"chan">>, Returns(<<Chan(1)>>), Returns(<<Chan(2)>>)),
   OfString("check", <<"error">>, Returns(<<Nil>>), Returns(<<Err(1)>>)),
   OfString("divmod", <<"int", "int">>, Returns(<<IntOf(1), IntOf(2)>>),
            Returns(<<IntOf(3), IntOf(4)>>)),
   Func("notify", <<>>, <<>>, <<>> :> Returns(<<>>)),
   Func("greet", <<"context.Context", "string">>, <<"string">>,
        [x \in {<<Ctx(1), A>>, <<Ctx(2), A>>, <<Nil, A>>} |->
           Returns(<<IF x[1] = Ctx(1) THEN A ELSE B>>)]),
   OfString("parse", <<"int", "*ParseError">>, Returns(<<IntOf(1), NilPtr("*ParseError")>>),
            Returns(<<IntOf(0), ParseError(1, A)>>)),
   OfString("dial", <<"bool", "net.Error">>, Returns(<<Bool(TRUE), Nil>>),
            Returns(<<Bool(FALSE), Errno(2)>>)),
   Syscall, Raw,
   OfString("clock", <<"Time">>, Returns(<<Clock(1)>>), Returns(<<Clock(2)>>)),
   [Sum EXCEPT !.variadic = TRUE], CountAll,
   [Sum EXCEPT !.name = "value", !.kind = "struct"]}

\* what has keys of every form, two of a kind where they should, or should not, differ
Point(at, x) == Ptr("*Point", at, Struct("Point", <<Field("X", TRUE, x)>>))
Values ==
  {Nil, A, B, IntOf(1), Num("uint", 1), Num("float64", 1), Bool(TRUE), Bool(FALSE), Chan(1),
   NilPtr("*Point"), Point(1, IntOf(1)), Point(2, IntOf(1)), Point(1, A),
   Ptr("*any", 4, Nil),
   NilSlice("[]string"), Slice("[]string", <<>>), Slice("[]string", <<A, B>>),
   Slice("[]string", <<B, A>>), Slice("[]string", <<Str(<<"a", ",", "s:", "b">>)>>),
   Slice("[]string", <<A, A, B>>), Slice("[]string", <<A, B, B>>),
   Array("[2]int", <<IntOf(1), IntOf(1)>>),
   NilMap("map[string]int"), Map("map[string]int", <<>>),
   Map("map[string]int", <<<<A, IntOf(1)>>>>),
   Map("map[string]int", <<<<A, IntOf(1)>>, <<B, IntOf(2)>>>>),
   Map("map[string]int", <<<<B, IntOf(2)>>, <<A, IntOf(1)>>>>),
   Map("map[string]int", <<<<A, IntOf(2)>>, <<B, IntOf(1)>>>>),
   Map("map[string]int", <<<<A, IntOf(1)>>, <<B, IntOf(2)>>, <<Long, IntOf(3)>>>>),
   Clock(1), Clock(2),
   Struct("Empty", <<>>), Struct("Pair", <<Field("A", TRUE, A), Field("B", TRUE, Long)>>),
   Struct("Three", <<Field("A", TRUE, A), Field("B", TRUE, B), Field("C", TRUE, B)>>)}
Describe == Func("describe", <<"any">>, <<"string">>,
                 [x \in {<<v>> : v \in Values} |-> Returns(<<A>>)])
Texts == {A, Str(<<"a", "|", "1:", "s:", "b">>), B, Str(<<"b", "|", "1:", "s:", "a">>)}
Concat == Func("concat", <<"string", "string">>, <<"string">>,
               [x \in Texts \X Texts |-> Returns(<<Str(x[1].s \o x[2].s)>>)])

-----------------------------------------------------------------------------

Compressed(config, algorithm, level) ==
  Set(config, "compression",
      WithMinSize(WithLevel(WithAlgorithm(WithEnabled(DefaultCompression, TRUE), algorithm),
                            level), 4))
Redis == NewRedisConfigWithClient("client")

Configs ==
  {Set(NewSimpleConfig(10, 60), "keyFunc", "simple"),
   Set(Set(NewDefaultConfig, "eviction", "lfu"), "defaultTTL", 0),
   Redis, NewRedisConfig("up"),
   Compressed(NewDefaultConfig, "gzip", -1), Compressed(NewDefaultConfig, "deflate", 12),
   Compressed(NewDefaultConfig, "none", 0), Compressed(Redis, "gzip", 9)}
Refused ==
  {NewSimpleConfig(0, 60), NewRedisConfig("down"), Set(NewDefaultConfig, "store", "disk"),
   Set(NewDefaultConfig, "store", "redis"), Compressed(NewDefaultConfig, "lz4", 1),
   Set(Set(NewDefaultConfig, "eviction", "arc"), "maxEntries", 0)}
Measured ==
  Set(NewDefaultConfig, "metrics", MetricsConfig("exporter", TRUE, "c", 30, "region" :> "eu"))

Options(config) ==
  LET o == WrapOptions(New(config, {"up"}))
  IN {o, WithErrorCaching(o), WithErrorTTL(WithTTL(o, 0), 1), WithoutCache(o)}

Wrapped(config, f, o) == [fn |-> f, opts |-> o]
Scenario(config, wrappers, n) == [config |-> config, wrappers |-> wrappers, calls |-> n]

OneFunction ==
  {Scenario(c, {Wrapped(c, f, o) : o \in os}, 3) :
     <<c, f, os>> \in UNION {{c} \X MCFunctions \X {{o} : o \in Options(c)} : c \in Configs}}
\* several functions of one cache
Shared ==
  LET some == {f \in MCFunctions : f.name \in {"count", "read", "lookup", "notify"}}
  IN {Scenario(c, {Wrapped(c, f, WithErrorCaching(WrapOptions(New(c, {"up"})))) : f \in some}, 2) :
        c \in Configs}
Keyed1 ==
  {Scenario(Measured, {Wrapped(Measured, f, WithKeyFunc(WrapOptions(New(Measured, {})), k))}, 2) :
     f \in {Describe, Concat}, k \in {"default", "simple"}}
Off == {Scenario(c, {[fn |-> Sum, opts |-> None]}, 1) : c \in Refused}

MCScenarios == OneFunction \union Shared \union Keyed1 \union Off
=============================================================================
