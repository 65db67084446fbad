------------------------------- MODULE KeyGen -------------------------------
(***************************************************************************)
(* Keys of argument lists, as sequences of tokens.  The limits of the code *)
(* (10 elements, 5 pairs, 10 fields, 64 bytes) are constants; a length is  *)
(* counted in tokens.  SHA-256 is taken to be injective.                   *)
(***************************************************************************)
EXTENDS GoValues, TLC

CONSTANTS MaxElems, MaxPairs, MaxFields, MaxKey

ASSUME Limits == MaxElems > 0 /\ MaxPairs > 0 /\ MaxFields > 0 /\ MaxKey > 0

noArgsKey == <<"no-args">>

Join(texts, sep) ==
  FlattenSeq([i \in DOMAIN texts |-> IF i = 1 THEN texts[i] ELSE <<sep>> \o texts[i]])

RECURSIVE argToKey(_)

\* IsNil panics on an array, nil or not
handleSliceOrArray(v) ==
  LET n == Len(v.elems) IN
  CASE v.kind = "array" -> <<Panics>>
    [] v.kind # "array" /\ v.isNil -> <<"slice:nil">>
    [] v.kind # "array" /\ ~v.isNil /\ n = 0 -> <<"slice:empty">>
    [] v.kind # "array" /\ n \in 1..MaxElems ->
         <<"slice:[">> \o Join([i \in 1..n |-> argToKey(v.elems[i])], ",") \o <<"]">>
    [] OTHER ->
         <<"slice:len", ToString(n), ":">> \o argToKey(v.elems[1]) \o <<"...">>
         \o argToKey(v.elems[n])

\* leaves the pairs in the order of the iteration
Bug_sorted(pairs) == pairs

\* The pairs by the text of their key, in an order of texts; pairs whose keys
\* have the same text stay as the iteration met them
sorted(pairs) ==
  LET order == SetToSeq({p[1] : p \in Range(pairs)})
  IN FlattenSeq([i \in DOMAIN order |-> SelectSeq(pairs, LAMBDA p : p[1] = order[i])])

handleMap(v) ==
  LET n == Len(v.pairs)
      texts == [i \in 1..n |-> <<argToKey(v.pairs[i][1]), argToKey(v.pairs[i][2])>>]
      ordered == sorted(texts)
  IN
  CASE v.isNil -> <<"map:nil">>
    [] ~v.isNil /\ n = 0 -> <<"map:empty">>
    [] n \in 1..MaxPairs ->
         <<"map:{">> \o Join([i \in 1..n |-> ordered[i][1] \o <<"=">> \o ordered[i][2]], ",")
         \o <<"}">>
    [] OTHER -> <<"map:len", ToString(n), ":type", v.type>>

\* Only the first fields, and of those the exported ones
handleStruct(v) ==
  LET fields == SelectSeq(SubSeq(v.fields, 1, IF Len(v.fields) < MaxFields THEN Len(v.fields)
                                              ELSE MaxFields), LAMBDA f : f.exported)
  IN IF v.fields = <<>> THEN <<"struct:empty">>
     ELSE <<"struct:", v.type, "{">>
          \o Join([i \in DOMAIN fields |-> <<fields[i].name, ":">> \o argToKey(fields[i].v)], ",")
          \o <<"}">>

\* numbers without their kind
Bug_scalar(arg) ==
  CASE arg.kind = "string" -> <<"s:">> \o arg.s
    [] arg.kind = "bool" -> <<"b:", ToString(arg.b)>>
    [] OTHER -> <<ToString(arg.n)>>

scalar(arg) ==
  CASE arg.kind = "string" -> <<"s:">> \o arg.s
    [] arg.kind = "int" -> <<"i:", ToString(arg.n)>>
    [] arg.kind = "uint" -> <<"u:", ToString(arg.n)>>
    [] arg.kind = "float64" -> <<"f:", ToString(arg.n)>>
    [] arg.kind = "bool" -> <<"b:", ToString(arg.b)>>

argToKey(arg) ==
  CASE arg.kind = "nil" -> <<"nil">>
    [] arg.kind \in {"string", "int", "uint", "float64", "bool"} -> scalar(arg)
    [] arg.kind = "ptr" ->
         IF IsNilPtr(arg) THEN <<"ptr:nil">> ELSE <<"ptr:">> \o argToKey(arg.to)
    [] arg.kind \in {"slice", "array"} -> handleSliceOrArray(arg)
    [] arg.kind = "map" -> handleMap(arg)
    [] arg.kind = "struct" -> handleStruct(arg)
    [] OTHER -> <<"chan:", ToString(arg.at)>>

DefaultKeyFunc(args) ==
  LET combined == Join([i \in DOMAIN args |-> <<ToString(i - 1), ":">> \o argToKey(args[i])], "|")
  IN IF args = <<>> THEN noArgsKey
     ELSE IF Len(combined) <= MaxKey THEN combined
     ELSE <<"sha256">> \o combined

\* fmt's %v: a pointer below the top is printed as an address
RECURSIVE printed(_, _)
printed(v, top) ==
  CASE v.kind = "nil" -> <<"<nil>">>
    [] v.kind = "string" -> v.s
    [] v.kind \in {"int", "uint", "float64"} -> <<ToString(v.n)>>
    [] v.kind = "bool" -> <<ToString(v.b)>>
    [] v.kind = "chan" -> <<ToString(v.at)>>
    [] v.kind = "ptr" ->
         IF IsNilPtr(v) THEN <<"<nil>">>
         ELSE IF top /\ v.to.kind \in {"struct", "map", "slice", "array"}
                THEN <<"&">> \o printed(v.to, FALSE)
         ELSE <<"0x", ToString(v.at)>>
    [] v.kind \in {"slice", "array"} ->
         <<"[">> \o Join([i \in DOMAIN v.elems |-> printed(v.elems[i], FALSE)], " ") \o <<"]">>
    [] v.kind = "map" ->
         LET pairs == sorted([i \in DOMAIN v.pairs |-> <<printed(v.pairs[i][1], FALSE),
                                                         printed(v.pairs[i][2], FALSE)>>])
         IN <<"map[">> \o Join([i \in DOMAIN pairs |-> pairs[i][1] \o <<":">> \o pairs[i][2]], " ")
            \o <<"]">>
    [] OTHER ->
         <<"{">> \o Join([i \in DOMAIN v.fields |-> printed(v.fields[i].v, FALSE)], " ") \o <<"}">>

SimpleKeyFunc(args) ==
  IF args = <<>> THEN noArgsKey
  ELSE Join([i \in DOMAIN args |-> printed(args[i], TRUE)], ":")

\* The functions by the names that a configuration has for them
NamedKeyFunc(name, args) == IF name = "simple" THEN SimpleKeyFunc(args) ELSE DefaultKeyFunc(args)

-----------------------------------------------------------------------------
\* Equality of arguments as a reader of the program sees it: whatever the order
\* of a map and the addresses of pointers
RECURSIVE Deep(_)
Deep(v) ==
  CASE v.kind = "ptr" -> <<"ptr", v.at = 0, Deep(v.to)>>
    [] v.kind \in {"slice", "array"} ->
         <<v.kind, v.isNil, [i \in DOMAIN v.elems |-> Deep(v.elems[i])]>>
    [] v.kind = "map" ->
         <<"map", v.isNil, {<<Deep(p[1]), Deep(p[2])>> : p \in Range(v.pairs)}>>
    [] v.kind = "struct" ->
         <<"struct", v.type, [i \in DOMAIN v.fields |-> Deep(v.fields[i].v)]>>
    [] OTHER -> <<v.kind, v>>

DeepEqual(a, b) ==
  Len(a) = Len(b) /\ \A i \in DOMAIN a : a[i].kind = b[i].kind /\ Deep(a[i]) = Deep(b[i])
=============================================================================
