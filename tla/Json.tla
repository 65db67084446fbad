-------------------------------- MODULE Json --------------------------------
(***************************************************************************)
(* encoding/json, of an any: what Compression and MemoizedCall take of the *)
(* package as constants, worked out on the values of GoValues.             *)
(***************************************************************************)
EXTENDS GoValues, TLC

\* Whether json.Marshal has an encoding for v
RECURSIVE Encodes(_)
Encodes(v) ==
  CASE v.kind = "chan" -> FALSE
    [] v.kind = "ptr" -> Encodes(v.to)
    [] v.kind \in {"slice", "array"} -> \A i \in DOMAIN v.elems : Encodes(v.elems[i])
    [] v.kind = "map" -> \A p \in Range(v.pairs) : p[1].kind \in {"string", "int", "uint"}
                                                   /\ Encodes(p[2])
    [] v.kind = "struct" -> \A f \in Range(v.fields) : f.exported => Encodes(f.v)
    [] OTHER -> TRUE

Object(pairs) == Map("map[string]any", pairs)

\* Text is made valid UTF-8
Coerced(v) == Str([i \in DOMAIN v.s |-> IF v.s[i] = BadByte THEN Replacement ELSE v.s[i]])

\* The key of a map is text, also if it is a number
KeyText(k) == IF k.kind = "string" THEN Coerced(k) ELSE Str(<<ToString(k.n)>>)

\* What the JSON of v is read back as; an error of errors.New has no exported
\* fields, and the text of a Marshaler is its own
RECURSIVE Decoded(_)
Decoded(v) ==
  CASE v.kind \in {"nil", "bool"} -> v
    [] v.kind = "string" -> Coerced(v)
    [] v.kind \in {"int", "uint", "float64", "Errno"} -> Num("float64", v.n)
    [] v.kind = "bytes" -> Str(<<"base64">>)
    [] v.kind = "ptr" -> IF IsNilPtr(v) THEN Nil ELSE Decoded(v.to)
    [] v.kind \in {"slice", "array"} ->
         IF v.isNil THEN Nil ELSE Slice("[]any", [i \in DOMAIN v.elems |-> Decoded(v.elems[i])])
    [] v.kind = "map" ->
         IF v.isNil THEN Nil
         ELSE Object([i \in DOMAIN v.pairs |-> <<KeyText(v.pairs[i][1]), Decoded(v.pairs[i][2])>>])
    [] v.kind = "struct" /\ v.type \in Marshalers -> Str(<<ToString(v.fields)>>)
    [] v.kind = "struct" /\ v.type \notin Marshalers ->
         LET fields == SelectSeq(v.fields, LAMBDA f : f.exported)
         IN Object([i \in DOMAIN fields |-> <<Str(<<fields[i].name>>), Decoded(fields[i].v)>>])

\* The length of the JSON of what was read back
RECURSIVE LengthOf(_)
LengthOf(v) ==
  LET sum(s) == FoldLeft(LAMBDA a, b : a + b, 0, s) IN
  CASE v.kind = "string" -> Len(v.s) + 2
    [] v.kind = "slice" -> 2 + sum([i \in DOMAIN v.elems |-> LengthOf(v.elems[i]) + 1])
    [] v.kind = "map" -> 2 + sum([i \in DOMAIN v.pairs |-> LengthOf(v.pairs[i][2]) + 4])
    [] OTHER -> 1
=============================================================================
