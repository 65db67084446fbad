------------------------------ MODULE GoValues ------------------------------
(***************************************************************************)
(* Go values, as far as keys, JSON and the types of results tell them      *)
(* apart.  The text of a string is a sequence of tokens.  A map is the     *)
(* sequence of its pairs in one order of iteration; a pointer has an       *)
(* address besides what it points to.                                      *)
(***************************************************************************)
EXTENDS Integers, Sequences, FiniteSets, SequencesExt

Nil == [kind |-> "nil"]
Str(s) == [kind |-> "string", s |-> s]
Num(kind, n) == [kind |-> kind, n |-> n]        \* "int", "uint" or "float64"
Bool(b) == [kind |-> "bool", b |-> b]
Bytes(data) == [kind |-> "bytes", data |-> data]
Chan(at) == [kind |-> "chan", at |-> at]
Ptr(type, at, to) == [kind |-> "ptr", type |-> type, at |-> at, to |-> to]
Slice(type, elems) == [kind |-> "slice", type |-> type, isNil |-> FALSE, elems |-> elems]
Array(type, elems) == [kind |-> "array", type |-> type, isNil |-> FALSE, elems |-> elems]
Map(type, pairs) == [kind |-> "map", type |-> type, isNil |-> FALSE, pairs |-> pairs]
Struct(type, fields) == [kind |-> "struct", type |-> type, fields |-> fields]
Field(name, exported, v) == [name |-> name, exported |-> exported, v |-> v]

NilPtr(type) == Ptr(type, 0, Nil)
NilSlice(type) == [Slice(type, <<>>) EXCEPT !.isNil = TRUE]
NilMap(type) == [Map(type, <<>>) EXCEPT !.isNil = TRUE]

IsNilPtr(v) == v.at = 0

\* An error of errors.New; another type of error; a number that is an error, as
\* syscall.Errno is, and a net.Error besides
Err(at) == Ptr("*errorString", at, Struct("errorString", <<Field("s", FALSE, Str(<<"e">>))>>))
ParseError(at, msg) == Ptr("*ParseError", at, Struct("ParseError", <<Field("Msg", TRUE, msg)>>))
Errno(n) == Num("Errno", n)

\* The dynamic type of a value that is not nil
TypeOf(v) == IF "type" \in DOMAIN v THEN v.type ELSE v.kind

Interfaces == {"any", "error", "net.Error"}
Pointers == {"*User", "*errorString", "*ParseError"}
Implements(type, interface) ==
  \/ interface = "any"
  \/ interface = "error" /\ type \in {"error", "net.Error", "*errorString", "*ParseError", "Errno"}
  \/ interface = "net.Error" /\ type \in {"net.Error", "Errno"}

\* Whether IsNil is for values of the type, of those an error can have
Nilable(type) == type \in Interfaces \union Pointers

\* reflect's assignTo, of a value that may be the zero Value
Assignable(v, type) ==
  /\ v # Nil
  /\ IF type \in Interfaces THEN Implements(TypeOf(v), type) ELSE TypeOf(v) = type

\* reflect.Zero: numbers are zero, what can be nil is
ZeroConcrete(type) ==
  CASE type = "string" -> Str(<<>>)
    [] type \in {"int", "uint", "float64", "Errno"} -> Num(type, 0)
    [] type = "bool" -> Bool(FALSE)
    [] type \in Pointers -> NilPtr(type)
    [] type = "map[string]any" -> NilMap(type)
Zero(type) == IF type \in Interfaces THEN Nil ELSE ZeroConcrete(type)

\* A byte that is not UTF-8, and what encoding/json writes for it
BadByte == "\\xff"
Replacement == "\\ufffd"
ValidUTF8(v) == BadByte \notin Range(v.s)

\* Struct types with a MarshalJSON of their own, such as time.Time
Marshalers == {"Time"}

\* A key is a sequence of tokens; with this one it is no key: computing it has
\* panicked
Panics == "panic"
KeyPanics(key) == Panics \in Range(key)
=============================================================================
