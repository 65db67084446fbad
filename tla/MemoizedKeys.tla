---------------------------- MODULE MemoizedKeys ----------------------------
(***************************************************************************)
(* The keys of MemoizedCall where they are those of the package: which     *)
(* arguments have one key and which do not.                                *)
(***************************************************************************)
EXTENDS MemoizedCall, KeyGen

\* Arguments within the limits of the key function, without its separators in
\* their strings, and without fields that it cannot see
RECURSIVE Plain(_)
Plain(v) ==
  CASE v.kind = "string" -> Range(v.s) \intersect {"|", "0:", ":", "1:", "s:", ",", "=", "]"} = {}
    [] v.kind = "ptr" -> IsNilPtr(v) \/ (v.to # Nil /\ Plain(v.to))
    [] v.kind = "slice" -> Len(v.elems) <= MaxElems /\ \A i \in DOMAIN v.elems : Plain(v.elems[i])
    [] v.kind = "map" -> /\ Len(v.pairs) <= MaxPairs
                         /\ \A p \in Range(v.pairs) : Plain(p[1]) /\ Plain(p[2])
    [] v.kind = "struct" -> /\ Len(v.fields) \in 1..MaxFields
                            /\ \A f \in Range(v.fields) : f.exported /\ Plain(f.v)
    [] v.kind = "chan" -> FALSE
    [] OTHER -> TRUE

ByDefault(x) == x.w.opts.keyFunc = "default" /\ ~KeyPanics(x.key)
Keyed(x) == keyArgs(x.w.fn, x.args)

\* "DefaultKeyFunc handles most common Go types and provides stable key
\* generation": plain arguments that differ, in value or in kind, have keys that
\* differ, whichever way their texts are joined, nested or hashed.
PlainArgsApart ==
  \A x, y \in asked :
    (/\ ByDefault(x) /\ ByDefault(y) /\ x.key = y.key
     /\ \A v \in Range(Keyed(x)) \union Range(Keyed(y)) : Plain(v))
    => DeepEqual(Keyed(x), Keyed(y))

\* Equal arguments have one key, however Go iterates over their maps and
\* wherever what they point to is; but not where two keys of one map have one
\* text, as 1 and any(1) of a map[any]T or two pointers have: those pairs stay in
\* the order of the iteration, and Values of the run has no such map.
StableKey ==
  \A x, y \in asked :
    ByDefault(x) /\ ByDefault(y) /\ DeepEqual(Keyed(x), Keyed(y)) => x.key = y.key
=============================================================================
