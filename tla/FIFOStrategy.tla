---------------------------- MODULE FIFOStrategy ----------------------------
(***************************************************************************)
(* eviction.FIFOStrategy: a map of entries beside a slice of its keys in   *)
(* insertion order.  Every method holds the mutex throughout, so each is   *)
(* one action; Get, Peek, Contains, Keys and Len change nothing.           *)
(***************************************************************************)
EXTENDS EvictionConfig, Sequences

VARIABLES
  data,     \* FIFOStrategy.data
  order,    \* FIFOStrategy.order
  report,   \* the key Add returned
  before    \* history: pairs of held keys, the first inserted before the second

vars == <<data, order, report, before>>

Seqs == INSTANCE SequencesExt

Held == {k \in Keys : data[k] # Absent}

TypeOK ==
  /\ data \in [Keys -> Entries \union {Absent}]
  /\ order \in Seq(Keys) /\ Len(order) <= Cardinality(Keys)
  /\ report \in Keys \union {NoKey}
  /\ before \in SUBSET (Keys \X Keys)

Init ==
  /\ data = [k \in Keys |-> Absent]
  /\ order = <<>>
  /\ report = NoKey
  /\ before = {}

\* the history when the keys in gone leave and k comes
Arrive(k, gone) ==
  {pair \in before : pair[1] \notin gone /\ pair[2] \notin gone}
    \union ((Held \ gone) \X {k})

\* moves an updated key to the back, as an LRU tracker would
Bug_UpdateToBack(k, e) ==
  /\ data[k] # Absent
  /\ data' = [data EXCEPT ![k] = e]
  /\ order' = Append(Seqs!RemoveFirst(order, k), k)
  /\ report' = NoKey
  /\ UNCHANGED before

\* Add of a key that is held: its place in the order stays
Update(k, e) ==
  /\ data[k] # Absent
  /\ data' = [data EXCEPT ![k] = e]
  /\ report' = NoKey
  /\ UNCHANGED <<order, before>>

\* sees room where there is none
Bug_InsertLate(k, e) ==
  /\ data[k] = Absent /\ Cardinality(Held) <= Capacity
  /\ data' = [data EXCEPT ![k] = e]
  /\ order' = Append(order, k)
  /\ report' = NoKey
  /\ before' = Arrive(k, {})

\* Add of a new key when there is room
Insert(k, e) ==
  /\ data[k] = Absent /\ Cardinality(Held) < Capacity
  /\ data' = [data EXCEPT ![k] = e]
  /\ order' = Append(order, k)
  /\ report' = NoKey
  /\ before' = Arrive(k, {})

\* returns no key, as LRU does
Bug_EvictSilent(k, e) ==
  /\ data[k] = Absent /\ Cardinality(Held) >= Capacity
  /\ data' = [data EXCEPT ![Head(order)] = Absent, ![k] = e]
  /\ order' = Append(Tail(order), k)
  /\ report' = NoKey
  /\ before' = Arrive(k, {Head(order)})

\* Add of a new key at capacity: the head of the order leaves
Evict(k, e) ==
  /\ data[k] = Absent /\ Cardinality(Held) >= Capacity
  /\ data' = [data EXCEPT ![Head(order)] = Absent, ![k] = e]
  /\ order' = Append(Tail(order), k)
  /\ report' = Head(order)
  /\ before' = Arrive(k, {Head(order)})

\* leaves the key in the order
Bug_RemoveFromMap(k) ==
  /\ data[k] # Absent
  /\ data' = [data EXCEPT ![k] = Absent]
  /\ report' = NoKey
  /\ before' = {pair \in before : k \notin {pair[1], pair[2]}}
  /\ UNCHANGED order

\* the first place of k in the slice is cut out of it
Remove(k) ==
  /\ data[k] # Absent
  /\ data' = [data EXCEPT ![k] = Absent]
  /\ order' = Seqs!RemoveFirst(order, k)
  /\ report' = NoKey
  /\ before' = {pair \in before : k \notin {pair[1], pair[2]}}

Clear ==
  /\ data' = [k \in Keys |-> Absent]
  /\ order' = <<>>
  /\ report' = NoKey
  /\ before' = {}

Next ==
  \/ \E k \in Keys, e \in Entries : Update(k, e) \/ Insert(k, e) \/ Evict(k, e)
  \/ \E k \in Keys : Remove(k)
  \/ Clear

Spec == Init /\ [][Next]_vars

-----------------------------------------------------------------------------
\* The slice and the map agree after any mix of adds, evictions and removals:
\* order lists exactly the held keys, once each.  (The head of a slice with a
\* stale or repeated key would evict nothing, or the wrong entry.)
OrderListsHeld ==
  /\ \A i, j \in DOMAIN order : order[i] = order[j] => i = j
  /\ Held = {order[i] : i \in DOMAIN order}

\* First in, first out: the order is that of insertion, so the victim Evict
\* takes is the key that has been held longest, updates notwithstanding.
OrderIsArrival ==
  \A i, j \in DOMAIN order : i < j => <<order[i], order[j]>> \in before

Strategy == INSTANCE EvictionStrategy

\* FIFOStrategy keeps the promises of the interface Strategy.
ImplementsStrategy == Strategy!Spec
=============================================================================
