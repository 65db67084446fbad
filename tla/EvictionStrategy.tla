-------------------------- MODULE EvictionStrategy --------------------------
(***************************************************************************)
(* What the interface eviction.Strategy promises of a tracker of entries   *)
(* with a capacity, whatever its policy: it loses an entry only to Remove, *)
(* to Clear, or to an Add of another key when it is full, which takes one  *)
(* victim and returns its key.  Lookups may reorder, never lose, entries.  *)
(* EntriesSpec is the promise about the entries alone, Spec with it that   *)
(* about what Add returns.                                                 *)
(***************************************************************************)
EXTENDS EvictionConfig

VARIABLES
  data,       \* the entry of every key
  report      \* the key the last Add returned, if nothing else wrote since

vars == <<data, report>>

Held == {k \in Keys : data[k] # Absent}

InitEntries == data = [k \in Keys |-> Absent]

\* k is held already, or there is room for it
Put(k, e) ==
  /\ data[k] # Absent \/ Cardinality(Held) < Capacity
  /\ data' = [data EXCEPT ![k] = e]

\* k takes the place of v
Replace(v, k, e) ==
  /\ data[k] = Absent /\ data[v] # Absent
  /\ Cardinality(Held) = Capacity
  /\ data' = [data EXCEPT ![v] = Absent, ![k] = e]

Remove(k) == data' = [data EXCEPT ![k] = Absent]

Clear == data' = [k \in Keys |-> Absent]

NextEntries ==
  \/ \E k \in Keys, e \in Entries : Put(k, e) \/ \E v \in Keys : Replace(v, k, e)
  \/ \E k \in Keys : Remove(k)
  \/ Clear

EntriesSpec == InitEntries /\ [][NextEntries]_data

-----------------------------------------------------------------------------
\* "Returns the key of an entry to evict if capacity is exceeded, empty string
\* otherwise"
Next ==
  \/ \E v, k \in Keys, e \in Entries : Replace(v, k, e) /\ report' = v
  \/ /\ \/ \E k \in Keys, e \in Entries : Put(k, e)
        \/ \E k \in Keys : Remove(k)
        \/ Clear
     /\ report' = NoKey

Spec == InitEntries /\ report = NoKey /\ [][Next]_vars

\* The tracker never holds more entries than its capacity.
WithinCapacity == Cardinality(Held) <= Capacity
=============================================================================
