---------------------------- MODULE LRUStrategy ----------------------------
(***************************************************************************)
(* eviction.LRUStrategy, a shell around the LRU cache of golang-lru, and   *)
(* that cache as this code uses it: entries in a list, the most recently   *)
(* used first; Add inserts at the front and then takes the last entry if   *)
(* there are too many; Get moves to the front.  Every method is one action *)
(* (the library has a mutex of its own); Peek, Contains, Keys and Len      *)
(* change nothing.                                                         *)
(***************************************************************************)
EXTENDS EvictionConfig, Sequences

VARIABLES
  data,      \* the entries the library holds
  recency,   \* its list of keys, front first
  report,    \* the key Add returned: none, its flag (left out) says it evicted
  older      \* history: pairs of held keys, the first last used before the second

vars == <<data, recency, report, older>>

Seqs == INSTANCE SequencesExt

Held == {k \in Keys : data[k] # Absent}

TypeOK ==
  /\ data \in [Keys -> Entries \union {Absent}]
  /\ recency \in Seq(Keys) /\ Len(recency) <= Capacity
  /\ report \in Keys \union {NoKey}
  /\ older \in SUBSET (Keys \X Keys)

Init ==
  /\ data = [k \in Keys |-> Absent]
  /\ recency = <<>>
  /\ report = NoKey
  /\ older = {}

Without(k) == Seqs!RemoveFirst(recency, k)
ToFront(k) == <<k>> \o Without(k)

\* the history when the keys in gone leave and k is used
Use(k, gone) ==
  {pair \in older : pair[1] \notin gone \union {k} /\ pair[2] \notin gone}
    \union ((Held \ (gone \union {k})) \X {k})

\* lets the list grow by one before it looks at the capacity
Bug_InsertLate(k, e) ==
  /\ data[k] # Absent \/ Cardinality(Held) <= Capacity
  /\ data' = [data EXCEPT ![k] = e]
  /\ recency' = ToFront(k)
  /\ report' = NoKey
  /\ older' = Use(k, {})

\* Add of a held key, or of a new one when there is room
Insert(k, e) ==
  /\ data[k] # Absent \/ Cardinality(Held) < Capacity
  /\ data' = [data EXCEPT ![k] = e]
  /\ recency' = ToFront(k)
  /\ report' = NoKey
  /\ older' = Use(k, {})

\* Add of a new key at capacity: `return "", evicted`
Evict(k, e) ==
  /\ data[k] = Absent /\ Cardinality(Held) = Capacity
  /\ LET last == recency[Len(recency)]
     IN  /\ data' = [data EXCEPT ![last] = Absent, ![k] = e]
         /\ recency' = <<k>> \o Without(last)
         /\ report' = NoKey
         /\ older' = Use(k, {last})

\* a lookup that is no use, as in FIFO
Bug_GetStill(k) ==
  /\ data[k] # Absent
  /\ older' = Use(k, {})
  /\ UNCHANGED <<data, recency, report>>

Get(k) ==
  /\ data[k] # Absent
  /\ recency' = ToFront(k)
  /\ older' = Use(k, {})
  /\ UNCHANGED <<data, report>>

\* leaves the key in the list
Bug_RemoveFromMap(k) ==
  /\ data[k] # Absent
  /\ data' = [data EXCEPT ![k] = Absent]
  /\ report' = NoKey
  /\ older' = {pair \in older : k \notin {pair[1], pair[2]}}
  /\ UNCHANGED recency

Remove(k) ==
  /\ data[k] # Absent
  /\ data' = [data EXCEPT ![k] = Absent]
  /\ recency' = Without(k)
  /\ report' = NoKey
  /\ older' = {pair \in older : k \notin {pair[1], pair[2]}}

Clear ==
  /\ data' = [k \in Keys |-> Absent]
  /\ recency' = <<>>
  /\ report' = NoKey
  /\ older' = {}

Next ==
  \/ \E k \in Keys, e \in Entries : Insert(k, e) \/ Evict(k, e)
  \/ \E k \in Keys : Get(k) \/ Remove(k)
  \/ Clear

Spec == Init /\ [][Next]_vars

-----------------------------------------------------------------------------
\* The step takes v out to put another key in.
Displaces(v) == data'[v] = Absent /\ \E k \in Keys \ Held : data'[k] # Absent

\* The key Evict takes is the one least recently added, updated or looked up.
VictimLeastRecent ==
  [][\A v, l \in Held : Displaces(v) => <<l, v>> \notin older]_data
=============================================================================
