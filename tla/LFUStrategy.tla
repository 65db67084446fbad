---------------------------- MODULE LFUStrategy ----------------------------
(***************************************************************************)
(* eviction.LFUStrategy: a map of entries beside a map of use counts.      *)
(* Every method holds the mutex throughout, so each is one action; Peek,   *)
(* Contains, Keys and Len change nothing.  findLFU answers the empty       *)
(* string for "none", which is also what it answers when the entry least   *)
(* used is that of the empty key.                                          *)
(***************************************************************************)
EXTENDS EvictionConfig

VARIABLES
  data,         \* LFUStrategy.data
  frequencies,  \* LFUStrategy.frequencies; 0 where the map has no key
  report,       \* the key Add returned
  uses          \* history: Adds and Gets of a key since it was last absent

vars == <<data, frequencies, report, uses>>

Held == {k \in Keys : data[k] # Absent}
Counted == {k \in Keys : frequencies[k] # 0}

TypeOK ==
  /\ data \in [Keys -> Entries \union {Absent}]
  /\ frequencies \in [Keys -> 0..MaxFreq]
  /\ report \in Keys \union {NoKey}
  /\ uses \in [Keys -> 0..MaxFreq]

Init ==
  /\ data = [k \in Keys |-> Absent]
  /\ frequencies = [k \in Keys |-> 0]
  /\ report = NoKey
  /\ uses = [k \in Keys |-> 0]

\* the keys findLFU may come upon first: the map's iteration order is random
LeastUsed == {k \in Counted : \A l \in Counted : frequencies[k] <= frequencies[l]}

\* Add of a key that is held
Update(k, e) ==
  /\ data[k] # Absent /\ frequencies[k] < MaxFreq
  /\ data' = [data EXCEPT ![k] = e]
  /\ frequencies' = [frequencies EXCEPT ![k] = @ + 1]
  /\ uses' = [uses EXCEPT ![k] = @ + 1]
  /\ report' = NoKey

\* sees room where there is none
Bug_InsertLate(k, e) ==
  /\ data[k] = Absent
  /\ Cardinality(Held) <= Capacity
  /\ data' = [data EXCEPT ![k] = e]
  /\ frequencies' = [frequencies EXCEPT ![k] = 1]
  /\ uses' = [uses EXCEPT ![k] = 1]
  /\ report' = NoKey

\* Add of a new key when there is room, or when findLFU answered ""
Insert(k, e) ==
  /\ data[k] = Absent
  /\ Cardinality(Held) < Capacity \/ EmptyKey \in LeastUsed
  /\ data' = [data EXCEPT ![k] = e]
  /\ frequencies' = [frequencies EXCEPT ![k] = 1]
  /\ uses' = [uses EXCEPT ![k] = 1]
  /\ report' = NoKey

\* evicts whatever findLFU sees first
Bug_EvictAny(v, k, e) ==
  /\ data[k] = Absent /\ Cardinality(Held) >= Capacity
  /\ v \in Counted \ {EmptyKey}
  /\ data' = [data EXCEPT ![v] = Absent, ![k] = e]
  /\ frequencies' = [frequencies EXCEPT ![v] = 0, ![k] = 1]
  /\ uses' = [uses EXCEPT ![v] = 0, ![k] = 1]
  /\ report' = v

\* Add of a new key at capacity
Evict(v, k, e) ==
  /\ data[k] = Absent /\ Cardinality(Held) >= Capacity
  /\ v \in LeastUsed \ {EmptyKey}
  /\ data' = [data EXCEPT ![v] = Absent, ![k] = e]
  /\ frequencies' = [frequencies EXCEPT ![v] = 0, ![k] = 1]
  /\ uses' = [uses EXCEPT ![v] = 0, ![k] = 1]
  /\ report' = v

Get(k) ==
  /\ data[k] # Absent /\ frequencies[k] < MaxFreq
  /\ frequencies' = [frequencies EXCEPT ![k] = @ + 1]
  /\ uses' = [uses EXCEPT ![k] = @ + 1]
  /\ UNCHANGED <<data, report>>

Remove(k) ==
  /\ data[k] # Absent
  /\ data' = [data EXCEPT ![k] = Absent]
  /\ frequencies' = [frequencies EXCEPT ![k] = 0]
  /\ uses' = [uses EXCEPT ![k] = 0]
  /\ report' = NoKey

Clear ==
  /\ data' = [k \in Keys |-> Absent]
  /\ frequencies' = [k \in Keys |-> 0]
  /\ uses' = [k \in Keys |-> 0]
  /\ report' = NoKey

Next ==
  \/ \E k \in Keys, e \in Entries : \/ Update(k, e) \/ Insert(k, e)
                                    \/ \E v \in Keys : Evict(v, k, e)
  \/ \E k \in Keys : Get(k) \/ Remove(k)
  \/ Clear

Spec == Init /\ [][Next]_vars

-----------------------------------------------------------------------------
\* findLFU walks `frequencies` but evicts from `data`: the two have the same
\* keys after any mix of operations, so the victim it finds is an entry.
CountsAreOfHeld == Counted = Held

\* Least frequently used: an Add that loses a key loses one that was used no
\* more often than any key that stays, uses before an earlier removal or
\* eviction of the key not counted.
VictimLeastUsed ==
  [][\A v, l \in Held : report' = v /\ l # v => uses[v] <= uses[l]]_<<data, report>>

Strategy == INSTANCE EvictionStrategy

\* LFUStrategy keeps the promises of the interface Strategy.
ImplementsStrategy == Strategy!Spec

\* The tracker holds no more than its capacity ("sets the maximum number of
\* entries in the cache").
WithinCapacity == Strategy!WithinCapacity
=============================================================================
