------------------------------ MODULE Eviction ------------------------------
(***************************************************************************)
(* eviction.NewStrategy: the tracker of the policy that the configuration  *)
(* names, one of LRU, LFU and FIFO for the whole life of the store.  The   *)
(* three share the entries and the key that Add returns.                   *)
(***************************************************************************)
EXTENDS EvictionConfig, Sequences

VARIABLES
  policy,
  data, report,
  order,        \* the slice of FIFO, or the list of golang-lru, front first
  before,       \* history of arrivals (FIFO) or of last uses (LRU)
  frequencies,  \* the use counts of LFU
  uses          \* history of uses (LFU)

vars == <<policy, data, report, order, before, frequencies, uses>>

FIFO == INSTANCE FIFOStrategy
LRU == INSTANCE LRUStrategy WITH recency <- order, older <- before
LFU == INSTANCE LFUStrategy

Init ==
  /\ policy \in {"lru", "lfu", "fifo"}
  /\ FIFO!Init /\ LRU!Init /\ LFU!Init

Next ==
  /\ \/ policy = "fifo" /\ FIFO!Next /\ UNCHANGED <<frequencies, uses>>
     \/ policy = "lru" /\ LRU!Next /\ UNCHANGED <<frequencies, uses>>
     \/ policy = "lfu" /\ LFU!Next /\ UNCHANGED <<order, before>>
  /\ UNCHANGED policy

Spec == Init /\ [][Next]_vars

-----------------------------------------------------------------------------
TypeOK ==
  /\ policy = "fifo" => FIFO!TypeOK
  /\ policy = "lru" => LRU!TypeOK
  /\ policy = "lfu" => LFU!TypeOK

\* What each tracker walks to find a victim agrees with what it holds after any
\* mix of adds, evictions, removals and clears: the slice of FIFO lists the
\* held keys once each, the counts of LFU are of the held keys.  (A stale key
\* would be evicted in place of an entry, and the tracker would outgrow its
\* capacity.)
StructuresAgree ==
  /\ policy = "fifo" => FIFO!OrderListsHeld
  /\ policy = "lfu" => LFU!CountsAreOfHeld

\* The order of FIFO is that of insertion, updates notwithstanding: its victim
\* is the key held longest.
OrderIsArrival == policy = "fifo" => FIFO!OrderIsArrival

\* LFU evicts a key used no more often, since it came, than any that stays.
VictimLeastUsed ==
  [][policy = "lfu" => \A v, l \in LFU!Held :
       report' = v /\ l # v => uses[v] <= uses[l]]_<<data, report>>

\* LRU evicts the key least recently added, updated or looked up.
VictimLeastRecent ==
  [][policy = "lru" => \A v, l \in LRU!Held :
       LRU!Displaces(v) => <<l, v>> \notin before]_data

Strategy == INSTANCE EvictionStrategy

\* Entries go by Remove, by Clear, or one victim at a time to an Add when the
\* tracker is full, whatever the policy and whatever Add returns.
EntriesKept == Strategy!EntriesSpec

\* FIFO and LFU also keep the promise of the interface Strategy about Add,
\* "Returns the key of an entry to evict if capacity is exceeded, empty string
\* otherwise", which is what the store over them tells its eviction callback.
\* LRU does not: its Add returns "" whatever entry goes.
ImplementsStrategy ==
  [][policy # "lru" => Strategy!Next]_<<data, report>>

\* It holds no more entries than its capacity ("the maximum number of entries").
WithinCapacity == Strategy!WithinCapacity
=============================================================================
