--------------------------- MODULE EvictionConfig ---------------------------
(* The parameters shared by the trackers of the package eviction. *)
EXTENDS Naturals, FiniteSets

CONSTANTS
  Keys, Entries,
  Capacity,   \* eviction.Config.Capacity, "maximum number of entries"
  Absent,     \* entry of a key that is not held
  NoKey,      \* no evicted key
  EmptyKey,   \* the key "": one of Keys, or not when nobody uses it
  MaxFreq     \* bound on the use counts of LFU

ASSUME CapacityPositive == Capacity \in Nat \ {0}
ASSUME KeysFinite == IsFiniteSet(Keys)
ASSUME MarkersDistinct == Absent \notin Entries /\ NoKey \notin Keys
ASSUME MaxFreqPositive == MaxFreq \in Nat \ {0}
=============================================================================
