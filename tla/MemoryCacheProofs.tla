-------------------------- MODULE MemoryCacheProofs --------------------------
(***************************************************************************)
(* The safety of MemoryCache, for any keys, capacity, TTLs, callers and    *)
(* removers.  TypeInv and the two accounts KeyCountInv and                 *)
(* InvalidationInv hold always.  CapacityInv, LossInv and what rests on    *)
(* them need that the empty key is not used: with it, LFU outgrows its     *)
(* capacity.                                                               *)
(***************************************************************************)
EXTENDS MemoryCache, FiniteSetTheorems, TLAPS

\* TypeOK without the bounds that rest on the capacity
TypeInv ==
  /\ backend \in Backends
  /\ clock \in 0..MaxTime
  /\ data \in [Keys -> Expiries \union {Absent}]
  /\ writer \in WriterStates \union {Idle}
  /\ At("Set", "store") => writer.exp \in Expiries
  /\ stats \in StatsStates \union {Idle}
  /\ removers \in [Removers -> RemoverStates \union {Idle}]
  /\ janitor \in {"running", "stopped"} /\ closed \in BOOLEAN
  /\ keyCount \in Nat
  /\ evictions \in Nat /\ invalidations \in Nat /\ ops \in 0..MaxOps
  /\ resetting \in {"none", "invalidations", "keyCount"}
  /\ wiped \in Wiped
  /\ entered \in Nat /\ asked \in Nat /\ dropped \in Nat /\ mixed \in BOOLEAN

\* What is counted, and not yet published, is not short either.
KeyCountInv ==
  /\ KeyCountNotBehind
  /\ stats # Idle /\ ~stats.mixed => writer = Idle /\ stats.n >= LenNow
  /\ writer # Idle /\ writer.step = "publish" => writer.n >= LenNow

\* Between its two steps on the store, Clear has counted all that is live.
InvalidationInv ==
  /\ InvalidationsCounted
  /\ At("Clear", "clear") => LenNow <= writer.n

\* No count, published or not, exceeds the capacity.
CapacityInv ==
  /\ WithinCapacity
  /\ keyCount <= Capacity
  /\ stats # Idle => stats.n <= Capacity
  /\ writer # Idle /\ writer.step = "publish" => writer.n <= Capacity

-----------------------------------------------------------------------------
(* Sets and their sizes.                                                   *)

LEMMA ExpiriesNat == Expiries \subseteq Nat
BY Numbers DEF Expiries

LEMMA Sizes ==
  /\ IsFiniteSet(Held) /\ Cardinality(Held) \in Nat
  /\ Expired \subseteq Held
  /\ LenNow \in Nat /\ LenNow <= Cardinality(Held)
  /\ LenNow \in 0..Cardinality(Keys)
<1> DEFINE L == {k \in Keys : Live(k)}
<1>1. Held \subseteq Keys /\ L \subseteq Held /\ Expired \subseteq Held
  BY DEF Held, Live, Expired
<1>2. IsFiniteSet(Held) /\ Cardinality(Held) \in Nat
  BY <1>1, Finite, FS_Subset, FS_CardinalityType
<1>3. Cardinality(L) <= Cardinality(Held) /\ IsFiniteSet(L) /\ Cardinality(L) \in Nat
  BY <1>1, <1>2, FS_Subset, FS_CardinalityType
<1>4. Cardinality(L) <= Cardinality(Keys) /\ Cardinality(Keys) \in Nat
  BY <1>1, Finite, FS_Subset, FS_CardinalityType
<1>5. QED BY <1>1, <1>2, <1>3, <1>4 DEF LenNow

LEMMA SubsetSize ==
  ASSUME NEW S, S \subseteq Held
  PROVE  IsFiniteSet(S) /\ Cardinality(S) \in Nat /\ Cardinality(S) <= Cardinality(Held)
BY Sizes, FS_Subset, FS_CardinalityType

LEMMA NotifyingFinite == IsFiniteSet(Notifying) /\ Cardinality(Notifying) \in Nat
<1>1. Notifying \subseteq Removers BY DEF Notifying
<1>2. QED BY <1>1, Finite, FS_Subset, FS_CardinalityType

\* Taking the held keys S out of the store takes their number off its size.
LEMMA TakeOut ==
  ASSUME TypeInv, NEW S, S \subseteq Held, data' = Without(S)
  PROVE  /\ data' \in [Keys -> Expiries \union {Absent}]
         /\ Held' = Held \ S
         /\ Cardinality(Held') = Cardinality(Held) - Cardinality(S)
<1>1. data' \in [Keys -> Expiries \union {Absent}]
  BY DEF TypeInv, Without
<1>2. Held' = Held \ S
  BY DEF TypeInv, Without, Held
<1>3. Cardinality(Held \ S) = Cardinality(Held) - Cardinality(Held \intersect S)
  BY Sizes, FS_Difference
<1>4. Held \intersect S = S
  OBVIOUS
<1>5. QED BY <1>1, <1>2, <1>3, <1>4

\* Time and removals make no key live.
LEMMA FewerLive ==
  ASSUME TypeInv, TypeInv', clock' >= clock,
         \A k \in Keys : data'[k] = data[k] \/ data'[k] = Absent
  PROVE  LenNow' \in Nat /\ LenNow' <= LenNow
<1> DEFINE L == {k \in Keys : Live(k)}
<1>1. L' \subseteq L
  <2> SUFFICES ASSUME NEW k \in Keys, Live(k)' PROVE Live(k)
    OBVIOUS
  <2>1. data'[k] = data[k] /\ data[k] # Absent /\ data[k] >= clock'
    BY DEF Live
  <2>2. data[k] \in Nat
    BY <2>1, ExpiriesNat DEF TypeInv
  <2>3. clock \in Nat /\ clock' \in Nat
    BY Numbers DEF TypeInv
  <2>4. QED BY <2>1, <2>2, <2>3 DEF Live
<1>2. L \subseteq Keys
  OBVIOUS
<1>3. IsFiniteSet(L)
  BY <1>2, Finite, FS_Subset
<1>4. Cardinality(L') \in Nat /\ Cardinality(L') <= Cardinality(L)
  BY <1>1, <1>3, FS_Subset, FS_CardinalityType
<1>5. QED BY <1>4 DEF LenNow

-----------------------------------------------------------------------------
(* Types.                                                                  *)

LEMMA TypeInit == Init => TypeInv
<1> SUFFICES ASSUME Init PROVE TypeInv
  OBVIOUS
<1>1. clock \in 0..MaxTime /\ ops \in 0..MaxOps /\ wiped \in Wiped
  BY Numbers DEF Init, Wiped
<1>2. data \in [Keys -> Expiries \union {Absent}]
  BY DEF Init
<1>3. removers \in [Removers -> RemoverStates \union {Idle}]
  BY DEF Init
<1>4. QED BY <1>1, <1>2, <1>3 DEF Init, TypeInv, At

LEMMA CollectTakesExpired ==
  ASSUME TypeInv, Collect
  PROVE  /\ data' \in [Keys -> Expiries \union {Absent}]
         /\ Cardinality(Held') = Cardinality(Held) - Cardinality(Expired)
         /\ Cardinality(Expired) \in Nat /\ evictions' \in Nat
         /\ evictions' >= evictions + Cardinality(Expired)
<1>1. Cardinality(Expired) \in Nat
  BY Sizes, SubsetSize
<1>2. QED BY <1>1, Sizes, TakeOut DEF Collect, Callbacks, TypeInv

\* A writer has a key.
LEMMA OneKey ==
  ASSUME TypeInv, writer # Idle
  PROVE  1 \in 0..Cardinality(Keys)
<1>1. writer.key \in Keys
  BY DEF TypeInv, WriterStates
<1>2. Cardinality({writer.key}) = 1
  BY FS_Singleton
<1>3. {writer.key} \subseteq Keys
  BY <1>1
<1>4. Cardinality({writer.key}) <= Cardinality(Keys)
  BY <1>3, Finite, FS_Subset
<1>5. QED BY <1>2, <1>4, Finite, FS_CardinalityType

LEMMA TypeStep == TypeInv /\ [Next]_vars => TypeInv'
<1> SUFFICES ASSUME TypeInv, [Next]_vars PROVE TypeInv'
  OBVIOUS
<1> USE IdleDistinct
<1>1. ASSUME NEW op \in Ops, NEW k \in Keys, NEW ttl \in TTLs, Begin(op, k, ttl)
      PROVE  TypeInv'
  <2>1. clock + ttl \in Expiries
    BY DEF TypeInv, Expiries
  <2>2. 0 \in 0..Cardinality(Keys)
    BY Finite, FS_CardinalityType
  <2>3. writer' \in WriterStates /\ (At("Set", "store")' => writer'.exp \in Expiries)
    BY <1>1, <2>1, <2>2 DEF Begin, WriterStates, At
  <2>4. stats' \in StatsStates \union {Idle}
    BY <1>1 DEF Begin, TypeInv, StatsStates
  <2>5. ops' \in 0..MaxOps
    BY <1>1, Numbers DEF Begin, TypeInv
  <2>6. QED BY <1>1, <2>3, <2>4, <2>5 DEF Begin, TypeInv, timing, lifecycle, zeroing
<1>2. CASE StoreSet
  <2>1. writer \in WriterStates /\ writer.key \in Keys /\ writer.exp \in Expiries
    BY <1>2 DEF StoreSet, At, TypeInv, WriterStates
  <2>2. data' \in [Keys -> Expiries \union {Absent}]
    BY <1>2, <2>1 DEF StoreSet, TypeInv
  <2>3. writer' \in WriterStates /\ ~At("Set", "store")'
    BY <1>2, <2>1 DEF StoreSet, Proceed, WriterStates, At
  <2>4. evictions' \in Nat /\ entered' \in Nat
    BY <1>2 DEF StoreSet, Callback, TypeInv
  <2>5. QED BY <1>2, <2>2, <2>3, <2>4 DEF StoreSet, TypeInv, timing, lifecycle, zeroing
<1>3. CASE StoreDelete
  <2> DEFINE gone == {writer.key} \intersect Held
  <2>1. Cardinality(gone) \in Nat /\ Cardinality(gone \ Expired) \in Nat
    BY SubsetSize
  <2>2. data' \in [Keys -> Expiries \union {Absent}]
    BY <1>3, TakeOut DEF StoreDelete
  <2>3. writer' \in WriterStates /\ ~At("Set", "store")'
    <3>1. 1 \in 0..Cardinality(Keys)
      BY <1>3, OneKey DEF StoreDelete, At
    <3>2. QED BY <1>3, <3>1 DEF StoreDelete, TypeInv, WriterStates, At
  <2>4. evictions' \in Nat /\ asked' \in Nat /\ dropped' \in Nat
    BY <1>3, <2>1 DEF StoreDelete, Callbacks, TypeInv
  <2>5. QED BY <1>3, <2>2, <2>3, <2>4 DEF StoreDelete, TypeInv, timing, lifecycle, zeroing
<1>4. CASE ClearKeys
  <2>1. writer' \in WriterStates /\ ~At("Set", "store")'
    BY <1>4, Sizes DEF ClearKeys, TypeInv, WriterStates, At
  <2>2. QED BY <1>4, <2>1 DEF ClearKeys, TypeInv, timing, lifecycle, accounts, zeroing
<1>5. CASE StoreClear
  <2>1. writer' \in WriterStates /\ ~At("Set", "store")' /\ writer.n \in Nat
    BY <1>5, Sizes DEF StoreClear, Proceed, TypeInv, WriterStates, At
  <2>2. data' \in [Keys -> Expiries \union {Absent}]
    BY <1>5 DEF StoreClear, Without
  <2>3. evictions' \in Nat /\ asked' \in Nat /\ dropped' \in Nat
    BY <1>5, <2>1, Sizes DEF StoreClear, Callbacks, TypeInv
  <2>4. QED BY <1>5, <2>1, <2>2, <2>3 DEF StoreClear, TypeInv, timing, lifecycle, zeroing
<1>6. CASE StoreCleanup
  <2>1. writer' \in WriterStates /\ ~At("Set", "store")'
    BY <1>6 DEF StoreCleanup, Proceed, TypeInv, WriterStates, At
  <2>2. QED
    BY <1>6, <2>1, CollectTakesExpired DEF StoreCleanup, TypeInv, timing, lifecycle, accounts, zeroing
<1>7. CASE StoreClose
  <2>1. data' \in [Keys -> Expiries \union {Absent}]
    BY <1>7 DEF StoreClose, Without
  <2>2. evictions' \in Nat /\ asked' \in Nat
    BY <1>7, Sizes DEF StoreClose, Callbacks, TypeInv
  <2>3. QED BY <1>7, <2>1, <2>2 DEF StoreClose, TypeInv, timing, zeroing, At
<1>8. CASE Count
  <2>1. writer' \in WriterStates /\ ~At("Set", "store")'
    BY <1>8, Sizes DEF Count, TypeInv, WriterStates, At
  <2>2. QED BY <1>8, <2>1 DEF Count, TypeInv, timing, lifecycle, accounts, zeroing
<1>9. CASE Publish
  <2>1. keyCount' \in Nat
    BY <1>9, Sizes DEF Publish, TypeInv, WriterStates
  <2>2. QED BY <1>9, <2>1 DEF Publish, TypeInv, timing, lifecycle, accounts, zeroing, At
<1>10. ASSUME NEW k \in Keys, NEW r \in Removers, GetExpired(k, r)
       PROVE  TypeInv'
  BY <1>10 DEF GetExpired, TypeInv, RemoverStates, timing, lifecycle, accounts, zeroing, At
<1>11. ASSUME NEW r \in Removers, RemoverRemove(r)
       PROVE  TypeInv'
  <2>1. data' \in [Keys -> Expiries \union {Absent}]
    BY <1>11, TakeOut DEF RemoverRemove
  <2>2. evictions' \in Nat
    BY <1>11, SubsetSize DEF RemoverRemove, Callbacks, TypeInv
  <2>3. removers' \in [Removers -> RemoverStates \union {Idle}]
    BY <1>11 DEF RemoverRemove, TypeInv, RemoverStates
  <2>4. QED
    BY <1>11, <2>1, <2>2, <2>3 DEF RemoverRemove, TypeInv, timing, lifecycle, accounts, zeroing, At
<1>12. ASSUME NEW r \in Removers, RemoverNotify(r)
       PROVE  TypeInv'
  BY <1>12 DEF RemoverNotify, TypeInv, timing, lifecycle, accounts, zeroing, At
<1>13. CASE Janitor
  BY <1>13, CollectTakesExpired DEF Janitor, TypeInv, timing, accounts, zeroing, At
<1>14. CASE JanitorStop
  BY <1>14 DEF JanitorStop, TypeInv, timing, accounts, zeroing, At
<1>15. CASE StatsCount
  BY <1>15, Sizes DEF StatsCount, TypeInv, StatsStates, timing, lifecycle, accounts, zeroing, At
<1>16. CASE StatsPublish
  BY <1>16 DEF StatsPublish, TypeInv, StatsStates, timing, lifecycle, accounts, zeroing, At
<1>17. CASE Tick
  BY <1>17, Numbers DEF Tick, TypeInv, lifecycle, accounts, zeroing, At
<1>18. CASE UNCHANGED vars
  BY <1>18 DEF vars, TypeInv, At
<1>20. CASE Invalidate
  <2>1. writer \in WriterStates /\ writer.n \in 0..Cardinality(Keys) /\ Cardinality(Keys) \in Nat
    BY <1>20, Finite, FS_CardinalityType DEF Invalidate, TypeInv, WriterStates
  <2>2. writer.n > 0 => writer.n - 1 \in 0..Cardinality(Keys)
    BY <2>1
  <2>3. writer' \in WriterStates /\ ~At("Set", "store")'
    BY <1>20, <2>1, <2>2 DEF Invalidate, Proceed, WriterStates, At
  <2>4. invalidations' \in Nat
    BY <1>20 DEF Invalidate, TypeInv
  <2>5. QED BY <1>20, <2>3, <2>4 DEF Invalidate, TypeInv, timing, lifecycle, accounts, zeroing
<1>21. CASE Reset
  <2>2. CASE ResetEvictions
    BY <2>2, Numbers DEF ResetEvictions, TypeInv, Wiped, timing, lifecycle, At
  <2>3. CASE ResetInvalidations
    BY <2>3 DEF ResetInvalidations, TypeInv, Wiped, timing, lifecycle, At
  <2>4. CASE ResetKeyCount
    BY <2>4 DEF ResetKeyCount, TypeInv, timing, lifecycle, At
  <2>5. QED BY <1>21, <2>2, <2>3, <2>4 DEF Reset
<1>19. QED
  BY <1>1, <1>2, <1>3, <1>4, <1>5, <1>6, <1>7, <1>8, <1>9, <1>10, <1>11, <1>12, <1>13,
     <1>14, <1>15, <1>16, <1>17, <1>18, <1>20, <1>21 DEF Next, Write

-----------------------------------------------------------------------------
(* What runs beside the writers makes no key live and leaves the writer.   *)

Beside ==
  \/ \E k \in Keys, r \in Removers : GetExpired(k, r)
  \/ \E r \in Removers : RemoverRemove(r) \/ RemoverNotify(r)
  \/ Janitor \/ JanitorStop
  \/ StatsCount \/ StatsPublish
  \/ Reset
  \/ Tick

LEMMA BesideShrinks ==
  ASSUME TypeInv, TypeInv', Beside
  PROVE  /\ LenNow' \in Nat /\ LenNow' <= LenNow
         /\ writer' = writer
         /\ invalidations' + wiped'.invalidations = invalidations + wiped.invalidations
         /\ dropped' = dropped
<1>1. clock \in Nat
  BY Numbers DEF TypeInv
<1>2. clock' = clock \/ clock' = clock + 1
  BY DEF Beside, GetExpired, RemoverRemove, RemoverNotify, Janitor, JanitorStop,
         StatsCount, StatsPublish, Tick, timing, Reset, ResetEvictions,
         ResetInvalidations, ResetKeyCount
<1>3. \A k \in Keys : data'[k] = data[k] \/ data'[k] = Absent
  BY DEF Beside, GetExpired, RemoverRemove, RemoverNotify, Janitor, JanitorStop, Collect,
         StatsCount, StatsPublish, Tick, Without, Reset, ResetEvictions,
         ResetInvalidations, ResetKeyCount
<1>4. writer' = writer /\ dropped' = dropped
  BY DEF Beside, GetExpired, RemoverRemove, RemoverNotify, Janitor, JanitorStop,
         StatsCount, StatsPublish, Tick, accounts, Reset, ResetEvictions,
         ResetInvalidations, ResetKeyCount
<1>6. invalidations' + wiped'.invalidations = invalidations + wiped.invalidations
  <2>1. CASE ResetInvalidations
    <3>1. wiped'.invalidations = wiped.invalidations + invalidations /\ invalidations' = 0
      BY <2>1 DEF ResetInvalidations, TypeInv, Wiped
    <3>2. invalidations \in Nat /\ wiped.invalidations \in Nat
      BY DEF TypeInv, Wiped
    <3>3. QED BY <3>1, <3>2
  <2>2. CASE ResetEvictions
    BY <2>2 DEF ResetEvictions, TypeInv, Wiped
  <2>3. CASE UNCHANGED <<invalidations, wiped>>
    BY <2>3
  <2>4. QED
    BY <2>1, <2>2, <2>3
    DEF Beside, GetExpired, RemoverRemove, RemoverNotify, Janitor, JanitorStop,
        StatsCount, StatsPublish, Tick, accounts, zeroing, Reset, ResetKeyCount
<1>5. QED BY <1>1, <1>2, <1>3, <1>4, <1>6, FewerLive

\* An empty store has no live key.
LEMMA EmptyStore ==
  ASSUME data' = Without(Keys)
  PROVE  LenNow' = 0
<1>1. {k \in Keys : Live(k)}' = {}
  BY DEF Live, Without
<1>2. QED BY <1>1, FS_EmptySet DEF LenNow

-----------------------------------------------------------------------------
(* Invalidations.                                                          *)

LEMMA InvalidationInit == Init => InvalidationInv
BY DEF Init, InvalidationInv, InvalidationsCounted, Pending, At

\* What a writer has still to count, by the step it is at.
LEMMA PendingIs ==
  ASSUME TypeInv
  PROVE  /\ invalidations \in Nat /\ wiped.invalidations \in Nat /\ dropped \in Nat
         /\ Pending \in Nat
         /\ writer # Idle => writer.n \in Nat
         /\ writer # Idle /\ writer.step = "invalidate" => Pending = writer.n
         /\ (writer = Idle \/ writer.step # "invalidate") => Pending = 0
<1>1. writer # Idle => writer.n \in Nat
  BY Finite, FS_CardinalityType DEF TypeInv, WriterStates
<1>2. QED BY <1>1 DEF TypeInv, Wiped, Pending

LEMMA InvalidationStep ==
  TypeInv /\ TypeInv' /\ InvalidationInv /\ [Next]_vars => InvalidationInv'
<1> SUFFICES ASSUME TypeInv, TypeInv', InvalidationInv, [Next]_vars
             PROVE  InvalidationInv'
  OBVIOUS
<1> USE DEF InvalidationInv, InvalidationsCounted
<1>0. /\ invalidations \in Nat /\ wiped.invalidations \in Nat /\ dropped \in Nat
      /\ Pending \in Nat
  BY PendingIs
<1>p. /\ invalidations' \in Nat /\ wiped'.invalidations \in Nat /\ Pending' \in Nat
      /\ writer' # Idle /\ writer'.step = "invalidate" => Pending' = writer'.n
  <2>1. writer' # Idle => writer'.n \in Nat
    BY Finite, FS_CardinalityType DEF TypeInv, WriterStates
  <2>2. QED BY <2>1 DEF TypeInv, Wiped, Pending
<1>q. ASSUME writer = Idle \/ writer.step # "invalidate", ~At("Clear", "clear")',
             UNCHANGED <<invalidations, wiped, dropped>>
      PROVE  InvalidationInv'
  <2>1. Pending = 0
    BY <1>q, PendingIs
  <2>2. QED BY <1>0, <1>p, <1>q, <2>1
<1>1. ASSUME NEW op \in Ops, NEW k \in Keys, NEW ttl \in TTLs, Begin(op, k, ttl)
      PROVE  InvalidationInv'
  <2>1. writer = Idle /\ UNCHANGED <<invalidations, wiped, dropped>> /\ writer'.step = "store"
    BY <1>1 DEF Begin, zeroing
  <2>2. QED BY <1>q, <2>1 DEF At
<1>2. CASE StoreSet \/ StoreCleanup
  <2>1. /\ writer # Idle /\ writer.step = "store" /\ writer' = [writer EXCEPT !.step = "count"]
        /\ UNCHANGED <<invalidations, wiped, dropped>>
    BY <1>2 DEF StoreSet, StoreCleanup, Proceed, At, accounts, zeroing
  <2>2. writer'.step = "count"
    BY <2>1 DEF TypeInv, WriterStates
  <2>3. QED BY <1>q, <2>1, <2>2 DEF At
<1>3. CASE StoreDelete
  <2> DEFINE live == ({writer.key} \intersect Held) \ Expired
  <2>1. live \subseteq {writer.key} /\ IsFiniteSet({writer.key})
    BY FS_Singleton
  <2>2. Cardinality(live) \in Nat /\ Cardinality(live) <= Cardinality({writer.key})
    BY <2>1, FS_Subset, FS_CardinalityType
  <2>3. Cardinality({writer.key}) = 1
    BY FS_Singleton
  <2>4. /\ dropped' = dropped + Cardinality(live) /\ writer # Idle /\ writer.step = "store"
        /\ writer' = [writer EXCEPT !.step = "invalidate", !.n = 1]
        /\ UNCHANGED <<invalidations, wiped>>
    BY <1>3 DEF StoreDelete, At, zeroing
  <2>5. writer' \in WriterStates /\ writer'.step = "invalidate" /\ writer'.n = 1
    BY <2>4, OneKey DEF TypeInv, WriterStates
  <2>6. Pending = 0 /\ Pending' = 1
    BY <1>p, <2>4, <2>5, IdleDistinct, PendingIs
  <2> HIDE DEF live
  <2>7. QED BY <1>0, <2>2, <2>3, <2>4, <2>5, <2>6 DEF At
<1>4. CASE ClearKeys
  <2>1. LenNow' = LenNow
    BY <1>4 DEF ClearKeys, LenNow, Live, timing
  <2>2. writer # Idle /\ writer.step = "store" /\ UNCHANGED <<invalidations, wiped, dropped>>
    BY <1>4 DEF ClearKeys, At, accounts, zeroing
  <2>3. writer'.n = LenNow
    BY <1>4 DEF ClearKeys, TypeInv, WriterStates
  <2>4. Pending = 0
    BY <2>2, PendingIs
  <2>5. QED BY <1>0, <1>p, <2>1, <2>2, <2>3, <2>4, Sizes
<1>5. CASE StoreClear
  <2>1. /\ writer # Idle /\ writer.step = "clear" /\ LenNow <= writer.n
        /\ writer' = [writer EXCEPT !.step = "invalidate"]
        /\ dropped' = dropped + LenNow /\ UNCHANGED <<invalidations, wiped>>
    BY <1>5 DEF StoreClear, Proceed, At, zeroing
  <2>2. writer' \in WriterStates /\ writer'.step = "invalidate" /\ writer'.n = writer.n
    BY <2>1 DEF TypeInv, WriterStates
  <2>3. Pending = 0 /\ Pending' = writer.n /\ writer.n \in Nat
    BY <1>p, <2>1, <2>2, IdleDistinct, PendingIs
  <2>4. QED BY <1>0, <2>1, <2>2, <2>3, Sizes DEF At
<1>6. CASE StoreClose \/ Count \/ Publish
  <2>1. writer # Idle /\ writer.step # "invalidate" /\ UNCHANGED <<invalidations, wiped, dropped>>
    BY <1>6 DEF StoreClose, Count, Publish, At, accounts, zeroing
  <2>2. ~At("Clear", "clear")'
    BY <1>6 DEF StoreClose, Count, Publish, At, TypeInv, WriterStates
  <2>3. QED BY <1>q, <2>1, <2>2
<1>10. CASE Invalidate
  <2>1. /\ writer \in WriterStates /\ writer # Idle /\ writer.step = "invalidate"
        /\ Pending = writer.n /\ writer.n \in Nat /\ UNCHANGED <<wiped, dropped>>
    BY <1>10, PendingIs DEF Invalidate, TypeInv, accounts, zeroing
  <2>2. CASE writer.n > 0 /\ invalidations' = invalidations + 1 /\ writer' = [writer EXCEPT !.n = @ - 1]
    <3>1. writer' \in WriterStates
      BY <2>1, <2>2, Finite, FS_CardinalityType DEF WriterStates
    <3>2. writer'.step = "invalidate" /\ writer'.n = writer.n - 1 /\ writer' # Idle
      BY <2>1, <2>2, <3>1, IdleDistinct DEF WriterStates
    <3>3. Pending' = writer.n - 1
      BY <1>p, <3>2
    <3>4. QED BY <1>0, <2>1, <2>2, <3>2, <3>3 DEF At
  <2>3. CASE writer.n = 0 /\ Proceed("count") /\ UNCHANGED invalidations
    <3>1. writer'.step = "count"
      BY <2>1, <2>3 DEF Proceed, WriterStates
    <3>2. QED BY <1>0, <1>p, <2>1, <2>3, <3>1 DEF At
  <2>4. QED BY <1>10, <2>2, <2>3 DEF Invalidate
<1>7. CASE Beside
  <2>1. /\ LenNow' \in Nat /\ LenNow' <= LenNow /\ writer' = writer /\ dropped' = dropped
        /\ invalidations' + wiped'.invalidations = invalidations + wiped.invalidations
    BY <1>7, BesideShrinks
  <2>2. Pending' = Pending
    BY <2>1 DEF Pending
  <2>3. At("Clear", "clear") => writer.n \in Nat
    BY PendingIs DEF At
  <2>4. QED BY <1>0, <1>p, <2>1, <2>2, <2>3, Sizes DEF At
<1>8. CASE UNCHANGED vars
  BY <1>8 DEF vars, LenNow, Live, Pending, At
<1>9. QED
  BY <1>1, <1>2, <1>3, <1>4, <1>5, <1>6, <1>7, <1>8, <1>10 DEF Next, Write, Beside

\* Stats.Invalidations, what its writer has still to count and what Resets took
\* away are never less than the live entries that Delete and Clear have taken
\* out, however the janitor, the goroutines of Get and Reset come between their
\* steps, for any keys, capacity and store.
THEOREM InvalidationsNotShort == Spec => []InvalidationsCounted
<1>1. InvalidationInv => InvalidationsCounted
  BY DEF InvalidationInv
<1>2. QED
  BY <1>1, TypeInit, TypeStep, InvalidationInit, InvalidationStep, PTL DEF Spec

-----------------------------------------------------------------------------
(* The number of keys.                                                     *)

LEMMA KeyCountInit == Init => KeyCountInv
<1> SUFFICES ASSUME Init PROVE KeyCountInv
  OBVIOUS
<1>1. {k \in Keys : Live(k)} = {}
  BY DEF Init, Live
<1>2. LenNow = 0
  BY <1>1, FS_EmptySet DEF LenNow
<1>3. QED BY <1>2 DEF Init, KeyCountInv, KeyCountNotBehind

\* The counts in the hands of a writer and of a Stats() are numbers.
LEMMA CountsAreNumbers ==
  ASSUME TypeInv
  PROVE  /\ keyCount \in Nat /\ LenNow \in Nat
         /\ writer # Idle => writer.n \in Nat
         /\ stats # Idle => stats.n \in Nat /\ stats.mixed \in BOOLEAN
<1>1. writer # Idle => writer.n \in Nat
  BY Finite, FS_CardinalityType DEF TypeInv, WriterStates
<1>2. QED BY <1>1, Sizes DEF TypeInv, StatsStates

LEMMA KeyCountStep ==
  TypeInv /\ TypeInv' /\ KeyCountInv /\ [Next]_vars => KeyCountInv'
<1> SUFFICES ASSUME TypeInv, TypeInv', KeyCountInv, [Next]_vars
             PROVE  KeyCountInv'
  OBVIOUS
<1> USE DEF KeyCountInv, KeyCountNotBehind
<1>1. ASSUME NEW op \in Ops, NEW k \in Keys, NEW ttl \in TTLs, Begin(op, k, ttl)
      PROVE  KeyCountInv'
  <2> DEFINE w == [op |-> op, key |-> k, exp |-> IF op = "Set" THEN clock + ttl ELSE 0,
                   step |-> "store", n |-> 0]
  <2>1. writer' = w
    BY <1>1 DEF Begin
  <2>2. clock + ttl \in Expiries /\ 0 \in 0..Cardinality(Keys)
    BY Finite, FS_CardinalityType DEF TypeInv, Expiries
  <2>3. w \in WriterStates
    BY <2>2 DEF WriterStates
  <2>4. writer' # Idle /\ writer'.step = "store"
    BY <2>1, <2>3, IdleDistinct
  <2>5. stats' # Idle => stats'.mixed
    BY <1>1 DEF Begin, TypeInv, StatsStates
  <2>6. QED BY <2>4, <2>5
<1>2. ASSUME writer # Idle, writer' # Idle, writer'.step # "publish", stats' = stats
      PROVE  KeyCountInv'
  BY <1>2
<1>3. CASE StoreSet \/ StoreDelete \/ ClearKeys \/ StoreClear \/ StoreCleanup \/ Invalidate
  <2>1. writer # Idle /\ writer \in WriterStates /\ stats' = stats
    BY <1>3 DEF StoreSet, StoreDelete, ClearKeys, StoreClear, StoreCleanup, Invalidate, At, TypeInv
  <2>2. writer' \in WriterStates /\ writer'.step # "publish"
    <3>1. 1 \in 0..Cardinality(Keys)
      BY <2>1, OneKey
    <3>2. writer.n > 0 => writer.n - 1 \in 0..Cardinality(Keys)
      BY <2>1, Finite, FS_CardinalityType DEF WriterStates
    <3>3. QED
      BY <1>3, <2>1, <3>1, <3>2, Sizes
      DEF StoreSet, StoreDelete, ClearKeys, StoreClear, StoreCleanup, Invalidate, Proceed, At,
          WriterStates
  <2>3. QED BY <1>2, <2>1, <2>2, IdleDistinct
<1>4. CASE StoreClose
  <2>1. LenNow' = 0
    BY <1>4, EmptyStore DEF StoreClose
  <2>2. QED BY <1>4, <2>1, CountsAreNumbers DEF StoreClose, At
<1>5. CASE Count
  <2>1. writer' \in WriterStates /\ writer'.n = LenNow
    BY <1>5, Sizes DEF Count, TypeInv, WriterStates
  <2>2. LenNow' = LenNow
    BY <1>5 DEF Count, LenNow, Live, timing
  <2>3. QED BY <1>5, <2>1, <2>2, IdleDistinct, CountsAreNumbers DEF Count
<1>6. CASE Publish
  <2>1. LenNow' = LenNow
    BY <1>6 DEF Publish, LenNow, Live, timing
  <2>2. QED BY <1>6, <2>1 DEF Publish
<1>7. CASE StatsCount
  <2>1. stats' = [n |-> LenNow, mixed |-> writer # Idle] /\ LenNow' = LenNow
    BY <1>7 DEF StatsCount, LenNow, Live, timing
  <2>2. stats'.n = LenNow /\ (stats'.mixed <=> writer # Idle)
    BY <2>1
  <2>3. QED BY <1>7, <2>1, <2>2, CountsAreNumbers DEF StatsCount
<1>8. CASE StatsPublish
  <2>1. LenNow' = LenNow
    BY <1>8 DEF StatsPublish, LenNow, Live, timing
  <2>2. QED BY <1>8, <2>1, CountsAreNumbers DEF StatsPublish
<1>9. CASE /\ Beside
           /\ UNCHANGED <<writer, stats, keyCount, mixed>>
  BY <1>9, BesideShrinks, CountsAreNumbers
<1>10. ASSUME NEW k \in Keys, NEW r \in Removers,
              GetExpired(k, r)
       PROVE  KeyCountInv'
  BY <1>9, <1>10 DEF Beside, GetExpired
<1>11. CASE Janitor \/ JanitorStop \/ Tick
  BY <1>9, <1>11 DEF Beside, Janitor, JanitorStop, Tick
<1>12. CASE UNCHANGED vars
  BY <1>12 DEF vars, LenNow, Live
<1>13. ASSUME NEW r \in Removers, RemoverRemove(r) \/ RemoverNotify(r)
       PROVE  KeyCountInv'
  BY <1>9, <1>13 DEF Beside, RemoverRemove, RemoverNotify
<1>15. CASE Reset
  <2>1. CASE ResetKeyCount
    <3>1. LenNow' = LenNow /\ UNCHANGED <<writer, stats>> /\ mixed'
      BY <2>1 DEF ResetKeyCount, LenNow, Live, timing
    <3>2. QED BY <3>1
  <2>2. CASE ResetEvictions \/ ResetInvalidations
    BY <1>9, <1>15, <2>2 DEF Beside, ResetEvictions, ResetInvalidations
  <2>3. QED BY <1>15, <2>1, <2>2 DEF Reset
<1>14. QED
  BY <1>1, <1>3, <1>4, <1>5, <1>6, <1>7, <1>8, <1>10, <1>11, <1>12, <1>13, <1>15
  DEF Next, Write

\* When no writer is at work, Stats.KeyCount falls short of the live keys only
\* if it was last written by a Stats() among writers or by a Reset, for any keys,
\* capacity, store and callers.
THEOREM KeyCountKeepsUp == Spec => []KeyCountNotBehind
<1>1. KeyCountInv => KeyCountNotBehind
  BY DEF KeyCountInv
<1>2. QED
  BY <1>1, TypeInit, TypeStep, KeyCountInit, KeyCountStep, PTL DEF Spec

-----------------------------------------------------------------------------
(* The capacity, where nobody uses the empty key.                          *)

\* What a Set does to the store: nothing, one entry more, or one for another
\* whose eviction is counted.
LEMMA SetKeepsRoom ==
  ASSUME EmptyKey \notin Keys, TypeInv, TypeInv', WithinCapacity, StoreSet
  PROVE  LET k == writer.key
             new == Cardinality(Held') - Cardinality(Held)
         IN /\ WithinCapacity' /\ Cardinality(Held') \in Nat
            /\ new \in 0..1
            /\ entered' + evictions <= entered + new + evictions'
<1> DEFINE k == writer.key
<1>1. k \in Keys /\ writer.exp # Absent
  BY ExpiriesNat, AbsentDistinct DEF StoreSet, At, TypeInv, WriterStates
<1>2. EmptyKey \notin Held
  BY DEF Held
<1>3. Cardinality(Held) \in Nat /\ entered \in Nat /\ evictions \in Nat /\ Capacity \in Nat
  BY Sizes, Numbers DEF TypeInv
<1>4. CASE /\ Room
           /\ data' = [data EXCEPT ![k] = writer.exp]
           /\ UNCHANGED evictions
  <2>1. Held' = Held \union {k}
    BY <1>1, <1>4 DEF TypeInv, Held
  <2>2. Cardinality(Held') = IF k \in Held THEN Cardinality(Held) ELSE Cardinality(Held) + 1
    BY <2>1, Sizes, FS_AddElement
  <2>3. k \in Held \/ Cardinality(Held) < Capacity
    BY <1>2, <1>4 DEF Room
  <2>4. entered' = entered + (IF k \in Held THEN 0 ELSE 1)
    BY DEF StoreSet
  <2>5. WithinCapacity'
    BY <1>3, <2>2, <2>3 DEF WithinCapacity
  <2>6. QED BY <1>3, <1>4, <2>2, <2>4, <2>5
<1>5. CASE k \notin Held /\ \E v \in Held :
             /\ data' = [data EXCEPT ![v] = Absent, ![k] = writer.exp]
             /\ evictions' = evictions + Callback(v)
  <2>1. PICK v \in Held :
             /\ data' = [data EXCEPT ![v] = Absent, ![k] = writer.exp]
             /\ evictions' = evictions + Callback(v)
    BY <1>5
  <2>2. v # k /\ v \in Keys /\ v # EmptyKey
    BY <1>2, <1>5, <2>1 DEF Held
  <2>3. Held' = (Held \ {v}) \union {k}
    BY <1>1, <2>1, <2>2 DEF TypeInv, Held
  <2>4. IsFiniteSet(Held \ {v}) /\ Cardinality(Held \ {v}) = Cardinality(Held) - 1
    BY <2>1, Sizes, FS_RemoveElement
  <2>9. k \notin Held \ {v}
    BY <1>5
  <2>10. Cardinality(Held') = Cardinality(Held \ {v}) + 1
    BY <2>3, <2>4, <2>9, FS_AddElement
  <2>5. Cardinality(Held') = Cardinality(Held)
    BY <1>3, <2>4, <2>10
  <2>6. evictions' = evictions + 1
    BY <2>1, <2>2 DEF Callback
  <2>7. entered' = entered + 1
    BY <1>5 DEF StoreSet
  <2>8. QED BY <1>3, <2>5, <2>6, <2>7 DEF WithinCapacity
<1>6. QED BY <1>4, <1>5 DEF StoreSet

LEMMA CapacityInit == Init => CapacityInv
<1> SUFFICES ASSUME Init PROVE CapacityInv
  OBVIOUS
<1>1. Held = {}
  BY DEF Init, Held
<1>2. QED BY <1>1, FS_EmptySet, Numbers DEF Init, CapacityInv, WithinCapacity

\* Beside a Set, nothing makes the store grow.
LEMMA StoreShrinks ==
  ASSUME TypeInv, TypeInv', \A k \in Keys : data'[k] = data[k] \/ data'[k] = Absent
  PROVE  Cardinality(Held') \in Nat /\ Cardinality(Held') <= Cardinality(Held)
<1>1. Held' \subseteq Held
  BY DEF Held
<1>2. QED BY <1>1, SubsetSize

LEMMA CapacityStep ==
  ASSUME EmptyKey \notin Keys
  PROVE  TypeInv /\ TypeInv' /\ CapacityInv /\ [Next]_vars => CapacityInv'
<1> SUFFICES ASSUME TypeInv, TypeInv', CapacityInv, [Next]_vars
             PROVE  CapacityInv'
  OBVIOUS
<1> USE DEF CapacityInv
<1>0. LenNow \in Nat /\ LenNow <= Capacity /\ Capacity \in Nat /\ Cardinality(Held) \in Nat
  BY Sizes, Numbers DEF WithinCapacity
<1>1. ASSUME NEW op \in Ops, NEW k \in Keys, NEW ttl \in TTLs, Begin(op, k, ttl)
      PROVE  CapacityInv'
  <2>1. writer'.step = "store"
    BY <1>1 DEF Begin
  <2>2. stats' # Idle => stats'.n <= Capacity
    BY <1>1 DEF Begin, TypeInv, StatsStates
  <2>3. WithinCapacity' /\ keyCount' <= Capacity
    BY <1>1 DEF Begin, WithinCapacity, Held
  <2>4. QED BY <2>1, <2>2, <2>3
<1>2. CASE StoreSet
  <2>1. writer'.step = "count"
    BY <1>2 DEF StoreSet, Proceed, At, TypeInv, WriterStates
  <2>2. QED BY <1>2, <2>1, SetKeepsRoom DEF StoreSet
<1>3. CASE \A k \in Keys : data'[k] = data[k] \/ data'[k] = Absent
  <2>1. WithinCapacity'
    BY <1>0, <1>3, StoreShrinks DEF WithinCapacity
  <2>2. CASE StoreDelete \/ ClearKeys \/ StoreClear \/ StoreCleanup \/ Invalidate
    <3>1. writer' # Idle => writer'.step # "publish"
      BY <2>2 DEF StoreDelete, ClearKeys, StoreClear, StoreCleanup, Invalidate, Proceed, At,
                  TypeInv, WriterStates
    <3>2. QED
      BY <2>1, <2>2, <3>1 DEF StoreDelete, ClearKeys, StoreClear, StoreCleanup, Invalidate
  <2>3. CASE StoreClose
    BY <2>1, <2>3 DEF StoreClose
  <2>4. CASE Count
    <3>1. writer'.n = LenNow
      BY <2>4, Sizes DEF Count, TypeInv, WriterStates
    <3>2. QED BY <1>0, <2>1, <2>4, <3>1 DEF Count
  <2>5. CASE Publish
    BY <2>1, <2>5 DEF Publish
  <2>6. CASE StatsCount
    BY <1>0, <2>1, <2>6 DEF StatsCount
  <2>7. CASE StatsPublish
    BY <2>1, <2>7 DEF StatsPublish
  <2>8. CASE UNCHANGED <<writer, stats, keyCount>>
    BY <2>1, <2>8
  <2>10. CASE ResetKeyCount
    BY <1>0, <2>1, <2>10 DEF ResetKeyCount
  <2>9. QED
    BY <2>2, <2>3, <2>4, <2>5, <2>6, <2>7, <2>8, <2>10, <1>1, <1>2
    DEF Next, Write, GetExpired, RemoverRemove, RemoverNotify, Janitor, JanitorStop, Tick, vars,
        Reset, ResetEvictions, ResetInvalidations
<1>4. \/ StoreSet \/ \E op \in Ops, k \in Keys, ttl \in TTLs : Begin(op, k, ttl)
      \/ \A k \in Keys : data'[k] = data[k] \/ data'[k] = Absent
  BY DEF Next, Write, StoreDelete, ClearKeys, StoreClear, StoreCleanup, StoreClose, Count,
         Publish, GetExpired, RemoverRemove, RemoverNotify, Janitor, JanitorStop, Collect,
         StatsCount, StatsPublish, Tick, Without, vars, Invalidate, Reset, 
         ResetEvictions, ResetInvalidations, ResetKeyCount
<1>5. QED BY <1>1, <1>2, <1>3, <1>4

\* Whatever the keys but the empty one, the capacity, the callers and what
\* removes entries beside them, the store holds no more than MaxEntries.
THEOREM CapacityKept ==
  ASSUME EmptyKey \notin Keys
  PROVE  Spec => []WithinCapacity
<1>1. CapacityInv => WithinCapacity
  BY DEF CapacityInv
<1>2. QED
  BY <1>1, TypeInit, TypeStep, CapacityInit, CapacityStep, PTL DEF Spec

\* MemoryCache stays well typed, its counts of keys within the capacity.
THEOREM TypeCorrect ==
  ASSUME EmptyKey \notin Keys
  PROVE  Spec => []TypeOK
<1>1. TypeInv /\ CapacityInv => TypeOK
  BY Numbers DEF TypeInv, CapacityInv, TypeOK
<1>2. QED
  BY <1>1, TypeInit, TypeStep, CapacityInit, CapacityStep, PTL DEF Spec

-----------------------------------------------------------------------------
(* Losses.                                                                 *)

LEMMA LossInit == Init => LossesCounted
<1> SUFFICES ASSUME Init PROVE LossesCounted
  OBVIOUS
<1>1. Cardinality(Held) \in Nat /\ Cardinality(Notifying) \in Nat
  BY Sizes, NotifyingFinite
<1>2. wiped.evictions = 0
  BY DEF Init
<1>3. QED BY <1>1, <1>2 DEF Init, LossesCounted

LEMMA LossStep ==
  ASSUME EmptyKey \notin Keys
  PROVE  TypeInv /\ TypeInv' /\ CapacityInv /\ LossesCounted /\ [Next]_vars
           => LossesCounted'
<1> SUFFICES ASSUME TypeInv, TypeInv', CapacityInv, LossesCounted, [Next]_vars
             PROVE  LossesCounted'
  OBVIOUS
<1> USE DEF LossesCounted
<1> DEFINE held == Cardinality(Held)
           told == Cardinality(Notifying)
<1>0. /\ held \in Nat /\ told \in Nat
      /\ entered \in Nat /\ asked \in Nat /\ evictions \in Nat /\ wiped.evictions \in Nat
  BY Sizes, NotifyingFinite DEF TypeInv, Wiped
<1>1. CASE UNCHANGED <<data, removers, entered, asked, evictions, wiped>>
  <2>1. Held' = Held /\ Notifying' = Notifying
    BY <1>1 DEF Held, Notifying
  <2>2. QED BY <1>1, <2>1
<1>2. CASE StoreSet
  <2>1. Notifying' = Notifying /\ asked' = asked /\ wiped' = wiped
    BY <1>2 DEF StoreSet, Notifying, zeroing
  <2>2. /\ held' - held \in 0..1 /\ held' \in Nat
        /\ entered' + evictions <= entered + (held' - held) + evictions'
    BY <1>2, SetKeepsRoom DEF CapacityInv
  <2>3. entered' \in Nat /\ evictions' \in Nat
    BY DEF TypeInv
  <2>4. QED BY <1>0, <2>1, <2>2, <2>3
<1>3. CASE StoreDelete
  <2> DEFINE gone == {writer.key} \intersect Held
  <2>1. Cardinality(gone) \in Nat
    BY SubsetSize
  <2>2. held' = held - Cardinality(gone)
    BY <1>3, TakeOut DEF StoreDelete
  <2>3. /\ asked' = asked + Cardinality(gone) /\ entered' = entered
        /\ evictions' \in Nat /\ evictions' >= evictions /\ Notifying' = Notifying
        /\ wiped' = wiped
    BY <1>0, <1>3, <2>1 DEF StoreDelete, Callbacks, Notifying, zeroing
  <2>4. QED BY <1>0, <2>1, <2>2, <2>3
<1>4. CASE StoreClear \/ StoreClose
  <2>1. Held' = {}
    BY <1>4 DEF StoreClear, StoreClose, Without, Held
  <2>2. held' = 0
    BY <2>1, FS_EmptySet
  <2>3. /\ asked' = asked + held /\ entered' = entered
        /\ evictions' \in Nat /\ evictions' >= evictions /\ Notifying' = Notifying
        /\ wiped' = wiped
    BY <1>0, <1>4 DEF StoreClear, StoreClose, Callbacks, Notifying, zeroing
  <2>4. QED BY <1>0, <2>2, <2>3
<1>5. CASE StoreCleanup \/ Janitor
  <2>1. Collect /\ UNCHANGED <<removers, entered, asked, wiped>>
    BY <1>5 DEF StoreCleanup, Janitor, accounts, zeroing
  <2>2. /\ held' = held - Cardinality(Expired)
        /\ Cardinality(Expired) \in Nat /\ evictions' \in Nat
        /\ evictions' >= evictions + Cardinality(Expired)
    BY <2>1, CollectTakesExpired
  <2>3. Notifying' = Notifying
    BY <2>1 DEF Notifying
  <2>4. QED BY <1>0, <2>1, <2>2, <2>3
<1>6. ASSUME NEW k \in Keys, NEW r \in Removers, GetExpired(k, r)
      PROVE  LossesCounted'
  <2>1. /\ removers[r] = Idle /\ removers' = [removers EXCEPT ![r] = [key |-> k, step |-> "remove"]]
        /\ UNCHANGED <<data, entered, asked, evictions, wiped>>
    BY <1>6 DEF GetExpired, accounts, zeroing
  <2>2. Held' = Held /\ Notifying' = Notifying
    BY <2>1 DEF Held, Notifying, TypeInv
  <2>3. QED BY <2>1, <2>2
<1>7. ASSUME NEW r \in Removers, RemoverRemove(r)
      PROVE  LossesCounted'
  <2> DEFINE gone == {removers[r].key} \intersect Held
  <2>1. removers[r] \in RemoverStates /\ r \notin Notifying
    BY <1>7 DEF RemoverRemove, TypeInv, Notifying
  <2>2. removers'[r] \in RemoverStates /\ removers'[r].step = "notify"
    BY <1>7, <2>1 DEF RemoverRemove, TypeInv, RemoverStates
  <2>3. Notifying' = Notifying \union {r}
    BY <1>7, <2>2, IdleDistinct DEF RemoverRemove, TypeInv, Notifying
  <2>4. told' = told + 1
    BY <2>1, <2>3, NotifyingFinite, FS_AddElement
  <2>5. IsFiniteSet({removers[r].key}) /\ Cardinality({removers[r].key}) = 1
    BY FS_Singleton
  <2>6. Cardinality(gone) \in Nat /\ Cardinality(gone) <= 1
    BY <2>5, SubsetSize, FS_Subset
  <2>7. held' = held - Cardinality(gone)
    BY <1>7, TakeOut DEF RemoverRemove
  <2>8. /\ evictions' \in Nat /\ evictions' >= evictions
        /\ UNCHANGED <<entered, asked, wiped>>
    BY <1>0, <1>7, <2>6 DEF RemoverRemove, Callbacks, accounts, zeroing
  <2>9. QED BY <1>0, <2>4, <2>6, <2>7, <2>8
<1>8. ASSUME NEW r \in Removers, RemoverNotify(r)
      PROVE  LossesCounted'
  <2>1. r \in Notifying /\ removers' = [removers EXCEPT ![r] = Idle]
    BY <1>8 DEF RemoverNotify, Notifying
  <2>2. Notifying' = Notifying \ {r}
    BY <2>1 DEF TypeInv, Notifying
  <2>3. told' = told - 1
    BY <2>1, <2>2, NotifyingFinite, FS_RemoveElement
  <2>4. Held' = Held /\ UNCHANGED <<entered, asked, wiped>> /\ evictions' = evictions + 1
    BY <1>8 DEF RemoverNotify, Held, accounts, zeroing
  <2>5. QED BY <1>0, <2>3, <2>4
<1>10. CASE ResetEvictions
  <2>1. wiped'.evictions = wiped.evictions + evictions /\ evictions' = 0
    BY <1>10 DEF ResetEvictions, TypeInv, Wiped
  <2>2. Held' = Held /\ Notifying' = Notifying /\ UNCHANGED <<entered, asked>>
    BY <1>10 DEF ResetEvictions, Held, Notifying
  <2>3. QED BY <1>0, <2>1, <2>2
<1>11. CASE ResetInvalidations
  <2>1. wiped'.evictions = wiped.evictions
    BY <1>11 DEF ResetInvalidations, TypeInv, Wiped
  <2>2. Held' = Held /\ Notifying' = Notifying /\ UNCHANGED <<entered, asked, evictions>>
    BY <1>11 DEF ResetInvalidations, Held, Notifying
  <2>3. QED BY <2>1, <2>2
<1>9. QED
  BY <1>1, <1>2, <1>3, <1>4, <1>5, <1>6, <1>7, <1>8, <1>10, <1>11
  DEF Next, Write, Begin, ClearKeys, Invalidate, Count, Publish, JanitorStop, StatsCount,
      StatsPublish, Reset, ResetKeyCount, Tick, accounts, zeroing, vars

\* Whatever the callers, the janitor and the goroutines of Get do between each
\* other's steps, an entry that came in has stayed, was taken out on request,
\* or is counted as an eviction or about to be.
THEOREM NoSilentLoss ==
  ASSUME EmptyKey \notin Keys
  PROVE  Spec => []LossesCounted
<1>1. QED
  BY TypeInit, TypeStep, CapacityInit, CapacityStep, LossInit, LossStep, PTL DEF Spec

-----------------------------------------------------------------------------
(* Who takes live entries out.                                             *)

LEMMA LiveStep ==
  ASSUME TypeInv, CapacityInv, [Next]_vars,
         NEW k \in Keys, Live(k), data'[k] = Absent
  PROVE  \/ StoreDelete \/ StoreClear \/ StoreClose
         \/ StoreSet /\ writer.key # k /\ Cardinality(Held) = Capacity
         \/ \E r \in Removers : RemoverRemove(r) /\ removers[r].key = k
<1>1. data[k] # Absent /\ k \notin Expired
  BY DEF Live, Expired
<1>2. CASE StoreSet
  <2>1. writer.key \in Keys /\ writer.exp # Absent
    BY <1>2, ExpiriesNat, AbsentDistinct DEF StoreSet, At, TypeInv, WriterStates
  <2>2. data'[writer.key] = writer.exp
    BY <1>2, <2>1 DEF StoreSet, TypeInv, Held
  <2>3. writer.key # k
    BY <2>1, <2>2
  <2>4. Cardinality(Held) >= Capacity
    BY <1>1, <1>2, <2>3 DEF StoreSet, TypeInv
  <2>5. Cardinality(Held) = Capacity
    BY <2>4, Sizes, Numbers DEF CapacityInv, WithinCapacity
  <2>6. QED BY <1>2, <2>3, <2>5
<1>3. CASE Collect
  BY <1>1, <1>3 DEF Collect, Without
<1>4. ASSUME NEW r \in Removers, RemoverRemove(r)
      PROVE  removers[r].key = k
  BY <1>1, <1>4 DEF RemoverRemove, Without
<1>5. CASE UNCHANGED data
  BY <1>1, <1>5
<1>6. QED
  BY <1>2, <1>3, <1>4, <1>5
  DEF Next, Write, Begin, ClearKeys, Invalidate, StoreCleanup, Count, Publish, GetExpired,
      RemoverNotify, Janitor, JanitorStop, StatsCount, StatsPublish, Reset, 
      ResetEvictions, ResetInvalidations, ResetKeyCount, Tick, vars

\* A live entry goes only on request, for another key in a full store, or to a
\* goroutine that Get started for its key: no cleanup ever takes one, for any
\* keys but the empty one, TTLs and times.
THEOREM CleanupSparesLive ==
  ASSUME EmptyKey \notin Keys
  PROVE  Spec => LiveEntriesStay
<1>1. TypeInv /\ CapacityInv /\ [Next]_vars =>
        [\A k \in Keys : Live(k) /\ data'[k] = Absent =>
           \/ StoreDelete \/ StoreClear \/ StoreClose
           \/ StoreSet /\ writer.key # k /\ Cardinality(Held) = Capacity
           \/ \E r \in Removers : RemoverRemove(r) /\ removers[r].key = k]_data
  BY LiveStep
<1>2. QED
  BY <1>1, TypeInit, TypeStep, CapacityInit, CapacityStep, PTL DEF Spec, LiveEntriesStay
=============================================================================
