------------------------- MODULE LFUStrategyProofs -------------------------
(***************************************************************************)
(* LFUStrategy for any keys, capacity and bound on the counts: its two     *)
(* maps agree, its victims are the least used, and, where nobody uses the  *)
(* empty key, it keeps the promises of the interface Strategy.             *)
(***************************************************************************)
EXTENDS LFUStrategy, FiniteSetTheorems, TLAPS

\* the counts are the uses, and belong to the keys held
CountInv == TypeOK /\ frequencies = uses /\ CountsAreOfHeld

LEMMA CountInit == Init => CountInv
BY MarkersDistinct, MaxFreqPositive DEF Init, CountInv, TypeOK, CountsAreOfHeld, Held, Counted

LEMMA CountStep == CountInv /\ [Next]_vars => CountInv'
<1> SUFFICES ASSUME CountInv, [Next]_vars PROVE CountInv'
  OBVIOUS
<1> USE MarkersDistinct, MaxFreqPositive DEF CountInv, TypeOK, CountsAreOfHeld, Held, Counted
<1>1. ASSUME NEW k \in Keys, NEW e \in Entries, Update(k, e)
      PROVE  CountInv'
  BY <1>1 DEF Update
<1>2. ASSUME NEW k \in Keys, NEW e \in Entries, Insert(k, e)
      PROVE  CountInv'
  BY <1>2 DEF Insert
<1>3. ASSUME NEW v \in Keys, NEW k \in Keys, NEW e \in Entries, Evict(v, k, e)
      PROVE  CountInv'
  BY <1>3 DEF Evict
<1>4. ASSUME NEW k \in Keys, Get(k)
      PROVE  CountInv'
  BY <1>4 DEF Get
<1>5. ASSUME NEW k \in Keys, Remove(k)
      PROVE  CountInv'
  BY <1>5 DEF Remove
<1>6. CASE Clear
  BY <1>6 DEF Clear
<1>7. CASE UNCHANGED vars
  BY <1>7 DEF vars
<1>8. QED
  BY <1>1, <1>2, <1>3, <1>4, <1>5, <1>6, <1>7 DEF Next

\* The two maps of LFUStrategy stay well typed and have the same keys, with
\* the empty key and without.
THEOREM MapsAgree == Spec => [](TypeOK /\ CountsAreOfHeld)
<1>1. CountInv => TypeOK /\ CountsAreOfHeld BY DEF CountInv
<1>2. QED BY <1>1, CountInit, CountStep, PTL DEF Spec

LEMMA VictimStep ==
  ASSUME CountInv, [Next]_vars
  PROVE  [\A v, l \in Held : report' = v /\ l # v => uses[v] <= uses[l]]_<<data, report>>
<1> SUFFICES ASSUME NEW v \in Held, NEW l \in Held, report' = v, l # v,
                    <<data, report>>' # <<data, report>>
             PROVE  uses[v] <= uses[l]
  OBVIOUS
<1>1. v \in Keys /\ l \in Keys /\ v # NoKey /\ l \in Counted
  BY MarkersDistinct DEF Held, CountInv, CountsAreOfHeld
<1>2. PICK k \in Keys, e \in Entries : \E x \in Keys : Evict(x, k, e)
  BY <1>1 DEF Next, vars, Update, Insert, Get, Remove, Clear
<1>3. v \in LeastUsed
  BY <1>2 DEF Evict
<1>4. QED BY <1>1, <1>3 DEF LeastUsed, CountInv

\* An Add never evicts a key that was used more often than one that stays.
THEOREM EvictsLeastUsed == Spec => VictimLeastUsed
<1>1. QED BY VictimStep, CountInit, CountStep, PTL DEF Spec, VictimLeastUsed

-----------------------------------------------------------------------------
\* One comes, one goes.
LEMMA SwapSize ==
  ASSUME NEW S, IsFiniteSet(S), NEW v \in S, NEW k, k \notin S
  PROVE  Cardinality((S \ {v}) \union {k}) = Cardinality(S)
<1>1. IsFiniteSet(S \ {v}) /\ Cardinality(S \ {v}) = Cardinality(S) - 1
  BY FS_RemoveElement
<1>2. Cardinality((S \ {v}) \union {k}) = Cardinality(S \ {v}) + 1
  BY <1>1, FS_AddElement
<1>3. Cardinality(S) \in Nat
  BY FS_CardinalityType
<1>4. QED BY <1>1, <1>2, <1>3

LEMMA HeldFinite == IsFiniteSet(Held) /\ Cardinality(Held) \in Nat
<1>1. Held \subseteq Keys BY DEF Held
<1>2. QED BY <1>1, KeysFinite, FS_Subset, FS_CardinalityType

\* Only the empty key lets an Add at capacity go without a victim.
RoomInv == CountInv /\ Cardinality(Held) <= Capacity

LEMMA RoomInit == Init => RoomInv
<1> SUFFICES ASSUME Init PROVE RoomInv
  OBVIOUS
<1>1. Held = {} BY DEF Init, Held
<1>2. QED BY <1>1, CountInit, FS_EmptySet, CapacityPositive DEF RoomInv

\* No step of LFUStrategy takes it over its capacity, and each is one of
\* Strategy or none.
SizeKept == Cardinality(Held') <= Capacity
StepAllowed == Strategy!Next \/ UNCHANGED <<data, report>>

LEMMA RoomStep ==
  ASSUME EmptyKey \notin Keys, RoomInv, [Next]_vars
  PROVE  CountInv' /\ SizeKept /\ StepAllowed
<1> USE MarkersDistinct, CapacityPositive
<1>0. CountInv'
  BY CountStep DEF RoomInv
<1>h. Strategy!Cardinality(Strategy!Held) = Cardinality(Held)
  <2>1. Strategy!Held = Held
    BY DEF Strategy!Held, Held
  <2>2. Strategy!Cardinality(Held) = Cardinality(Held)
    BY DEF Strategy!Cardinality, Cardinality
  <2>3. QED BY <2>1, <2>2
<1>t. data \in [Keys -> Entries \union {Absent}]
  BY DEF RoomInv, CountInv, TypeOK
<1>c. Cardinality(Held) \in Nat /\ Cardinality(Held) <= Capacity
  BY HeldFinite DEF RoomInv
<1>s. ASSUME Held' \subseteq Held
      PROVE  SizeKept
  <2>1. Cardinality(Held') \in Nat /\ Cardinality(Held') <= Cardinality(Held)
    BY <1>s, HeldFinite, FS_Subset, FS_CardinalityType
  <2>2. QED BY <1>c, <2>1 DEF SizeKept
<1>1. ASSUME NEW k \in Keys, NEW e \in Entries, Update(k, e)
      PROVE  SizeKept /\ StepAllowed
  <2>1. Held' \subseteq Held
    BY <1>1, <1>t DEF Update, Held
  <2>2. Strategy!Put(k, e) /\ report' = NoKey
    BY <1>1 DEF Update, Strategy!Put
  <2>3. QED BY <1>s, <2>1, <2>2 DEF StepAllowed, Strategy!Next
<1>2. ASSUME NEW k \in Keys, NEW e \in Entries, Insert(k, e)
      PROVE  SizeKept /\ StepAllowed
  <2>1. Cardinality(Held) < Capacity
    BY <1>2 DEF Insert, LeastUsed, Counted
  <2>2. Held' = Held \union {k} /\ k \notin Held
    BY <1>2, <1>t DEF Insert, Held
  <2>3. Cardinality(Held') = Cardinality(Held) + 1
    BY <2>2, HeldFinite, FS_AddElement
  <2>4. SizeKept
    BY <1>c, <2>1, <2>3 DEF SizeKept
  <2>5. Strategy!Put(k, e) /\ report' = NoKey
    BY <1>2, <1>h, <2>1 DEF Insert, Strategy!Put
  <2>6. QED BY <2>4, <2>5 DEF StepAllowed, Strategy!Next
<1>3. ASSUME NEW v \in Keys, NEW k \in Keys, NEW e \in Entries, Evict(v, k, e)
      PROVE  SizeKept /\ StepAllowed
  <2>1. v \in Held /\ k \notin Held
    BY <1>3 DEF Evict, LeastUsed, RoomInv, CountInv, CountsAreOfHeld, Held
  <2>2. Cardinality(Held) = Capacity
    BY <1>3, <1>c DEF Evict
  <2>3. Held' = (Held \ {v}) \union {k}
    BY <1>3, <1>t, <2>1 DEF Evict, Held
  <2>4. SizeKept
    BY <2>1, <2>2, <2>3, HeldFinite, SwapSize DEF SizeKept
  <2>5. data[k] = Absent /\ data[v] # Absent
    BY <2>1 DEF Held
  <2>6. Strategy!Replace(v, k, e) /\ report' = v
    BY <1>3, <1>h, <2>2, <2>5 DEF Evict, Strategy!Replace
  <2>7. QED BY <2>4, <2>6 DEF StepAllowed, Strategy!Next
<1>4. ASSUME NEW k \in Keys, Get(k)
      PROVE  SizeKept /\ StepAllowed
  <2>1. Held' \subseteq Held
    BY <1>4 DEF Get, Held
  <2>2. QED BY <1>4, <1>s, <2>1 DEF StepAllowed, Get
<1>5. ASSUME NEW k \in Keys, Remove(k)
      PROVE  SizeKept /\ StepAllowed
  <2>1. Held' \subseteq Held
    BY <1>5, <1>t DEF Remove, Held
  <2>2. Strategy!Remove(k) /\ report' = NoKey
    BY <1>5 DEF Remove, Strategy!Remove
  <2>3. QED BY <1>s, <2>1, <2>2 DEF StepAllowed, Strategy!Next
<1>6. CASE Clear
  <2>1. Held' \subseteq Held
    BY <1>6 DEF Clear, Held
  <2>2. Strategy!Clear /\ report' = NoKey
    BY <1>6 DEF Clear, Strategy!Clear
  <2>3. QED BY <1>0, <1>s, <2>1, <2>2 DEF StepAllowed, Strategy!Next
<1>7. CASE UNCHANGED vars
  <2>1. Held' \subseteq Held
    BY <1>7 DEF vars, Held
  <2>2. QED BY <1>0, <1>7, <1>s, <2>1 DEF StepAllowed, vars
<1>8. QED
  BY <1>0, <1>1, <1>2, <1>3, <1>4, <1>5, <1>6, <1>7 DEF Next

\* Where nobody stores under the empty key, LFUStrategy loses entries only as
\* the interface Strategy says, one reported victim at a time, when full.
THEOREM LFUImplementsStrategy ==
  ASSUME EmptyKey \notin Keys
  PROVE  Spec => ImplementsStrategy
<1>1. Init => Strategy!InitEntries /\ report = NoKey
  BY DEF Init, Strategy!InitEntries
<1>2. RoomInv /\ [Next]_vars => RoomInv' /\ [Strategy!Next]_<<data, report>>
  BY RoomStep DEF RoomInv, SizeKept, StepAllowed
<1>3. QED BY <1>1, <1>2, RoomInit, PTL DEF Spec, ImplementsStrategy, Strategy!Spec, Strategy!vars
=============================================================================
