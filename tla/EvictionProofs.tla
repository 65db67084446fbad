--------------------------- MODULE EvictionProofs ---------------------------
(***************************************************************************)
(* The trackers of all three policies, for any keys, entries and capacity. *)
(* The slice of FIFO and the list of LRU are the same structure, a list of *)
(* the held keys once each, in the order of arrival for the one and of     *)
(* last use for the other; LFUStrategyProofs has what concerns LFU.        *)
(***************************************************************************)
EXTENDS Eviction, FiniteSetTheorems, SequenceTheorems, WellFoundedInduction, TLAPS

Least == INSTANCE LFUStrategyProofs

Held == {k \in Keys : data[k] # Absent}

\* s lists the keys of S, once each
Lists(s, S) ==
  /\ s \in Seq(Keys) /\ Len(s) = Cardinality(S)
  /\ \A i, j \in 1..Len(s) : s[i] = s[j] => i = j
  /\ \A x : x \in S <=> \E i \in 1..Len(s) : s[i] = x

\* x comes before y in s
Precedes(s, x, y) == \E i, j \in 1..Len(s) : i < j /\ s[i] = x /\ s[j] = y

ListInv ==
  /\ data \in [Keys -> Entries \union {Absent}]
  /\ report \in Keys \union {NoKey}
  /\ before \in SUBSET (Keys \X Keys)
  /\ Lists(order, Held) /\ Cardinality(Held) <= Capacity

\* the list is in the order of the history
ArrivalInv == \A x, y \in Keys : <<x, y>> \in before <=> Precedes(order, x, y)
RecencyInv == \A x, y \in Keys : <<x, y>> \in before <=> Precedes(order, y, x)

IInv ==
  \/ policy = "fifo" /\ ListInv /\ ArrivalInv
  \/ policy = "lru" /\ ListInv /\ RecencyInv
  \/ policy = "lfu" /\ Least!CountInv

-----------------------------------------------------------------------------
(* Lists of keys.                                                          *)

\* t is s without what stands at i
IsWithout(t, s, i) ==
  /\ t \in Seq(Keys) /\ Len(t) = Len(s) - 1
  /\ \A j \in 1..Len(t) : t[j] = IF j < i THEN s[j] ELSE s[j + 1]

LEMMA CutIsWithout ==
  ASSUME NEW s \in Seq(Keys), NEW i \in 1..Len(s)
  PROVE  IsWithout(SubSeq(s, 1, i - 1) \o SubSeq(s, i + 1, Len(s)), s, i)
<1> DEFINE a == SubSeq(s, 1, i - 1)
           b == SubSeq(s, i + 1, Len(s))
<1>1. Len(s) \in Nat /\ \A j \in 1..Len(s) : s[j] \in Keys
  BY LenProperties, ElementOfSeq
<1>2. a \in Seq(Keys) /\ Len(a) = i - 1 /\ \A j \in 1..(i - 1) : a[j] = s[j]
  <2>1. \A j \in 1..(i - 1) : s[j] \in Keys
    BY <1>1
  <2>2. 1 \in Int /\ i - 1 \in Int
    OBVIOUS
  <2>3. /\ a \in Seq(Keys) /\ Len(a) = IF 1 <= i - 1 THEN (i - 1) - 1 + 1 ELSE 0
        /\ \A j \in 1..((i - 1) - 1 + 1) : a[j] = s[1 + j - 1]
    BY <2>1, <2>2, SubSeqProperties
  <2>4. QED BY <2>3
<1>3. b \in Seq(Keys) /\ Len(b) = Len(s) - i /\ \A j \in 1..(Len(s) - i) : b[j] = s[i + j]
  <2>1. \A j \in (i + 1)..Len(s) : s[j] \in Keys
    BY <1>1
  <2>2. i + 1 \in Int /\ Len(s) \in Int
    BY <1>1
  <2>3. /\ b \in Seq(Keys) /\ Len(b) = IF i + 1 <= Len(s) THEN Len(s) - (i + 1) + 1 ELSE 0
        /\ \A j \in 1..(Len(s) - (i + 1) + 1) : b[j] = s[(i + 1) + j - 1]
    BY <2>1, <2>2, SubSeqProperties
  <2>4. QED BY <1>1, <2>3
<1> HIDE DEF a, b
<1>4. /\ a \o b \in Seq(Keys) /\ Len(a \o b) = Len(a) + Len(b)
      /\ \A j \in 1..(Len(a) + Len(b)) :
           (a \o b)[j] = IF j <= Len(a) THEN a[j] ELSE b[j - Len(a)]
  BY <1>2, <1>3, ConcatProperties
<1>5. Len(a \o b) = Len(s) - 1
  BY <1>1, <1>2, <1>3, <1>4
<1>6. ASSUME NEW j \in 1..Len(a \o b)
      PROVE  (a \o b)[j] = IF j < i THEN s[j] ELSE s[j + 1]
  <2>1. CASE j < i
    BY <1>1, <1>2, <1>3, <1>4, <1>5, <2>1
  <2>2. CASE j >= i
    <3>1. (a \o b)[j] = b[j - (i - 1)] /\ j - (i - 1) \in 1..(Len(s) - i)
      BY <1>1, <1>2, <1>3, <1>4, <1>5, <2>2
    <3>2. QED BY <1>1, <1>3, <2>2, <3>1
  <2>3. QED BY <2>1, <2>2
<1>7. QED BY <1>4, <1>5, <1>6 DEF IsWithout, a, b

LEMMA TailIsWithout ==
  ASSUME NEW s \in Seq(Keys), s # <<>>
  PROVE  IsWithout(Tail(s), s, 1) /\ 1 \in 1..Len(s) /\ Head(s) = s[1]
<1>1. Len(s) \in Nat \ {0}
  BY EmptySeq
<1>2. /\ Tail(s) \in Seq(Keys) /\ Len(Tail(s)) = Len(s) - 1
      /\ \A j \in 1..Len(Tail(s)) : Tail(s)[j] = s[j + 1]
  BY HeadTailProperties
<1>3. QED BY <1>1, <1>2 DEF IsWithout

LEMMA WithoutLists ==
  ASSUME NEW S, IsFiniteSet(S), NEW s, Lists(s, S), NEW i \in 1..Len(s),
         NEW t, IsWithout(t, s, i)
  PROVE  /\ s[i] \in S /\ Lists(t, S \ {s[i]})
         /\ \A x, y : Precedes(t, x, y) <=> Precedes(s, x, y) /\ x # s[i] /\ y # s[i]
<1>1. /\ Len(s) \in Nat /\ i \in 1..Len(s) /\ Len(t) = Len(s) - 1 /\ t \in Seq(Keys)
      /\ \A a, b \in 1..Len(s) : s[a] = s[b] => a = b
      /\ \A j \in 1..Len(t) : t[j] = IF j < i THEN s[j] ELSE s[j + 1]
      /\ \A x : x \in S <=> \E j \in 1..Len(s) : s[j] = x
  BY LenProperties DEF Lists, IsWithout
<1>2. s[i] \in S
  BY <1>1
<1> DEFINE at(j) == IF j < i THEN j ELSE j + 1
<1>3. \A j \in 1..Len(t) : at(j) \in 1..Len(s) /\ at(j) # i /\ t[j] = s[at(j)]
  BY <1>1
<1>4. \A a, b \in 1..Len(t) : a < b => at(a) < at(b)
  BY <1>1
<1>5. \A a \in 1..Len(s) : a # i => \E j \in 1..Len(t) : at(j) = a
  <2> SUFFICES ASSUME NEW a \in 1..Len(s), a # i
               PROVE  \E j \in 1..Len(t) : at(j) = a
    OBVIOUS
  <2>1. CASE a < i
    <3>1. a \in 1..Len(t) /\ at(a) = a
      BY <1>1, <2>1
    <3>2. QED BY <3>1
  <2>2. CASE a > i
    <3>1. a - 1 \in 1..Len(t) /\ at(a - 1) = a
      BY <1>1, <2>2
    <3>2. QED BY <3>1
  <2>3. QED BY <1>1, <2>1, <2>2
<1>6. \A a, b \in 1..Len(t) : at(a) < at(b) => a < b
  BY <1>1
<1>7. \A a, b \in 1..Len(t) : at(a) = at(b) => a = b
  BY <1>1
<1> HIDE DEF at
<1>8. \A a, b \in 1..Len(t) : t[a] = t[b] => a = b
  BY <1>1, <1>3, <1>7
<1>9. \A x : x \in S \ {s[i]} <=> \E j \in 1..Len(t) : t[j] = x
  <2>1. \A j \in 1..Len(t) : t[j] \in S /\ t[j] # s[i]
    BY <1>1, <1>3
  <2>2. ASSUME NEW x \in S, x # s[i]
        PROVE  \E j \in 1..Len(t) : t[j] = x
    <3>1. PICK a \in 1..Len(s) : s[a] = x
      BY <1>1
    <3>2. PICK j \in 1..Len(t) : at(j) = a
      BY <1>5, <2>2, <3>1
    <3>3. QED BY <1>3, <3>1, <3>2
  <2>3. QED BY <2>1, <2>2
<1>10. Len(t) = Cardinality(S \ {s[i]})
  <2>1. Cardinality(S \ {s[i]}) = Cardinality(S) - 1
    BY <1>2, FS_RemoveElement
  <2>2. Len(s) = Cardinality(S)
    BY DEF Lists
  <2>3. QED BY <1>1, <2>1, <2>2
<1>11. ASSUME NEW x, NEW y
       PROVE  Precedes(t, x, y) <=> Precedes(s, x, y) /\ x # s[i] /\ y # s[i]
  <2>1. Precedes(t, x, y) => Precedes(s, x, y) /\ x # s[i] /\ y # s[i]
    <3> SUFFICES ASSUME NEW a \in 1..Len(t), NEW b \in 1..Len(t), a < b, t[a] = x, t[b] = y
                 PROVE  Precedes(s, x, y) /\ x # s[i] /\ y # s[i]
      BY DEF Precedes
    <3>1. at(a) \in 1..Len(s) /\ at(b) \in 1..Len(s) /\ at(a) < at(b)
          /\ s[at(a)] = x /\ s[at(b)] = y /\ at(a) # i /\ at(b) # i
      BY <1>3, <1>4
    <3>2. QED BY <1>1, <3>1 DEF Precedes
  <2>2. Precedes(s, x, y) /\ x # s[i] /\ y # s[i] => Precedes(t, x, y)
    <3> SUFFICES ASSUME NEW a \in 1..Len(s), NEW b \in 1..Len(s), a < b, s[a] = x, s[b] = y,
                        x # s[i], y # s[i]
                 PROVE  Precedes(t, x, y)
      BY DEF Precedes
    <3>1. PICK c \in 1..Len(t) : at(c) = a
      BY <1>5
    <3>2. PICK d \in 1..Len(t) : at(d) = b
      BY <1>5
    <3>3. c < d /\ t[c] = x /\ t[d] = y
      BY <1>3, <1>6, <3>1, <3>2
    <3>4. QED BY <3>3 DEF Precedes
  <2>3. QED BY <2>1, <2>2
<1>12. Lists(t, S \ {s[i]})
  BY <1>1, <1>8, <1>9, <1>10 DEF Lists
<1>13. QED BY <1>2, <1>11, <1>12

\* k comes last
LEMMA AppendLists ==
  ASSUME NEW S, IsFiniteSet(S), NEW s, Lists(s, S), NEW k \in Keys, k \notin S
  PROVE  /\ Lists(Append(s, k), S \cup {k})
         /\ \A x, y : Precedes(Append(s, k), x, y) <=> Precedes(s, x, y) \/ (x \in S /\ y = k)
<1> DEFINE t == Append(s, k)
<1>1. /\ Len(s) \in Nat /\ s \in Seq(Keys)
      /\ \A a, b \in 1..Len(s) : s[a] = s[b] => a = b
      /\ \A x : x \in S <=> \E j \in 1..Len(s) : s[j] = x
  BY LenProperties DEF Lists
<1>2. /\ t \in Seq(Keys) /\ Len(t) = Len(s) + 1 /\ t[Len(s) + 1] = k
      /\ \A i \in 1..Len(s) : t[i] = s[i]
  BY <1>1, AppendProperties
<1> HIDE DEF t
<1>3. Len(t) = Cardinality(S \cup {k})
  <2>1. Cardinality(S \cup {k}) = Cardinality(S) + 1
    BY FS_AddElement
  <2>2. QED BY <1>2, <2>1 DEF Lists
<1>4. \A a, b \in 1..Len(t) : t[a] = t[b] => a = b
  BY <1>1, <1>2
<1>5. \A x : x \in S \cup {k} <=> \E j \in 1..Len(t) : t[j] = x
  BY <1>1, <1>2
<1>6. ASSUME NEW x, NEW y
      PROVE  Precedes(t, x, y) <=> Precedes(s, x, y) \/ (x \in S /\ y = k)
  <2>1. ASSUME NEW a \in 1..Len(t), NEW b \in 1..Len(t), a < b, t[a] = x, t[b] = y
        PROVE  Precedes(s, x, y) \/ (x \in S /\ y = k)
    <3>1. a \in 1..Len(s) /\ s[a] = x
      BY <1>1, <1>2, <2>1
    <3>2. CASE b = Len(s) + 1
      BY <1>1, <1>2, <2>1, <3>1, <3>2
    <3>3. CASE b # Len(s) + 1
      BY <1>1, <1>2, <2>1, <3>1, <3>3 DEF Precedes
    <3>4. QED BY <3>2, <3>3
  <2>2. ASSUME NEW a \in 1..Len(s), NEW b \in 1..Len(s), a < b, s[a] = x, s[b] = y
        PROVE  Precedes(t, x, y)
    BY <1>1, <1>2, <2>2 DEF Precedes
  <2>3. ASSUME x \in S, y = k
        PROVE  Precedes(t, x, y)
    <3>1. PICK a \in 1..Len(s) : s[a] = x
      BY <1>1, <2>3
    <3>2. a \in 1..Len(t) /\ Len(s) + 1 \in 1..Len(t) /\ a < Len(s) + 1
          /\ t[a] = x /\ t[Len(s) + 1] = y
      BY <1>1, <1>2, <2>3, <3>1
    <3>3. QED BY <3>2 DEF Precedes
  <2>4. QED BY <2>1, <2>2, <2>3 DEF Precedes
<1>7. Lists(t, S \cup {k})
  BY <1>2, <1>3, <1>4, <1>5 DEF Lists
<1>8. QED BY <1>6, <1>7 DEF t

\* k comes first
LEMMA PrependLists ==
  ASSUME NEW S, IsFiniteSet(S), NEW s, Lists(s, S), NEW k \in Keys, k \notin S
  PROVE  /\ Lists(<<k>> \o s, S \cup {k})
         /\ \A x, y : Precedes(<<k>> \o s, x, y) <=> Precedes(s, x, y) \/ (x = k /\ y \in S)
<1> DEFINE t == <<k>> \o s
<1>1. /\ Len(s) \in Nat /\ s \in Seq(Keys)
      /\ \A a, b \in 1..Len(s) : s[a] = s[b] => a = b
      /\ \A x : x \in S <=> \E j \in 1..Len(s) : s[j] = x
  BY LenProperties DEF Lists
<1>2. /\ t \in Seq(Keys) /\ Len(t) = Len(s) + 1 /\ t[1] = k
      /\ \A i \in 1..Len(s) : t[i + 1] = s[i]
  <2>1. <<k>> \in Seq(Keys) /\ Len(<<k>>) = 1 /\ <<k>>[1] = k
    OBVIOUS
  <2>2. /\ t \in Seq(Keys) /\ Len(t) = 1 + Len(s)
        /\ \A i \in 1..(1 + Len(s)) : t[i] = IF i <= 1 THEN <<k>>[i] ELSE s[i - 1]
    BY <1>1, <2>1, ConcatProperties
  <2> HIDE DEF t
  <2>3. QED BY <1>1, <2>1, <2>2
<1> HIDE DEF t
<1>3. Len(t) = Cardinality(S \cup {k})
  <2>1. Cardinality(S \cup {k}) = Cardinality(S) + 1
    BY FS_AddElement
  <2>2. QED BY <1>2, <2>1 DEF Lists
<1>p. \A a \in 1..Len(t) : a = 1 \/ (a - 1 \in 1..Len(s) /\ t[a] = s[a - 1])
  <2> SUFFICES ASSUME NEW a \in 1..Len(t), a # 1
               PROVE  a - 1 \in 1..Len(s) /\ t[a] = s[a - 1]
    OBVIOUS
  <2>1. a - 1 \in 1..Len(s) /\ (a - 1) + 1 = a
    BY <1>1, <1>2
  <2>2. QED BY <1>2, <2>1
<1>4. ASSUME NEW a \in 1..Len(t), NEW b \in 1..Len(t), t[a] = t[b]
      PROVE  a = b
  <2>1. \A c \in 1..Len(s) : s[c] # k
    BY <1>1
  <2>2. CASE a = 1 \/ b = 1
    BY <1>2, <1>4, <1>p, <2>1, <2>2
  <2>3. CASE a # 1 /\ b # 1
    <3>0. /\ a - 1 \in 1..Len(s) /\ t[a] = s[a - 1]
          /\ b - 1 \in 1..Len(s) /\ t[b] = s[b - 1]
      BY <1>4, <1>p, <2>3
    <3>1. a - 1 = b - 1
      BY <1>1, <1>4, <3>0
    <3>2. a \in Int /\ b \in Int
      BY <1>1, <1>2, <1>4
    <3>3. QED BY <3>1, <3>2
  <2>4. QED BY <2>2, <2>3
<1>5. \A x : x \in S \cup {k} <=> \E j \in 1..Len(t) : t[j] = x
  <2>1. \A j \in 1..Len(t) : t[j] \in S \cup {k}
    BY <1>1, <1>2, <1>p
  <2>2. \A j \in 1..Len(s) : j + 1 \in 1..Len(t) /\ t[j + 1] = s[j]
    BY <1>1, <1>2
  <2>3. 1 \in 1..Len(t)
    BY <1>1, <1>2
  <2>4. \A x \in S : \E j \in 1..Len(t) : t[j] = x
    <3> SUFFICES ASSUME NEW x \in S
                 PROVE  \E j \in 1..Len(t) : t[j] = x
      OBVIOUS
    <3>1. PICK j \in 1..Len(s) : s[j] = x
      BY <1>1
    <3>2. QED BY <2>2, <3>1
  <2>5. \E j \in 1..Len(t) : t[j] = k
    BY <1>2, <2>3
  <2>6. QED BY <2>1, <2>4, <2>5
<1>6. ASSUME NEW x, NEW y
      PROVE  Precedes(t, x, y) <=> Precedes(s, x, y) \/ (x = k /\ y \in S)
  <2>1. ASSUME NEW a \in 1..Len(t), NEW b \in 1..Len(t), a < b, t[a] = x, t[b] = y
        PROVE  Precedes(s, x, y) \/ (x = k /\ y \in S)
    <3>1. b - 1 \in 1..Len(s) /\ s[b - 1] = y
      BY <1>1, <1>2, <1>p, <2>1
    <3>2. CASE a = 1
      BY <1>1, <1>2, <2>1, <3>1, <3>2
    <3>3. CASE a # 1
      <4>1. a - 1 \in 1..Len(s) /\ s[a - 1] = x /\ a - 1 < b - 1
        BY <1>p, <2>1, <3>3
      <4>2. QED BY <3>1, <4>1 DEF Precedes
    <3>4. QED BY <3>2, <3>3
  <2>2. ASSUME NEW a \in 1..Len(s), NEW b \in 1..Len(s), a < b, s[a] = x, s[b] = y
        PROVE  Precedes(t, x, y)
    <3>1. a + 1 \in 1..Len(t) /\ b + 1 \in 1..Len(t) /\ a + 1 < b + 1
          /\ t[a + 1] = x /\ t[b + 1] = y
      BY <1>1, <1>2, <2>2
    <3>2. QED BY <3>1 DEF Precedes
  <2>3. ASSUME x = k, y \in S
        PROVE  Precedes(t, x, y)
    <3>1. PICK b \in 1..Len(s) : s[b] = y
      BY <1>1, <2>3
    <3>2. 1 \in 1..Len(t) /\ b + 1 \in 1..Len(t) /\ 1 < b + 1 /\ t[1] = x /\ t[b + 1] = y
      BY <1>1, <1>2, <2>3, <3>1
    <3>3. QED BY <3>2 DEF Precedes
  <2>4. QED BY <2>1, <2>2, <2>3 DEF Precedes
<1>7. Lists(t, S \cup {k})
  BY <1>2, <1>3, <1>4, <1>5 DEF Lists
<1>8. QED BY <1>6, <1>7 DEF t

LEMMA LeastExists ==
  ASSUME NEW I \in SUBSET Nat, I # {}
  PROVE  \E x \in I : \A y \in I : x <= y
<1>1. PICK x \in I : \A y \in I : ~(<<y, x>> \in OpToRel(<, Nat))
  BY NatLessThanWellFounded, WFMin
<1>2. ASSUME NEW y \in I
      PROVE  x <= y
  <2>1. x \in Nat /\ y \in Nat
    OBVIOUS
  <2>2. ~(y < x)
    BY <1>1, <2>1 DEF OpToRel
  <2>3. QED BY <2>1, <2>2
<1>3. QED BY <1>2

\* RemoveFirst cuts a key out where it stands, and leaves a list without it alone.
LEMMA RemoveFirstCuts ==
  ASSUME NEW S, IsFiniteSet(S), NEW s, Lists(s, S), NEW k
  PROVE  /\ k \in S =>
              /\ \E i \in 1..Len(s) : s[i] = k /\ IsWithout(FIFO!Seqs!RemoveFirst(s, k), s, i)
              /\ \E i \in 1..Len(s) : s[i] = k /\ IsWithout(LRU!Seqs!RemoveFirst(s, k), s, i)
         /\ k \notin S => LRU!Seqs!RemoveFirst(s, k) = s
<1> DEFINE I == {i \in 1..Len(s) : s[i] = k}
<1>1. /\ s \in Seq(Keys) /\ Len(s) \in Nat
      /\ k \in S <=> \E i \in 1..Len(s) : s[i] = k
  BY LenProperties DEF Lists
<1>2. CASE k \notin S
  BY <1>1, <1>2 DEF LRU!Seqs!RemoveFirst
<1>3. CASE k \in S
  <2>1. I \in SUBSET Nat /\ I # {} /\ \E i \in 1..Len(s) : s[i] = k
    BY <1>1, <1>3
  <2>2. /\ FIFO!Seqs!RemoveFirst(s, k) = FIFO!Seqs!RemoveAt(s, FIFO!Seqs!Min(I))
        /\ LRU!Seqs!RemoveFirst(s, k) = LRU!Seqs!RemoveAt(s, LRU!Seqs!Min(I))
    BY <2>1 DEF FIFO!Seqs!RemoveFirst, FIFO!Seqs!SelectInSeq,
                LRU!Seqs!RemoveFirst, LRU!Seqs!SelectInSeq
  <2>3. FIFO!Seqs!Min(I) \in I /\ LRU!Seqs!Min(I) \in I
    <3> HIDE DEF I
    <3>1. \E x \in I : \A y \in I : x <= y
      BY <2>1, LeastExists
    <3>2. QED BY <3>1 DEF FIFO!Seqs!Min, LRU!Seqs!Min
  <2>4. \A i \in I : /\ i \in 1..Len(s) /\ s[i] = k
                     /\ IsWithout(FIFO!Seqs!RemoveAt(s, i), s, i)
                     /\ IsWithout(LRU!Seqs!RemoveAt(s, i), s, i)
    BY <1>1, CutIsWithout DEF FIFO!Seqs!RemoveAt, LRU!Seqs!RemoveAt
  <2>5. QED BY <1>3, <2>2, <2>3, <2>4
<1>4. QED BY <1>2, <1>3

-----------------------------------------------------------------------------
(* FIFO.                                                                   *)

LEMMA HeldFacts ==
  /\ FIFO!Held = Held /\ LRU!Held = Held /\ Strategy!Held = Held
  /\ IsFiniteSet(Held) /\ Cardinality(Held) \in Nat
  /\ FIFO!Cardinality(Held) = Cardinality(Held)
  /\ LRU!Cardinality(Held) = Cardinality(Held)
  /\ Strategy!Cardinality(Held) = Cardinality(Held)
<1>1. FIFO!Held = Held /\ LRU!Held = Held /\ Strategy!Held = Held
  BY DEF FIFO!Held, LRU!Held, Strategy!Held, Held
<1>2. /\ FIFO!Cardinality(Held) = Cardinality(Held)
      /\ LRU!Cardinality(Held) = Cardinality(Held)
      /\ Strategy!Cardinality(Held) = Cardinality(Held)
  BY DEF FIFO!Cardinality, LRU!Cardinality, Strategy!Cardinality, Cardinality
<1>3. Held \subseteq Keys
  BY DEF Held
<1>4. QED BY <1>1, <1>2, <1>3, KeysFinite, FS_Subset, FS_CardinalityType

\* What a step of a tracker is to the interface Strategy, and what it is to the
\* entries alone.
Allowed == Strategy!Next \/ UNCHANGED <<data, report>>
EntriesAllowed == Strategy!NextEntries \/ UNCHANGED data

LEMMA AllowedForEntries == Allowed => EntriesAllowed
BY DEF Allowed, EntriesAllowed, Strategy!Next, Strategy!NextEntries

\* The keys in a list that is cut at i, and the list.
LEMMA HeadIsHeld ==
  ASSUME ListInv, Cardinality(Held) >= Capacity
  PROVE  /\ order \in Seq(Keys) /\ order # <<>> /\ Cardinality(Held) = Capacity
         /\ Len(order) \in Nat \ {0} /\ order[1] \in Held /\ order[Len(order)] \in Held
<1>1. Cardinality(Held) = Capacity
  BY HeldFacts, CapacityPositive DEF ListInv
<1>2. order \in Seq(Keys) /\ Len(order) = Capacity
  BY <1>1 DEF ListInv, Lists
<1>3. order # <<>>
  BY <1>2, CapacityPositive, EmptySeq
<1>4. 1 \in 1..Len(order) /\ Len(order) \in 1..Len(order)
  BY <1>2, CapacityPositive
<1>5. QED BY <1>1, <1>2, <1>3, <1>4, CapacityPositive DEF ListInv, Lists

LEMMA FIFOInsertStep ==
  ASSUME ListInv, ArrivalInv, NEW k \in Keys, NEW e \in Entries, FIFO!Insert(k, e)
  PROVE  ListInv' /\ ArrivalInv' /\ Allowed
<1> USE MarkersDistinct
<1>1. /\ data[k] = Absent /\ k \notin Held /\ Cardinality(Held) < Capacity
      /\ data' = [data EXCEPT ![k] = e] /\ order' = Append(order, k) /\ report' = NoKey
      /\ before' = {pair \in before : pair[1] \notin {} /\ pair[2] \notin {}}
                     \union ((Held \ {}) \X {k})
  BY HeldFacts DEF FIFO!Insert, FIFO!Arrive, Held
<1>2. Held' = Held \cup {k} /\ data' \in [Keys -> Entries \union {Absent}]
  BY <1>1 DEF Held, ListInv
<1>0. IsFiniteSet(Held) /\ Cardinality(Held) \in Nat /\ Lists(order, Held)
  BY HeldFacts DEF ListInv
<1>3. Cardinality(Held') <= Capacity
  <2>1. Cardinality(Held \cup {k}) = Cardinality(Held) + 1
    BY <1>0, <1>1, FS_AddElement
  <2>2. QED BY <1>0, <1>1, <1>2, <2>1, CapacityPositive
<1>4. /\ Lists(order', Held')
      /\ \A x, y : Precedes(order', x, y) <=> Precedes(order, x, y) \/ (x \in Held /\ y = k)
  <2>1. /\ Lists(Append(order, k), Held \cup {k})
        /\ \A x, y : Precedes(Append(order, k), x, y)
                        <=> Precedes(order, x, y) \/ (x \in Held /\ y = k)
    BY <1>0, <1>1, AppendLists
  <2>2. QED BY <1>1, <1>2, <2>1
<1>5. before' \in SUBSET (Keys \X Keys)
  BY <1>1 DEF ListInv, Held
<1>6. ListInv'
  BY <1>1, <1>2, <1>3, <1>4, <1>5 DEF ListInv
<1>7. ArrivalInv'
  <2> SUFFICES ASSUME NEW x \in Keys, NEW y \in Keys
               PROVE  <<x, y>> \in before' <=> Precedes(order', x, y)
    BY DEF ArrivalInv
  <2>1. <<x, y>> \in before' <=> <<x, y>> \in before \/ (x \in Held /\ y = k)
    BY <1>1
  <2>2. QED BY <1>4, <2>1 DEF ArrivalInv
<1>8. Strategy!Put(k, e) /\ report' = NoKey
  BY <1>1, HeldFacts DEF Strategy!Put
<1>9. QED BY <1>6, <1>7, <1>8 DEF Allowed, Strategy!Next

LEMMA FIFOEvictStep ==
  ASSUME ListInv, ArrivalInv, NEW k \in Keys, NEW e \in Entries, FIFO!Evict(k, e)
  PROVE  ListInv' /\ ArrivalInv' /\ Allowed
<1> DEFINE h == order[1]
<1> USE MarkersDistinct
<1>0. IsFiniteSet(Held) /\ Cardinality(Held) \in Nat /\ Lists(order, Held)
  BY HeldFacts DEF ListInv
<1>1. data[k] = Absent /\ k \notin Held /\ Cardinality(Held) >= Capacity
  BY HeldFacts DEF FIFO!Evict, Held
<1>2. /\ order \in Seq(Keys) /\ order # <<>> /\ Cardinality(Held) = Capacity
      /\ h \in Held /\ Head(order) = h /\ 1 \in 1..Len(order)
      /\ IsWithout(Tail(order), order, 1)
  BY <1>1, HeadIsHeld, TailIsWithout
<1> HIDE DEF h
<1>3. /\ data' = [data EXCEPT ![h] = Absent, ![k] = e] /\ order' = Append(Tail(order), k)
      /\ report' = h
      /\ before' = {pair \in before : pair[1] \notin {h} /\ pair[2] \notin {h}}
                     \union ((Held \ {h}) \X {k})
  BY <1>2, HeldFacts DEF FIFO!Evict, FIFO!Arrive
<1>4. Held' = (Held \ {h}) \cup {k} /\ data' \in [Keys -> Entries \union {Absent}]
  BY <1>1, <1>2, <1>3 DEF Held, ListInv
<1>5. /\ Lists(Tail(order), Held \ {h})
      /\ \A x, y : Precedes(Tail(order), x, y) <=> Precedes(order, x, y) /\ x # h /\ y # h
  BY <1>0, <1>2, WithoutLists DEF h
<1>6. /\ IsFiniteSet(Held \ {h}) /\ Cardinality(Held \ {h}) = Cardinality(Held) - 1
      /\ k \notin Held \ {h}
  BY <1>0, <1>1, <1>2, FS_RemoveElement
<1>7. /\ Lists(order', Held')
      /\ \A x, y : Precedes(order', x, y)
                    <=> Precedes(Tail(order), x, y) \/ (x \in Held \ {h} /\ y = k)
  <2>1. /\ Lists(Append(Tail(order), k), (Held \ {h}) \cup {k})
        /\ \A x, y : Precedes(Append(Tail(order), k), x, y)
                      <=> Precedes(Tail(order), x, y) \/ (x \in Held \ {h} /\ y = k)
    BY <1>5, <1>6, AppendLists
  <2>2. QED BY <1>3, <1>4, <2>1
<1>8. Cardinality(Held') <= Capacity
  <2>1. Cardinality((Held \ {h}) \cup {k}) = Cardinality(Held \ {h}) + 1
    BY <1>6, FS_AddElement
  <2>2. QED BY <1>0, <1>2, <1>4, <1>6, <2>1, CapacityPositive
<1>9. before' \in SUBSET (Keys \X Keys)
  BY <1>3 DEF ListInv, Held
<1>10. h \in Keys /\ data[h] # Absent
  BY <1>2 DEF Held
<1>11. ListInv'
  BY <1>3, <1>4, <1>7, <1>8, <1>9, <1>10 DEF ListInv
<1>12. ArrivalInv'
  <2> SUFFICES ASSUME NEW x \in Keys, NEW y \in Keys
               PROVE  <<x, y>> \in before' <=> Precedes(order', x, y)
    BY DEF ArrivalInv
  <2>1. <<x, y>> \in before' <=>
          (<<x, y>> \in before /\ x # h /\ y # h) \/ (x \in Held \ {h} /\ y = k)
    BY <1>3
  <2>2. QED BY <1>5, <1>7, <2>1 DEF ArrivalInv
<1>13. Strategy!Replace(h, k, e) /\ report' = h
  BY <1>1, <1>2, <1>3, <1>10, HeldFacts DEF Strategy!Replace
<1>14. QED BY <1>10, <1>11, <1>12, <1>13 DEF Allowed, Strategy!Next

\* A key taken out of both the map and the list.
LEMMA RemoveStep ==
  ASSUME ListInv, NEW k \in Keys, data[k] # Absent,
         data' = [data EXCEPT ![k] = Absent], report' = NoKey,
         NEW i \in 1..Len(order), order[i] = k, IsWithout(order', order, i),
         before' = {pair \in before : k \notin {pair[1], pair[2]}}
  PROVE  /\ ListInv' /\ Allowed
         /\ ArrivalInv => ArrivalInv'
         /\ RecencyInv => RecencyInv'
<1>0. IsFiniteSet(Held) /\ Cardinality(Held) \in Nat /\ Lists(order, Held) /\ k \in Held
  BY HeldFacts DEF ListInv, Held
<1>1. Held' = Held \ {k} /\ data' \in [Keys -> Entries \union {Absent}]
  BY DEF Held, ListInv
<1>2. /\ Lists(order', Held \ {k})
      /\ \A x, y : Precedes(order', x, y) <=> Precedes(order, x, y) /\ x # k /\ y # k
  BY <1>0, WithoutLists
<1>3. Cardinality(Held') <= Capacity
  <2>1. Cardinality(Held \ {k}) = Cardinality(Held) - 1
    BY <1>0, FS_RemoveElement
  <2>2. QED BY <1>0, <1>1, <2>1, CapacityPositive DEF ListInv
<1>4. ListInv'
  BY <1>1, <1>2, <1>3 DEF ListInv
<1>5. \A x, y : <<x, y>> \in before' <=> <<x, y>> \in before /\ x # k /\ y # k
  OBVIOUS
<1>6. (ArrivalInv => ArrivalInv') /\ (RecencyInv => RecencyInv')
  BY <1>2, <1>5 DEF ArrivalInv, RecencyInv
<1>7. Strategy!Remove(k) /\ report' = NoKey
  BY DEF Strategy!Remove
<1>8. QED BY <1>4, <1>6, <1>7 DEF Allowed, Strategy!Next

\* Everything taken out.
LEMMA ClearStep ==
  ASSUME data' = [k \in Keys |-> Absent], order' = <<>>, report' = NoKey, before' = {}
  PROVE  ListInv' /\ Allowed /\ ArrivalInv' /\ RecencyInv'
<1>1. Held' = {}
  BY DEF Held
<1>2. Cardinality(Held') = 0 /\ Len(order') = 0 /\ order' \in Seq(Keys)
  BY <1>1, FS_EmptySet, EmptySeq
<1>3. ListInv'
  BY <1>1, <1>2, CapacityPositive DEF ListInv, Lists
<1>4. ArrivalInv' /\ RecencyInv'
  BY <1>2 DEF ArrivalInv, RecencyInv, Precedes
<1>5. Strategy!Clear /\ report' = NoKey
  BY DEF Strategy!Clear
<1>6. QED BY <1>3, <1>4, <1>5 DEF Allowed, Strategy!Next

LEMMA FIFOStep ==
  ASSUME ListInv, ArrivalInv, FIFO!Next
  PROVE  ListInv' /\ ArrivalInv' /\ Allowed
<1>1. ASSUME NEW k \in Keys, NEW e \in Entries, FIFO!Update(k, e)
      PROVE  ListInv' /\ ArrivalInv' /\ Allowed
  <2>1. /\ data[k] # Absent /\ data' = [data EXCEPT ![k] = e] /\ report' = NoKey
        /\ UNCHANGED <<order, before>>
    BY <1>1 DEF FIFO!Update
  <2>2. Held' = Held /\ data' \in [Keys -> Entries \union {Absent}]
    BY <2>1, MarkersDistinct DEF Held, ListInv
  <2>3. ListInv' /\ ArrivalInv'
    BY <2>1, <2>2 DEF ListInv, ArrivalInv
  <2>4. Strategy!Put(k, e) /\ report' = NoKey
    BY <2>1 DEF Strategy!Put
  <2>5. QED BY <2>3, <2>4 DEF Allowed, Strategy!Next
<1>2. ASSUME NEW k \in Keys, FIFO!Remove(k)
      PROVE  ListInv' /\ ArrivalInv' /\ Allowed
  <2>1. /\ data[k] # Absent /\ data' = [data EXCEPT ![k] = Absent] /\ report' = NoKey
        /\ order' = FIFO!Seqs!RemoveFirst(order, k)
        /\ before' = {pair \in before : k \notin {pair[1], pair[2]}}
    BY <1>2 DEF FIFO!Remove
  <2>2. IsFiniteSet(Held) /\ Lists(order, Held) /\ k \in Held
    BY <2>1, HeldFacts DEF ListInv, Held
  <2>3. PICK i \in 1..Len(order) : order[i] = k /\ IsWithout(order', order, i)
    BY <2>1, <2>2, RemoveFirstCuts
  <2>4. QED BY <2>1, <2>3, RemoveStep
<1>3. CASE FIFO!Clear
  BY <1>3, ClearStep DEF FIFO!Clear
<1>4. QED
  BY <1>1, <1>2, <1>3, FIFOInsertStep, FIFOEvictStep DEF FIFO!Next

-----------------------------------------------------------------------------
(* LRU.                                                                    *)

\* b is the list without the keys in gone and without k, which comes first now.
LEMMA FrontStep ==
  ASSUME ListInv, RecencyInv, NEW k \in Keys, NEW gone,
         NEW b, Lists(b, Held \ (gone \cup {k})),
         \A x, y : Precedes(b, x, y) <=>
           Precedes(order, x, y) /\ x \notin gone \cup {k} /\ y \notin gone \cup {k},
         order' = <<k>> \o b, before' = LRU!Use(k, gone)
  PROVE  /\ Lists(order', (Held \ (gone \cup {k})) \cup {k}) /\ RecencyInv'
         /\ before' \in SUBSET (Keys \X Keys)
<1> DEFINE R == Held \ (gone \cup {k})
<1>1. IsFiniteSet(R) /\ k \notin R /\ R \subseteq Keys
  BY HeldFacts, FS_Subset DEF Held
<1>2. /\ Lists(order', R \cup {k})
      /\ \A x, y : Precedes(order', x, y) <=> Precedes(b, x, y) \/ (x = k /\ y \in R)
  <2> HIDE DEF R
  <2>1. Lists(b, R)
    BY DEF R
  <2>2. QED BY <1>1, <2>1, PrependLists
<1>3. before' = {pair \in before : pair[1] \notin gone \cup {k} /\ pair[2] \notin gone}
                  \union (R \X {k})
  BY HeldFacts DEF LRU!Use
<1>4. before' \in SUBSET (Keys \X Keys)
  BY <1>1, <1>3 DEF ListInv
<1>5. RecencyInv'
  <2> SUFFICES ASSUME NEW x \in Keys, NEW y \in Keys
               PROVE  <<x, y>> \in before' <=> Precedes(order', y, x)
    BY DEF RecencyInv
  <2>1. <<x, y>> \in before' <=> \/ <<x, y>> \in before /\ x \notin gone \cup {k} /\ y \notin gone
                                 \/ x \in R /\ y = k
    BY <1>3
  <2>2. <<x, y>> \in before <=> Precedes(order, y, x)
    BY DEF RecencyInv
  <2>3. Precedes(order, y, x) => x \in Held
    BY DEF ListInv, Lists, Precedes
  <2>4. Precedes(order', y, x) <=> Precedes(b, y, x) \/ (y = k /\ x \in R)
    BY <1>2
  <2>5. QED BY <2>1, <2>2, <2>3, <2>4
<1>6. QED BY <1>2, <1>4, <1>5

\* A held key that is used goes to the front.
LEMMA TouchStep ==
  ASSUME ListInv, RecencyInv, NEW k \in Keys, data[k] # Absent,
         order' = LRU!ToFront(k), before' = LRU!Use(k, {})
  PROVE  Lists(order', Held) /\ RecencyInv' /\ before' \in SUBSET (Keys \X Keys)
<1>1. IsFiniteSet(Held) /\ Lists(order, Held) /\ k \in Held
  BY HeldFacts DEF ListInv, Held
<1>2. PICK i \in 1..Len(order) : /\ order[i] = k
                                 /\ IsWithout(LRU!Seqs!RemoveFirst(order, k), order, i)
  BY <1>1, RemoveFirstCuts
<1> DEFINE b == LRU!Seqs!RemoveFirst(order, k)
<1>3. /\ Lists(b, Held \ {k})
      /\ \A x, y : Precedes(b, x, y) <=> Precedes(order, x, y) /\ x # k /\ y # k
  <2> HIDE DEF b
  <2>1. IsWithout(b, order, i) /\ order[i] = k
    BY <1>1, <1>2 DEF b
  <2>2. /\ Lists(b, Held \ {order[i]})
        /\ \A x, y : Precedes(b, x, y) <=> Precedes(order, x, y) /\ x # order[i] /\ y # order[i]
    BY <1>1, <1>2, <2>1, WithoutLists
  <2>3. QED BY <2>1, <2>2
<1>4. order' = <<k>> \o b
  BY DEF LRU!ToFront, LRU!Without
<1> HIDE DEF b
<1>5. Held \ ({} \cup {k}) = Held \ {k} /\ (Held \ {k}) \cup {k} = Held
  BY <1>1
<1>6. \A x, y : Precedes(b, x, y) <=>
        Precedes(order, x, y) /\ x \notin {} \cup {k} /\ y \notin {} \cup {k}
  BY <1>3
<1>7. QED BY <1>3, <1>4, <1>5, <1>6, FrontStep

LEMMA LRUInsertStep ==
  ASSUME ListInv, RecencyInv, NEW k \in Keys, NEW e \in Entries, LRU!Insert(k, e)
  PROVE  ListInv' /\ RecencyInv' /\ EntriesAllowed
<1> USE MarkersDistinct
<1>1. /\ data' = [data EXCEPT ![k] = e] /\ order' = LRU!ToFront(k)
      /\ report' = NoKey /\ before' = LRU!Use(k, {})
      /\ data[k] # Absent \/ Cardinality(Held) < Capacity
  BY HeldFacts DEF LRU!Insert
<1>2. Held' = Held \cup {k} /\ data' \in [Keys -> Entries \union {Absent}]
  BY <1>1 DEF Held, ListInv
<1>0. IsFiniteSet(Held) /\ Cardinality(Held) \in Nat /\ Lists(order, Held)
  BY HeldFacts DEF ListInv
<1>3. Strategy!Put(k, e)
  BY <1>1, HeldFacts DEF Strategy!Put
<1>4. CASE data[k] # Absent
  <2>1. Held' = Held
    BY <1>2, <1>4 DEF Held
  <2>2. Lists(order', Held) /\ RecencyInv' /\ before' \in SUBSET (Keys \X Keys)
    BY <1>1, <1>4, TouchStep
  <2>3. ListInv'
    BY <1>1, <1>2, <2>1, <2>2 DEF ListInv
  <2>4. QED BY <1>3, <2>2, <2>3 DEF EntriesAllowed, Strategy!NextEntries
<1>5. CASE data[k] = Absent
  <2>1. k \notin Held
    BY <1>5 DEF Held
  <2>2. order' = <<k>> \o order
    BY <1>0, <1>1, <2>1, RemoveFirstCuts DEF LRU!ToFront, LRU!Without
  <2>3. Held \ ({} \cup {k}) = Held
    BY <2>1
  <2>4. \A x, y : Precedes(order, x, y) <=>
          Precedes(order, x, y) /\ x \notin {} \cup {k} /\ y \notin {} \cup {k}
    BY <1>0, <2>1 DEF Precedes, Lists
  <2>5. /\ Lists(order', (Held \ ({} \cup {k})) \cup {k}) /\ RecencyInv'
        /\ before' \in SUBSET (Keys \X Keys)
    BY <1>0, <1>1, <2>2, <2>3, <2>4, FrontStep
  <2>6. Cardinality(Held') <= Capacity
    <3>1. Cardinality(Held \cup {k}) = Cardinality(Held) + 1
      BY <1>0, <2>1, FS_AddElement
    <3>2. QED BY <1>0, <1>1, <1>2, <1>5, <3>1, CapacityPositive
  <2>7. ListInv'
    BY <1>1, <1>2, <2>3, <2>5, <2>6 DEF ListInv
  <2>8. QED BY <1>3, <2>5, <2>7 DEF EntriesAllowed, Strategy!NextEntries
<1>6. QED BY <1>4, <1>5

LEMMA LRUEvictStep ==
  ASSUME ListInv, RecencyInv, NEW k \in Keys, NEW e \in Entries, LRU!Evict(k, e)
  PROVE  ListInv' /\ RecencyInv' /\ EntriesAllowed
<1> DEFINE h == order[Len(order)]
<1> USE MarkersDistinct
<1>0. IsFiniteSet(Held) /\ Cardinality(Held) \in Nat /\ Lists(order, Held)
  BY HeldFacts DEF ListInv
<1>1. data[k] = Absent /\ k \notin Held /\ Cardinality(Held) = Capacity
  BY HeldFacts DEF LRU!Evict, Held
<1>2. h \in Held
  BY <1>1, HeadIsHeld, CapacityPositive
<1>3. /\ data' = [data EXCEPT ![h] = Absent, ![k] = e] /\ report' = NoKey
      /\ order' = <<k>> \o LRU!Seqs!RemoveFirst(order, h) /\ before' = LRU!Use(k, {h})
  BY DEF LRU!Evict, LRU!Without
<1> HIDE DEF h
<1>4. Held' = (Held \ {h}) \cup {k} /\ data' \in [Keys -> Entries \union {Absent}]
  BY <1>1, <1>2, <1>3 DEF Held, ListInv
<1>5. PICK i \in 1..Len(order) : /\ order[i] = h
                                 /\ IsWithout(LRU!Seqs!RemoveFirst(order, h), order, i)
  BY <1>0, <1>2, RemoveFirstCuts
<1> DEFINE b == LRU!Seqs!RemoveFirst(order, h)
<1>6. /\ Lists(b, Held \ {h})
      /\ \A x, y : Precedes(b, x, y) <=> Precedes(order, x, y) /\ x # h /\ y # h
  <2> HIDE DEF b
  <2>1. IsWithout(b, order, i) /\ order[i] = h
    BY <1>0, <1>5 DEF b
  <2>2. /\ Lists(b, Held \ {order[i]})
        /\ \A x, y : Precedes(b, x, y) <=> Precedes(order, x, y) /\ x # order[i] /\ y # order[i]
    BY <1>0, <1>5, <2>1, WithoutLists
  <2>3. QED BY <2>1, <2>2
<1> HIDE DEF b
<1>7. Held \ ({h} \cup {k}) = Held \ {h}
  BY <1>1
<1>8. \A x, y : Precedes(b, x, y) <=>
        Precedes(order, x, y) /\ x \notin {h} \cup {k} /\ y \notin {h} \cup {k}
  <2>1. \A x, y : Precedes(order, x, y) => x \in Held /\ y \in Held
    BY <1>0 DEF Precedes, Lists
  <2>2. QED BY <1>1, <1>6, <2>1
<1>9. /\ Lists(order', (Held \ ({h} \cup {k})) \cup {k}) /\ RecencyInv'
      /\ before' \in SUBSET (Keys \X Keys)
  <2>1. order' = <<k>> \o b
    BY <1>3 DEF b
  <2>2. QED BY <1>3, <1>6, <1>7, <1>8, <2>1, FrontStep
<1>10. Cardinality(Held') <= Capacity
  <2>1. IsFiniteSet(Held \ {h}) /\ Cardinality(Held \ {h}) = Cardinality(Held) - 1
    BY <1>0, <1>2, FS_RemoveElement
  <2>2. Cardinality((Held \ {h}) \cup {k}) = Cardinality(Held \ {h}) + 1
    BY <1>1, <2>1, FS_AddElement
  <2>3. QED BY <1>0, <1>1, <1>4, <2>1, <2>2, CapacityPositive
<1>11. h \in Keys /\ data[h] # Absent
  BY <1>2 DEF Held
<1>12. ListInv'
  BY <1>3, <1>4, <1>7, <1>9, <1>10, <1>11 DEF ListInv
<1>13. Strategy!Replace(h, k, e)
  BY <1>1, <1>3, <1>11, HeldFacts DEF Strategy!Replace
<1>14. QED BY <1>9, <1>11, <1>12, <1>13 DEF EntriesAllowed, Strategy!NextEntries

LEMMA LRUStep ==
  ASSUME ListInv, RecencyInv, LRU!Next
  PROVE  ListInv' /\ RecencyInv' /\ EntriesAllowed
<1>1. ASSUME NEW k \in Keys, LRU!Get(k)
      PROVE  ListInv' /\ RecencyInv' /\ EntriesAllowed
  <2>1. /\ data[k] # Absent /\ order' = LRU!ToFront(k) /\ before' = LRU!Use(k, {})
        /\ UNCHANGED <<data, report>>
    BY <1>1 DEF LRU!Get
  <2>2. Lists(order', Held) /\ RecencyInv' /\ before' \in SUBSET (Keys \X Keys)
    BY <2>1, TouchStep
  <2>3. Held' = Held
    BY <2>1 DEF Held
  <2>4. QED BY <2>1, <2>2, <2>3 DEF ListInv, EntriesAllowed
<1>2. ASSUME NEW k \in Keys, LRU!Remove(k)
      PROVE  ListInv' /\ RecencyInv' /\ EntriesAllowed
  <2>1. /\ data[k] # Absent /\ data' = [data EXCEPT ![k] = Absent] /\ report' = NoKey
        /\ order' = LRU!Seqs!RemoveFirst(order, k)
        /\ before' = {pair \in before : k \notin {pair[1], pair[2]}}
    BY <1>2 DEF LRU!Remove, LRU!Without
  <2>2. IsFiniteSet(Held) /\ Lists(order, Held) /\ k \in Held
    BY <2>1, HeldFacts DEF ListInv, Held
  <2>3. PICK i \in 1..Len(order) : order[i] = k /\ IsWithout(order', order, i)
    BY <2>1, <2>2, RemoveFirstCuts
  <2>4. QED BY <2>1, <2>3, RemoveStep, AllowedForEntries
<1>3. CASE LRU!Clear
  BY <1>3, ClearStep, AllowedForEntries DEF LRU!Clear
<1>4. QED
  BY <1>1, <1>2, <1>3, LRUInsertStep, LRUEvictStep DEF LRU!Next

-----------------------------------------------------------------------------
(* LFU: what LFUStrategyProofs proves holds of the tracker in Eviction.    *)

LEMMA LeastAssumptions ==
  /\ Capacity \in Nat \ {0} /\ Least!IsFiniteSet(Keys)
  /\ Absent \notin Entries /\ NoKey \notin Keys /\ MaxFreq \in Nat \ {0}
<1>1. Least!IsFiniteSet(Keys)
  BY KeysFinite DEF Least!IsFiniteSet, IsFiniteSet
<1>2. QED BY <1>1, CapacityPositive, MarkersDistinct, MaxFreqPositive

LEMMA SameLFU ==
  /\ LFU!Init <=> Least!Init
  /\ LFU!Next => Least!Next
  /\ Least!StepAllowed <=> Allowed
  /\ Least!SizeKept <=> Cardinality(Held') <= Capacity
  /\ Least!RoomInv <=> Least!CountInv /\ Cardinality(Held) <= Capacity
<1>1. LFU!Init <=> Least!Init
  BY DEF LFU!Init, Least!Init
<1>2. LFU!Next => Least!Next
  BY DEF LFU!Next, Least!Next, LFU!Update, Least!Update, LFU!Insert, Least!Insert,
         LFU!Evict, Least!Evict, LFU!Get, Least!Get, LFU!Remove, Least!Remove,
         LFU!Clear, Least!Clear, LFU!Held, Least!Held, LFU!LeastUsed, Least!LeastUsed,
         LFU!Counted, Least!Counted, LFU!Cardinality, Least!Cardinality
<1>3. Least!StepAllowed <=> Allowed
  BY DEF Least!StepAllowed, Allowed, Least!Strategy!Next, Strategy!Next,
         Least!Strategy!Put, Strategy!Put, Least!Strategy!Replace, Strategy!Replace,
         Least!Strategy!Remove, Strategy!Remove, Least!Strategy!Clear, Strategy!Clear,
         Least!Strategy!Held, Strategy!Held, Least!Strategy!Cardinality, Strategy!Cardinality
<1>4. Least!SizeKept <=> Cardinality(Held') <= Capacity
  BY DEF Least!SizeKept, Least!Held, Held, Least!Cardinality, Cardinality
<1>5. Least!RoomInv <=> Least!CountInv /\ Cardinality(Held) <= Capacity
  BY DEF Least!RoomInv, Least!Held, Held, Least!Cardinality, Cardinality
<1>6. QED BY <1>1, <1>2, <1>3, <1>4, <1>5

-----------------------------------------------------------------------------
(* The theorems.                                                           *)

LEMMA IInvInit == Init => IInv
<1> SUFFICES ASSUME Init
             PROVE  IInv
  OBVIOUS
<1>1. /\ policy \in {"lru", "lfu", "fifo"} /\ data = [k \in Keys |-> Absent] /\ order = <<>>
      /\ report = NoKey /\ before = {} /\ LFU!Init
  BY DEF Init, FIFO!Init
<1>2. Held = {} /\ Cardinality({}) = 0 /\ Len(<<>>) = 0 /\ <<>> \in Seq(Keys)
  BY <1>1, FS_EmptySet, EmptySeq DEF Held
<1>3. ListInv
  BY <1>1, <1>2, CapacityPositive DEF ListInv, Lists
<1>4. ArrivalInv /\ RecencyInv
  BY <1>1, <1>2 DEF ArrivalInv, RecencyInv, Precedes
<1>5. Least!CountInv
  BY <1>1, Least!CountInit, LeastAssumptions, SameLFU
<1>6. QED BY <1>1, <1>3, <1>4, <1>5 DEF IInv

\* Each policy's part of the invariant.
LEMMA IInvStep == IInv /\ [Next]_vars => IInv'
<1> SUFFICES ASSUME IInv, [Next]_vars
             PROVE  IInv'
  OBVIOUS
<1>1. CASE UNCHANGED vars
  <2> USE <1>1 DEF vars
  <2>1. Held' = Held
    BY DEF Held
  <2>2. /\ ListInv => ListInv' /\ (ArrivalInv => ArrivalInv') /\ (RecencyInv => RecencyInv')
    BY <2>1 DEF ListInv, ArrivalInv, RecencyInv
  <2>3. Least!CountInv => Least!CountInv'
    BY Least!CountStep, LeastAssumptions DEF Least!vars
  <2>4. QED BY <2>2, <2>3 DEF IInv
<1>2. CASE policy = "fifo" /\ FIFO!Next /\ UNCHANGED policy
  BY <1>2, FIFOStep DEF IInv
<1>3. CASE policy = "lru" /\ LRU!Next /\ UNCHANGED policy
  BY <1>3, LRUStep DEF IInv
<1>4. CASE policy = "lfu" /\ LFU!Next /\ UNCHANGED policy
  <2>1. Least!CountInv'
    BY <1>4, SameLFU, Least!CountStep, LeastAssumptions DEF IInv
  <2>2. QED BY <1>4, <2>1 DEF IInv
<1>5. QED BY <1>1, <1>2, <1>3, <1>4 DEF Next

LEMMA Inductive == Spec => []IInv
BY IInvInit, IInvStep, PTL DEF Spec

\* The maps, lists and counts of the tracker in use keep their types; the list
\* of LRU never outgrows the capacity.
THEOREM TypeCorrect == Spec => []TypeOK
<1>1. IInv => TypeOK
  <2> SUFFICES ASSUME IInv
               PROVE  TypeOK
    OBVIOUS
  <2>1. ASSUME policy = "fifo"
        PROVE  FIFO!TypeOK
    <3>1. ListInv
      BY <2>1 DEF IInv
    <3>2. Len(order) <= FIFO!Cardinality(Keys)
      <4>1. Cardinality(Held) <= Cardinality(Keys)
        BY KeysFinite, FS_Subset DEF Held
      <4>2. FIFO!Cardinality(Keys) = Cardinality(Keys)
        BY DEF FIFO!Cardinality, Cardinality
      <4>3. QED BY <3>1, <4>1, <4>2 DEF ListInv, Lists
    <3>3. QED BY <3>1, <3>2 DEF FIFO!TypeOK, ListInv, Lists
  <2>2. ASSUME policy = "lru"
        PROVE  LRU!TypeOK
    BY <2>2 DEF IInv, LRU!TypeOK, ListInv, Lists
  <2>3. ASSUME policy = "lfu"
        PROVE  LFU!TypeOK
    BY <2>3 DEF IInv, Least!CountInv, Least!TypeOK, LFU!TypeOK
  <2>4. QED BY <2>1, <2>2, <2>3 DEF TypeOK
<1>2. QED BY <1>1, Inductive, PTL

\* It lists them in the order they came in: the victim has been held longest.
THEOREM ArrivalHolds == Spec => []OrderIsArrival
<1>1. IInv => OrderIsArrival
  <2> SUFFICES ASSUME IInv, policy = "fifo"
               PROVE  FIFO!OrderIsArrival
    BY DEF OrderIsArrival
  <2>1. order \in Seq(Keys) /\ ArrivalInv
    BY DEF IInv, ListInv, Lists
  <2>2. DOMAIN order = 1..Len(order) /\ \A i \in 1..Len(order) : order[i] \in Keys
    BY <2>1, LenProperties, ElementOfSeq
  <2>3. QED BY <2>1, <2>2 DEF FIFO!OrderIsArrival, ArrivalInv, Precedes
<1>2. QED BY <1>1, Inductive, PTL

\* Whatever the keys and the capacity, the slice of FIFO lists exactly the held
\* keys, once each, and the counts of LFU are of exactly the held keys.
THEOREM StructuresHold == Spec => []StructuresAgree
<1>1. IInv /\ policy = "fifo" => FIFO!OrderListsHeld
  <2> SUFFICES ASSUME IInv, policy = "fifo"
               PROVE  FIFO!OrderListsHeld
    OBVIOUS
  <2>1. /\ order \in Seq(Keys) /\ \A i, j \in 1..Len(order) : order[i] = order[j] => i = j
        /\ \A x : x \in Held <=> \E i \in 1..Len(order) : order[i] = x
    BY DEF IInv, ListInv, Lists
  <2>2. DOMAIN order = 1..Len(order)
    BY <2>1, LenProperties
  <2>3. QED BY <2>1, <2>2, HeldFacts DEF FIFO!OrderListsHeld
<1>2. IInv /\ policy = "lfu" => LFU!CountsAreOfHeld
  BY DEF IInv, Least!CountInv, Least!CountsAreOfHeld, LFU!CountsAreOfHeld,
         Least!Counted, LFU!Counted, Least!Held, LFU!Held
<1>3. IInv => StructuresAgree
  BY <1>1, <1>2 DEF StructuresAgree
<1>4. QED BY <1>3, Inductive, PTL

\* LFU evicts a key used no more often than any that stays.
THEOREM LeastUsedGoes == Spec => VictimLeastUsed
<1>1. IInv /\ [Next]_vars =>
        [policy = "lfu" => \A v, l \in LFU!Held :
           report' = v /\ l # v => uses[v] <= uses[l]]_<<data, report>>
  <2> SUFFICES ASSUME IInv, [Next]_vars, policy = "lfu", <<data, report>>' # <<data, report>>
               PROVE  \A v, l \in LFU!Held : report' = v /\ l # v => uses[v] <= uses[l]
    OBVIOUS
  <2>1. Least!CountInv /\ Least!Next
    BY SameLFU DEF IInv, Next, vars
  <2>2. \A v, l \in Least!Held : report' = v /\ l # v => uses[v] <= uses[l]
    BY <2>1, Least!VictimStep, LeastAssumptions
  <2>3. QED BY <2>2 DEF LFU!Held, Least!Held
<1>2. QED BY <1>1, Inductive, PTL DEF Spec, VictimLeastUsed

\* LRU evicts the key least recently added, updated or looked up.
THEOREM LeastRecentGoes == Spec => VictimLeastRecent
<1>1. IInv /\ [Next]_vars =>
        [policy = "lru" => \A v, l \in LRU!Held :
           LRU!Displaces(v) => <<l, v>> \notin before]_data
  <2> SUFFICES ASSUME IInv, [Next]_vars, policy = "lru", data' # data,
                      NEW v \in Held, NEW l \in Held, LRU!Displaces(v)
               PROVE  <<l, v>> \notin before
    BY HeldFacts
  <2>1. ListInv /\ RecencyInv /\ LRU!Next /\ v \in Keys /\ l \in Keys
    BY DEF IInv, Next, vars, Held
  <2>d. data[v] # Absent /\ data'[v] = Absent /\ \E k \in Keys : data[k] = Absent /\ data'[k] # Absent
    BY HeldFacts DEF LRU!Displaces, Held
  <2>2. PICK k \in Keys, e \in Entries : LRU!Evict(k, e)
    <3>1. ASSUME NEW k \in Keys, NEW e \in Entries
          PROVE  ~LRU!Insert(k, e)
      BY <2>1, <2>d, MarkersDistinct DEF LRU!Insert, ListInv
    <3>2. ASSUME NEW k \in Keys
          PROVE  ~LRU!Get(k) /\ ~LRU!Remove(k)
      BY <2>1, <2>d DEF LRU!Get, LRU!Remove, ListInv
    <3>3. ~LRU!Clear
      BY <2>d DEF LRU!Clear
    <3>4. QED BY <2>1, <3>1, <3>2, <3>3 DEF LRU!Next
  <2>3. v = order[Len(order)]
    <3>1. data' = [data EXCEPT ![order[Len(order)]] = Absent, ![k] = e]
      BY <2>2 DEF LRU!Evict
    <3>2. QED BY <2>1, <2>d, <3>1, MarkersDistinct DEF ListInv
  <2>4. /\ Len(order) \in Nat
        /\ \A i, j \in 1..Len(order) : order[i] = order[j] => i = j
    BY <2>1, LenProperties DEF ListInv, Lists
  <2>5. ~Precedes(order, v, l)
    BY <2>3, <2>4 DEF Precedes
  <2>6. QED BY <2>1, <2>5 DEF RecencyInv
<1>2. QED BY <1>1, Inductive, PTL DEF Spec, VictimLeastRecent

-----------------------------------------------------------------------------
(* Where nobody uses the empty key.                                        *)

RoomInv == IInv /\ Cardinality(Held) <= Capacity

LEMMA RoomInit == Init => RoomInv
<1> SUFFICES ASSUME Init
             PROVE  Cardinality(Held) <= Capacity
  BY IInvInit DEF RoomInv
<1>1. Held = {}
  BY DEF Init, FIFO!Init, Held
<1>2. QED BY <1>1, FS_EmptySet, CapacityPositive

LEMMA RoomStep ==
  ASSUME EmptyKey \notin Keys, RoomInv, [Next]_vars
  PROVE  RoomInv' /\ EntriesAllowed /\ (policy # "lru" => Allowed)
<1>1. IInv'
  BY IInvStep DEF RoomInv
<1>2. CASE UNCHANGED vars
  <2>1. Held' = Held /\ UNCHANGED <<data, report>>
    BY <1>2 DEF vars, Held
  <2>2. QED BY <1>1, <2>1 DEF RoomInv, Allowed, EntriesAllowed
<1>3. CASE policy = "fifo" /\ FIFO!Next
  <2>1. ListInv' /\ Allowed
    BY <1>3, FIFOStep DEF RoomInv, IInv
  <2>2. QED BY <1>1, <2>1, AllowedForEntries DEF RoomInv, ListInv
<1>4. CASE policy = "lru" /\ LRU!Next
  <2>1. ListInv' /\ EntriesAllowed
    BY <1>4, LRUStep DEF RoomInv, IInv
  <2>2. QED BY <1>1, <1>4, <2>1 DEF RoomInv, ListInv
<1>5. CASE policy = "lfu" /\ LFU!Next
  <2>1. Least!RoomInv /\ Least!Next
    BY <1>5, SameLFU DEF RoomInv, IInv
  <2>2. Least!SizeKept /\ Least!StepAllowed
    BY <2>1, Least!RoomStep, LeastAssumptions
  <2>3. QED BY <1>1, <2>2, SameLFU, AllowedForEntries DEF RoomInv
<1>6. QED BY <1>2, <1>3, <1>4, <1>5 DEF Next

\* A tracker of any policy loses entries only as the interface Strategy says,
\* one at a time, to an Add when it is full.
THEOREM TrackersKeepEntries ==
  ASSUME EmptyKey \notin Keys
  PROVE  Spec => EntriesKept
<1>1. Init => Strategy!InitEntries
  BY DEF Init, FIFO!Init, Strategy!InitEntries
<1>2. RoomInv /\ [Next]_vars => RoomInv' /\ [Strategy!NextEntries]_data
  BY RoomStep DEF EntriesAllowed
<1>3. QED BY <1>1, <1>2, RoomInit, PTL DEF Spec, EntriesKept, Strategy!EntriesSpec

\* FIFO and LFU also return the key of the entry that goes, and none when none
\* goes, as the interface says; LRU, excluded here, returns none in either case.
THEOREM TrackersImplementStrategy ==
  ASSUME EmptyKey \notin Keys
  PROVE  Spec => ImplementsStrategy
<1>1. RoomInv /\ [Next]_vars =>
        RoomInv' /\ [policy # "lru" => Strategy!Next]_<<data, report>>
  BY RoomStep DEF Allowed
<1>2. QED BY <1>1, RoomInit, PTL DEF Spec, ImplementsStrategy

-----------------------------------------------------------------------------
(* What the interface promises is enough.                                  *)

BoundInv ==
  /\ data \in [Keys -> Entries \union {Absent}]
  /\ Cardinality(Held) <= Capacity

LEMMA BoundInit == Strategy!InitEntries => BoundInv
<1> SUFFICES ASSUME Strategy!InitEntries PROVE BoundInv
  OBVIOUS
<1>1. Held = {} BY DEF Strategy!InitEntries, Held
<1>2. QED BY <1>1, FS_EmptySet, CapacityPositive DEF Strategy!InitEntries, BoundInv

\* Taking entries out leaves no more than there were.
LEMMA FewerHeld ==
  ASSUME NEW S, S \subseteq Held
  PROVE  Cardinality(S) \in Nat /\ Cardinality(S) <= Cardinality(Held)
BY HeldFacts, FS_Subset, FS_CardinalityType

LEMMA BoundStep == BoundInv /\ [Strategy!NextEntries]_data => BoundInv'
<1> SUFFICES ASSUME BoundInv, [Strategy!NextEntries]_data PROVE BoundInv'
  OBVIOUS
<1> USE MarkersDistinct, CapacityPositive DEF BoundInv
<1>1. ASSUME NEW k \in Keys, NEW e \in Entries, Strategy!Put(k, e)
      PROVE  BoundInv'
  <2>1. data' = [data EXCEPT ![k] = e] /\ Held' = Held \union {k}
    BY <1>1 DEF Strategy!Put, Held
  <2>2. k \in Held \/ Cardinality(Held) < Capacity
    BY <1>1, HeldFacts DEF Strategy!Put, Held
  <2>3. Cardinality(Held') = IF k \in Held THEN Cardinality(Held) ELSE Cardinality(Held) + 1
    BY <2>1, HeldFacts, FS_AddElement
  <2>4. QED BY <2>1, <2>2, <2>3, HeldFacts
<1>2. ASSUME NEW v \in Keys, NEW k \in Keys, NEW e \in Entries, Strategy!Replace(v, k, e)
      PROVE  BoundInv'
  <2>1. /\ data' = [data EXCEPT ![v] = Absent, ![k] = e]
        /\ v \in Held /\ k \notin Held /\ v # k
    BY <1>2 DEF Strategy!Replace, Held
  <2>2. Held' = (Held \ {v}) \union {k}
    BY <2>1 DEF Held
  <2>3. IsFiniteSet(Held \ {v}) /\ Cardinality(Held \ {v}) = Cardinality(Held) - 1
    BY <2>1, HeldFacts, FS_RemoveElement
  <2>4. Cardinality(Held') = Cardinality(Held \ {v}) + 1
    BY <2>1, <2>2, <2>3, FS_AddElement
  <2>5. QED BY <2>1, <2>3, <2>4, HeldFacts
<1>3. ASSUME NEW k \in Keys, Strategy!Remove(k)
      PROVE  BoundInv'
  <2>1. data' \in [Keys -> Entries \union {Absent}] /\ Held' \subseteq Held
    BY <1>3 DEF Strategy!Remove, Held
  <2>2. QED BY <2>1, FewerHeld, HeldFacts
<1>4. ASSUME Strategy!Clear
      PROVE  BoundInv'
  <2>1. data' \in [Keys -> Entries \union {Absent}] /\ Held' \subseteq Held
    BY <1>4 DEF Strategy!Clear, Held
  <2>2. QED BY <2>1, FewerHeld, HeldFacts
<1>5. CASE UNCHANGED data
  BY <1>5 DEF Held
<1>6. QED
  BY <1>1, <1>2, <1>3, <1>4, <1>5 DEF Strategy!NextEntries

\* Any tracker that treats its entries as Strategy promises holds at most Capacity
\* entries, for any set of keys and any capacity from one up.
THEOREM InterfaceBounds == Strategy!EntriesSpec => []Strategy!WithinCapacity
<1>1. BoundInv => Strategy!WithinCapacity
  BY HeldFacts DEF BoundInv, Strategy!WithinCapacity
<1>2. QED BY <1>1, BoundInit, BoundStep, PTL DEF Strategy!EntriesSpec

\* So no tracker of any policy holds more entries than its capacity.
THEOREM CapacityHolds ==
  ASSUME EmptyKey \notin Keys
  PROVE  Spec => []WithinCapacity
BY TrackersKeepEntries, InterfaceBounds, PTL DEF EntriesKept, WithinCapacity
=============================================================================
