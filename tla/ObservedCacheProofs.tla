------------------------- MODULE ObservedCacheProofs -------------------------
(***************************************************************************)
(* ObservedCache for any goroutines, keys, capacity and scenarios: that    *)
(* locks are let go, by whoever has them and on every path; that Close     *)
(* ends the reporter before the exporter, after an export of all that was  *)
(* counted; that what the debug handler reads is consistent; that hooks    *)
(* see every event, and count it before they log it.  The invariant says   *)
(* of the steps that a process has left which locks they free and take, in *)
(* what order, and how often they have still to count and to log an event.  *)
(***************************************************************************)
EXTENDS ObservedCache, FiniteSetTheorems, SequenceTheorems, WellFoundedInduction, TLAPS

-----------------------------------------------------------------------------
(* Sequences: what FlattenSeq answers.                                     *)

LEMMA Induction ==
  ASSUME NEW N \in SUBSET Nat, 0 \in N, \A n \in N : n + 1 \in N
  PROVE  N = Nat
<1> SUFFICES ASSUME Nat \ N # {} PROVE FALSE
  OBVIOUS
<1>1. PICK x \in Nat \ N : \A y \in Nat \ N : ~(<<y, x>> \in OpToRel(<, Nat))
  <2>1. Nat \ N \subseteq Nat
    OBVIOUS
  <2>2. QED BY <2>1, NatLessThanWellFounded, WFMin
<1>2. x # 0 /\ x - 1 \in Nat /\ x - 1 < x
  OBVIOUS
<1>3. x - 1 \notin N
  BY <1>2
<1>4. <<x - 1, x>> \in OpToRel(<, Nat)
  BY <1>2 DEF OpToRel
<1>5. QED BY <1>1, <1>2, <1>3, <1>4

\* f has the flattened beginnings of s up to the n-th
Flat(s, n, f) == f = [i \in 1..n |-> IF i = 1 THEN s[i] ELSE f[i - 1] \o s[i]]

LEMMA FlatExists ==
  ASSUME NEW s, NEW m \in Nat
  PROVE  \E f : Flat(s, m, f)
<1> DEFINE N == {n \in Nat : \E f : Flat(s, n, f)}
<1>1. 0 \in N
  <2>1. Flat(s, 0, [i \in {} |-> 0])
    BY DEF Flat
  <2>2. QED BY <2>1
<1>2. ASSUME NEW n \in N
      PROVE  n + 1 \in N
  <2>1. PICK f : Flat(s, n, f)
    OBVIOUS
  <2>2. n \in Nat
    OBVIOUS
  <2>3. DEFINE g == [i \in 1..(n + 1) |-> IF i \in 1..n THEN f[i]
                                         ELSE IF i = 1 THEN s[i] ELSE f[i - 1] \o s[i]]
  <2>4. ASSUME NEW i \in 1..(n + 1)
        PROVE  g[i] = IF i = 1 THEN s[i] ELSE g[i - 1] \o s[i]
    <3>1. CASE i \in 1..n
      <4>1. g[i] = f[i] /\ (i # 1 => g[i - 1] = f[i - 1])
        BY <2>2, <3>1
      <4>2. f[i] = IF i = 1 THEN s[i] ELSE f[i - 1] \o s[i]
        BY <2>1, <3>1 DEF Flat
      <4>3. QED BY <4>1, <4>2
    <3>2. CASE i = n + 1
      BY <2>2, <3>2
    <3>3. QED BY <2>2, <3>1, <3>2
  <2>5. Flat(s, n + 1, g)
    BY <2>4 DEF Flat
  <2>6. QED BY <2>2, <2>5
<1>3. N = Nat
  <2> HIDE DEF N
  <2>1. N \in SUBSET Nat
    BY DEF N
  <2>2. QED BY <1>1, <1>2, <2>1, Induction
<1>4. QED BY <1>3

LEMMA FlattenIs ==
  ASSUME NEW s, Len(s) \in Nat \ {0}
  PROVE  \E f : Flat(s, Len(s), f) /\ FlattenSeq(s) = f[Len(s)]
<1> DEFINE f == CHOOSE f : f = [i \in 1..Len(s) |-> IF i = 1 THEN s[i] ELSE f[i - 1] \o s[i]]
<1>1. Flat(s, Len(s), f)
  BY FlatExists DEF Flat
<1>2. FlattenSeq(s) = f[Len(s)]
  BY DEF FlattenSeq
<1>3. QED BY <1>1, <1>2

LEMMA FlatType ==
  ASSUME NEW T, NEW s \in Seq(Seq(T)), NEW f, Flat(s, Len(s), f)
  PROVE  \A n \in 1..Len(s) : f[n] \in Seq(T)
<1> DEFINE N == {n \in Nat : n \in 1..Len(s) => f[n] \in Seq(T)}
<1>1. 0 \in N
  OBVIOUS
<1>2. ASSUME NEW n \in N
      PROVE  n + 1 \in N
  <2>1. SUFFICES ASSUME n + 1 \in 1..Len(s) PROVE f[n + 1] \in Seq(T)
    OBVIOUS
  <2>2. s[n + 1] \in Seq(T) /\ Len(s) \in Nat
    BY <2>1, ElementOfSeq, LenProperties
  <2>3. f[n + 1] = IF n = 0 THEN s[n + 1] ELSE f[n] \o s[n + 1]
    <3>1. f[n + 1] = IF n + 1 = 1 THEN s[n + 1] ELSE f[(n + 1) - 1] \o s[n + 1]
      BY <2>1, Zenon DEF Flat
    <3>2. n \in Nat /\ (n + 1) - 1 = n
      OBVIOUS
    <3>3. QED BY <3>1, <3>2
  <2>4. n # 0 => f[n] \in Seq(T)
    BY <2>1, <2>2
  <2>5. n # 0 => f[n] \o s[n + 1] \in Seq(T)
    BY <2>2, <2>4, ConcatProperties
  <2>6. QED BY <2>2, <2>3, <2>5
<1>3. N = Nat
  <2> HIDE DEF N
  <2>1. N \in SUBSET Nat
    BY DEF N
  <2>2. QED BY <1>1, <1>2, <2>1, Induction
<1>4. QED BY <1>3, LenProperties

LEMMA FlattenType ==
  ASSUME NEW T, NEW s \in Seq(Seq(T))
  PROVE  FlattenSeq(s) \in Seq(T)
<1>1. Len(s) \in Nat /\ s \in [1..Len(s) -> Seq(T)]
  BY LenProperties
<1>2. CASE Len(s) = 0
  <2>1. s = <<>>
    BY <1>2, EmptySeq
  <2>2. FlattenSeq(s) = <<>>
    BY <1>2, <2>1 DEF FlattenSeq
  <2>3. QED BY <2>2
<1>3. CASE Len(s) # 0
  BY <1>1, <1>3, FlattenIs, FlatType
<1>4. QED BY <1>2, <1>3

-----------------------------------------------------------------------------
(* How many steps of a kind a sequence has.                                *)

Places(s, x) == {i \in 1..Len(s) : s[i].step = x}
Num(s, x) == Cardinality(Places(s, x))

LEMMA NumType ==
  ASSUME NEW T, NEW s \in Seq(T), NEW x
  PROVE  /\ IsFiniteSet(Places(s, x)) /\ Num(s, x) \in Nat
         /\ Num(s, x) = 0 <=> \A i \in 1..Len(s) : s[i].step # x
<1>1. Len(s) \in Nat
  BY LenProperties
<1>2. IsFiniteSet(Places(s, x))
  <2>1. IsFiniteSet(1..Len(s)) /\ Places(s, x) \in SUBSET (1..Len(s))
    BY <1>1, FS_Interval DEF Places
  <2>2. QED BY <2>1, FS_Subset
<1>3. Num(s, x) \in Nat /\ (Num(s, x) = 0 <=> Places(s, x) = {})
  BY <1>2, FS_CardinalityType, FS_EmptySet DEF Num
<1>4. QED BY <1>2, <1>3 DEF Places

LEMMA NumConcat ==
  ASSUME NEW T, NEW s \in Seq(T), NEW t \in Seq(T), NEW x
  PROVE  Num(s \o t, x) = Num(s, x) + Num(t, x)
<1> DEFINE moved == {j \in (Len(s) + 1)..(Len(s) + Len(t)) : t[j - Len(s)].step = x}
           f == [i \in Places(t, x) |-> i + Len(s)]
<1>1. Len(s) \in Nat /\ Len(t) \in Nat /\ Len(s \o t) = Len(s) + Len(t)
  BY LenProperties, ConcatProperties
<1>2. Places(s \o t, x) = Places(s, x) \union moved
  <2>1. \A i \in 1..(Len(s) + Len(t)) : (s \o t)[i] = IF i <= Len(s) THEN s[i] ELSE t[i - Len(s)]
    BY ConcatProperties
  <2>2. \A i \in 1..(Len(s) + Len(t)) : i \in Places(s \o t, x) <=> (s \o t)[i].step = x
    BY <1>1 DEF Places
  <2>3. \A i \in 1..(Len(s) + Len(t)) :
          i \in Places(s, x) \union moved <=>
            (IF i <= Len(s) THEN s[i] ELSE t[i - Len(s)]).step = x
    BY <1>1 DEF Places
  <2>4. Places(s \o t, x) \subseteq 1..(Len(s) + Len(t))
        /\ Places(s, x) \union moved \subseteq 1..(Len(s) + Len(t))
    BY <1>1 DEF Places
  <2>5. QED BY <2>1, <2>2, <2>3, <2>4
<1>3. Places(s, x) \intersect moved = {}
  BY <1>1 DEF Places
<1>4. IsFiniteSet(moved) /\ Cardinality(moved) = Num(t, x)
  <2>1. f \in Bijection(Places(t, x), moved)
    <3>1. f \in [Places(t, x) -> moved] /\ \A a, b \in Places(t, x) : f[a] = f[b] => a = b
      BY <1>1 DEF Places
    <3>2. \A j \in moved : \E i \in Places(t, x) : f[i] = j
      <4>1. SUFFICES ASSUME NEW j \in moved PROVE \E i \in Places(t, x) : f[i] = j
        OBVIOUS
      <4>2. j - Len(s) \in Places(t, x)
        BY <1>1 DEF Places
      <4>3. f[j - Len(s)] = j
        BY <1>1, <4>2
      <4>4. QED BY <4>2, <4>3
    <3>3. QED BY <3>1, <3>2 DEF Bijection, Injection, Surjection, IsInjective
  <2>2. IsFiniteSet(Places(t, x))
    BY NumType
  <2>3. QED BY <2>1, <2>2, FS_Bijection DEF ExistsBijection, Num
<1>5. IsFiniteSet(Places(s, x))
  BY NumType
<1>6. Cardinality(Places(s, x) \union moved) = Num(s, x) + Cardinality(moved)
  <2>1. Num(s, x) \in Nat /\ Num(t, x) \in Nat
    BY NumType
  <2>2. Cardinality(Places(s, x) \union moved)
          = Cardinality(Places(s, x)) + Cardinality(moved) - Cardinality(Places(s, x) \intersect moved)
    BY <1>4, <1>5, FS_Union
  <2>3. Cardinality(Places(s, x) \intersect moved) = 0
    BY <1>3, FS_EmptySet
  <2>4. Cardinality(Places(s, x)) = Num(s, x)
    BY DEF Num
  <2>5. Cardinality(Places(s, x) \union moved) = Num(s, x) + Num(t, x) - 0
    BY <1>4, <2>2, <2>3, <2>4
  <2>6. QED BY <1>4, <2>1, <2>5
<1>7. QED BY <1>2, <1>4, <1>6 DEF Num

LEMMA NumShort ==
  ASSUME NEW x
  PROVE  Num(<<>>, x) = 0 /\ \A e : Num(<<e>>, x) = IF e.step = x THEN 1 ELSE 0
<1>1. Places(<<>>, x) = {}
  BY DEF Places
<1>2. ASSUME NEW e
      PROVE  Places(<<e>>, x) = IF e.step = x THEN {1} ELSE {}
  BY DEF Places
<1>3. QED BY <1>1, <1>2, FS_EmptySet, FS_Singleton DEF Num

LEMMA HeadTail ==
  ASSUME NEW T, NEW s \in Seq(T), s # <<>>
  PROVE  /\ Head(s) = s[1] /\ Head(s) \in T /\ Tail(s) \in Seq(T) /\ s = <<Head(s)>> \o Tail(s)
         /\ Len(s) \in Nat \ {0} /\ Len(Tail(s)) = Len(s) - 1
         /\ \A i \in 1..Len(Tail(s)) : Tail(s)[i] = s[i + 1]
<1>1. Len(s) \in Nat \ {0}
  BY EmptySeq
<1>2. Head(s) \in T /\ Tail(s) \in Seq(T) /\ Len(Tail(s)) = Len(s) - 1 /\ Head(s) = s[1]
      /\ \A i \in 1..Len(Tail(s)) : Tail(s)[i] = s[i + 1]
  BY HeadTailProperties
<1>3. <<Head(s)>> \in Seq(T)
  BY <1>2
<1>4. s = <<Head(s)>> \o Tail(s)
  <2>1. DEFINE u == <<Head(s)>> \o Tail(s)
  <2>2. u \in Seq(T) /\ Len(u) = 1 + Len(Tail(s))
        /\ \A i \in 1..(1 + Len(Tail(s))) : u[i] = IF i <= 1 THEN s[1] ELSE Tail(s)[i - 1]
    BY <1>2, <1>3, ConcatProperties
  <2>3. Len(u) = Len(s) /\ \A i \in 1..Len(s) : s[i] = u[i]
    BY <1>1, <1>2, <2>2
  <2>4. QED BY <2>2, <2>3, SeqEqual
<1>5. QED BY <1>1, <1>2, <1>4

LEMMA NumTail ==
  ASSUME NEW T, NEW s \in Seq(T), s # <<>>, NEW x
  PROVE  Num(s, x) = (IF s[1].step = x THEN 1 ELSE 0) + Num(Tail(s), x)
<1>1. /\ Head(s) = s[1] /\ <<Head(s)>> \in Seq(T) /\ Tail(s) \in Seq(T)
      /\ s = <<Head(s)>> \o Tail(s)
  BY HeadTail
<1>2. Num(<<Head(s)>> \o Tail(s), x) = Num(<<Head(s)>>, x) + Num(Tail(s), x)
  BY <1>1, NumConcat
<1>3. Num(<<Head(s)>>, x) = IF s[1].step = x THEN 1 ELSE 0
  BY <1>1, NumShort
<1>4. QED BY <1>1, <1>2, <1>3

LEMMA IndexedIsSeq ==
  ASSUME NEW T, NEW n \in Nat, NEW s \in [1..n -> T]
  PROVE  s \in Seq(T) /\ Len(s) = n
<1>1. s \in Seq(T)
  BY SeqDef
<1>2. QED BY <1>1, LenProperties

\* of what is left of the steps of a panic, the counts of what is deferred stay
Kept == {"runlock", "unlock", "sunlock", "record"}

LEMMA DeferredFacts ==
  ASSUME NEW T, NEW s \in Seq(T)
  PROVE  /\ Deferred(s) \in Seq({e \in T : e.step \in Kept})
         /\ \A x \in Kept : Num(Deferred(s), x) = Num(s, x)
<1> DEFINE K == {e \in T : e.step \in Kept}
           p == [i \in 1..Len(s) |-> IF s[i].step \in Kept THEN <<s[i]>> ELSE <<>>]
<1>1. Len(s) \in Nat /\ DOMAIN s = 1..Len(s) /\ \A i \in 1..Len(s) : s[i] \in T
  BY LenProperties
<1>2. Deferred(s) = FlattenSeq(p)
  BY <1>1 DEF Deferred, Kept
<1>3. p \in [1..Len(s) -> Seq(K)]
  <2>1. ASSUME NEW i \in 1..Len(s)
        PROVE  (IF s[i].step \in Kept THEN <<s[i]>> ELSE <<>>) \in Seq(K)
    <3>1. s[i].step \in Kept => s[i] \in K
      BY <1>1
    <3> HIDE DEF K
    <3>2. QED BY <3>1
  <2>2. QED BY <2>1
<1>4. p \in Seq(Seq(K)) /\ Len(p) = Len(s)
  <2> HIDE DEF p, K
  <2>1. QED BY <1>1, <1>3, IndexedIsSeq
<1>5. ASSUME NEW x \in Kept
      PROVE  Num(FlattenSeq(p), x) = Num(s, x)
  <2>1. CASE Len(s) = 0
    <3>1. s = <<>> /\ p = <<>>
      BY <1>4, <2>1, EmptySeq
    <3>2. FlattenSeq(p) = <<>>
      BY <1>4, <2>1, <3>1 DEF FlattenSeq
    <3>3. QED BY <3>1, <3>2
  <2>2. CASE Len(s) # 0
    <3> DEFINE upTo(n) == {i \in 1..n : s[i].step = x}
    <3>1. PICK f : Flat(p, Len(p), f) /\ FlattenSeq(p) = f[Len(p)]
      BY <1>1, <1>4, <2>2, FlattenIs
    <3>2. \A n \in 1..Len(s) : f[n] \in Seq(K)
      BY <1>4, <3>1, FlatType
    <3>3. ASSUME NEW n \in 1..Len(s)
          PROVE  p[n] \in Seq(K) /\ Num(p[n], x) = IF s[n].step = x THEN 1 ELSE 0
      <4>1. p[n] = IF s[n].step \in Kept THEN <<s[n]>> ELSE <<>>
        OBVIOUS
      <4>2. CASE s[n].step \in Kept
        BY <1>3, <4>1, <4>2, NumShort
      <4>3. CASE s[n].step \notin Kept
        BY <1>3, <4>1, <4>3, NumShort
      <4>4. QED BY <4>2, <4>3
    <3>4. \A n \in Nat : IsFiniteSet(upTo(n))
      <4>1. SUFFICES ASSUME NEW n \in Nat PROVE IsFiniteSet(upTo(n))
        OBVIOUS
      <4>2. IsFiniteSet(1..n) /\ upTo(n) \in SUBSET (1..n)
        BY FS_Interval
      <4>3. QED BY <4>2, FS_Subset
    <3>5. ASSUME NEW n \in 0..(Len(s) - 1)
          PROVE  Cardinality(upTo(n + 1)) =
                   Cardinality(upTo(n)) + (IF s[n + 1].step = x THEN 1 ELSE 0)
      <4>0. n \in Nat /\ n + 1 \notin upTo(n)
        BY <1>1
      <4>1. IsFiniteSet(upTo(n)) /\ Cardinality(upTo(n)) \in Nat
        BY <4>0, <3>4, FS_CardinalityType
      <4>2. CASE s[n + 1].step = x
        <5>1. upTo(n + 1) = upTo(n) \union {n + 1}
          BY <4>0, <4>2
        <5>2. QED BY <4>0, <4>1, <4>2, <5>1, FS_AddElement
      <4>3. CASE s[n + 1].step # x
        <5>1. upTo(n + 1) = upTo(n)
          BY <4>0, <4>3
        <5> HIDE DEF upTo
        <5>2. QED BY <4>1, <4>3, <5>1
      <4>4. QED BY <4>2, <4>3
    <3> DEFINE N == {n \in Nat : n \in 1..Len(s) => Num(f[n], x) = Cardinality(upTo(n))}
    <3>6. 0 \in N
      OBVIOUS
    <3>7. ASSUME NEW n \in N
          PROVE  n + 1 \in N
      <4>1. SUFFICES ASSUME n + 1 \in 1..Len(s)
                     PROVE  Num(f[n + 1], x) = Cardinality(upTo(n + 1))
        OBVIOUS
      <4>2. n \in Nat /\ n \in 0..(Len(s) - 1)
        BY <1>1, <4>1
      <4>3. f[n + 1] = IF n = 0 THEN p[n + 1] ELSE f[n] \o p[n + 1]
        <5>1. f[n + 1] = IF n + 1 = 1 THEN p[n + 1] ELSE f[(n + 1) - 1] \o p[n + 1]
          <6> HIDE DEF p
          <6>1. QED BY <1>4, <3>1, <4>1, Zenon DEF Flat
        <5>2. (n + 1) - 1 = n /\ (n + 1 = 1 <=> n = 0)
          BY <4>2
        <5>3. QED BY <5>1, <5>2
      <4>4. CASE n = 0
        <5>1. upTo(0) = {}
          OBVIOUS
        <5>2. Cardinality(upTo(n)) = 0
          BY <4>4, <5>1, FS_EmptySet
        <5>3. Num(f[n + 1], x) = IF s[n + 1].step = x THEN 1 ELSE 0
          BY <3>3, <4>1, <4>3, <4>4
        <5>4. QED BY <3>5, <4>2, <5>2, <5>3
      <4>5. CASE n # 0
        <5>1. n \in 1..Len(s) /\ f[n] \in Seq(K) /\ p[n + 1] \in Seq(K)
          BY <3>2, <3>3, <4>1, <4>2, <4>5
        <5>2. Num(f[n + 1], x) = Num(f[n], x) + Num(p[n + 1], x)
          <6> HIDE DEF p
          <6>1. QED BY <4>3, <4>5, <5>1, NumConcat
        <5>3. Num(f[n], x) = Cardinality(upTo(n))
          BY <5>1
        <5>4. QED BY <3>3, <3>5, <4>1, <4>2, <5>2, <5>3
      <4>6. QED BY <4>4, <4>5
    <3>8. N = Nat
      <4> HIDE DEF N
      <4>1. N \in SUBSET Nat
        BY DEF N
      <4>2. QED BY <3>6, <3>7, <4>1, Induction
    <3>9. Num(f[Len(s)], x) = Cardinality(upTo(Len(s)))
      <4> HIDE DEF N, upTo
      <4>1. Len(s) \in N /\ Len(s) \in 1..Len(s)
        BY <1>1, <2>2, <3>8
      <4>2. QED BY <4>1 DEF N
    <3>10. Cardinality(upTo(Len(s))) = Num(s, x)
      BY DEF Num, Places
    <3> HIDE DEF p, upTo
    <3>11. QED BY <1>4, <3>1, <3>9, <3>10
  <2>3. QED BY <2>1, <2>2
<1>6. FlattenSeq(p) \in Seq(K)
  BY <1>4, FlattenType
<1>7. QED BY <1>2, <1>5, <1>6

-----------------------------------------------------------------------------
(* The steps there are.                                                    *)

Locking == {"rlock", "lock", "slock"}
Unlocking == {"runlock", "unlock", "sunlock"}
\* what may come before a lock is taken: nothing that panics or calls a hook
Calm == Locking \union {"locked", "read"}

EvictedSteps == [step : {"evicted"}, key : Keys, reason : EvictReasons]
InvalidatedSteps == [step : {"invalidated"}, key : Keys, next : {<<>>, Do("count")}]
\* what hooks are told of
Happenings == [step : {"find"}, key : Keys] \union EvictedSteps \union InvalidatedSteps
HookSteps == [step : {"hook"}, atom : Atoms, of : Happenings, i : Nat]
RecordSteps == [step : {"record"}, op : {"get", "set"}, i : Nat]
ResetSteps == [step : {"reset"}, field : DOMAIN Zero \union {"keyCount"}]
KeySteps == [step : {"find", "add", "remove", "peek"}, key : Keys]
BareKinds == {"count", "collect", "closeStore", "purge", "keys", "len"}
\* what comes only right after another step
Linking == {"locked", "stop", "wait", "closeExporter"}

\* of a call: what neither locks nor unlocks nor is linked to another, and the rest
BareSteps == [step : BareKinds] \union KeySteps \union EvictedSteps \union InvalidatedSteps
             \union HookSteps \union RecordSteps \union ResetSteps
CallSteps == BareSteps \union [step : Locking \union Unlocking \union Linking]

\* of the reporter, and of the debug handler beside those of a call
ExportSteps == [step : {"export"}, i : Nat, name : {"hits", "misses", "evictions",
                 "invalidations", "keys", "inFlight", "hitRate"}] \union [step : {"reporterDone"}]
ReadSteps == [step : {"read"}, field : Range(DebugOrder)] \union [step : {"debugKeys"}]

StepsOf(p) ==
  IF p = Reporter THEN ExportSteps
  ELSE IF p = Debugger THEN CallSteps \union ReadSteps ELSE CallSteps

LEMMA StepFacts ==
  /\ \A e \in BareSteps : e.step \notin Locking \union Unlocking \union Linking
  /\ \A e \in CallSteps : e.step \notin {"export", "reporterDone", "read", "debugKeys"}
  /\ \A e \in ExportSteps : e.step \in {"export", "reporterDone"}
  /\ \A e \in ReadSteps : e.step \in {"read", "debugKeys"}
  /\ \A e \in CallSteps :
       /\ e.step \in {"find", "add", "remove", "peek"} => e \in KeySteps
       /\ e.step = "evicted" => e \in EvictedSteps
       /\ e.step = "invalidated" => e \in InvalidatedSteps
       /\ e.step = "hook" => e \in HookSteps
       /\ e.step = "record" => e \in RecordSteps
       /\ e.step = "reset" => e \in ResetSteps
<1>1. \A e \in BareSteps : e.step \notin Locking \union Unlocking \union Linking
  BY DEF BareSteps, BareKinds, KeySteps, EvictedSteps, InvalidatedSteps, HookSteps, RecordSteps,
         ResetSteps, Locking, Unlocking, Linking
<1>2. \A e \in CallSteps : e.step \notin {"export", "reporterDone", "read", "debugKeys"}
  BY DEF CallSteps, BareSteps, BareKinds, KeySteps, EvictedSteps, InvalidatedSteps, HookSteps,
         RecordSteps, ResetSteps, Locking, Unlocking, Linking
<1>3. \A e \in ExportSteps : e.step \in {"export", "reporterDone"}
  BY DEF ExportSteps
<1>4. \A e \in ReadSteps : e.step \in {"read", "debugKeys"}
  BY DEF ReadSteps
<1>5. ASSUME NEW e \in CallSteps
      PROVE  /\ e.step \in {"find", "add", "remove", "peek"} => e \in KeySteps
             /\ e.step = "evicted" => e \in EvictedSteps
             /\ e.step = "invalidated" => e \in InvalidatedSteps
             /\ e.step = "hook" => e \in HookSteps
             /\ e.step = "record" => e \in RecordSteps
             /\ e.step = "reset" => e \in ResetSteps
  <2>1. \/ e \in KeySteps \/ e \in EvictedSteps \/ e \in InvalidatedSteps
        \/ e \in HookSteps \/ e \in RecordSteps \/ e \in ResetSteps
        \/ e.step \in BareKinds \union Locking \union Unlocking \union Linking
    BY DEF CallSteps, BareSteps
  <2>2. /\ e \in KeySteps => e.step \in {"find", "add", "remove", "peek"}
        /\ e \in EvictedSteps => e.step = "evicted"
        /\ e \in InvalidatedSteps => e.step = "invalidated"
        /\ e \in HookSteps => e.step = "hook"
        /\ e \in RecordSteps => e.step = "record"
        /\ e \in ResetSteps => e.step = "reset"
    BY DEF KeySteps, EvictedSteps, InvalidatedSteps, HookSteps, RecordSteps, ResetSteps
  <2>3. QED BY <2>1, <2>2 DEF BareKinds, Locking, Unlocking, Linking
<1>6. QED BY <1>1, <1>2, <1>3, <1>4, <1>5

\* each lock that is taken is let go, and is taken before anything that may panic;
\* the exporter is closed after the wait for the reporter; and what is linked
\* comes right after what it is linked to, up to closeExporter, and not first
Even(s) == /\ Num(s, "rlock") = Num(s, "runlock")
           /\ Num(s, "lock") = Num(s, "unlock")
           /\ Num(s, "slock") = Num(s, "sunlock")
LocksFirst(s) ==
  \A j \in 1..Len(s) : s[j].step \in Locking => \A i \in 1..(j - 1) : s[i].step \in Calm
WaitFirst(s) ==
  \A j \in 1..Len(s) : s[j].step = "closeExporter" => \E i \in 1..(j - 1) : s[i].step = "wait"
Whole(s) == s \in Seq(CallSteps) /\ Even(s) /\ LocksFirst(s) /\ WaitFirst(s)
Prev == [locked |-> "lock", stop |-> "locked", wait |-> "stop", closeExporter |-> "wait"]
Nxt == [stop |-> "wait", wait |-> "closeExporter"]
Linked(s) ==
  /\ \A j \in 2..Len(s) : s[j].step \in Linking => s[j - 1].step = Prev[s[j].step]
  /\ \A j \in 1..Len(s) : s[j].step \in {"stop", "wait"} =>
                            j < Len(s) /\ s[j + 1].step = Nxt[s[j].step]
Opens(s) == s # <<>> => s[1].step \notin Linking
Sound(s) == Whole(s) /\ Linked(s) /\ Opens(s)

LEMMA Unlinked ==
  ASSUME NEW T, NEW s \in Seq(T), \A i \in 1..Len(s) : s[i].step \notin Linking
  PROVE  Linked(s) /\ Opens(s)
<1>1. Len(s) \in Nat /\ (s # <<>> => 1 \in 1..Len(s))
  BY EmptySeq, LenProperties
<1>2. \A i \in 1..Len(s) : s[i].step \notin {"stop", "wait"}
  BY DEF Linking
<1>3. QED BY <1>1, <1>2 DEF Linked, Opens

LEMMA BareSound ==
  ASSUME NEW s \in Seq(BareSteps)
  PROVE  Sound(s)
<1>1. s \in Seq(CallSteps)
  BY SeqMonotonic DEF CallSteps
<1>2. \A i \in 1..Len(s) : s[i].step \notin Locking \union Unlocking \union Linking
  BY StepFacts, ElementOfSeq
<1>3. \A x \in Locking \union Unlocking : Num(s, x) = 0
  BY <1>2, NumType
<1>4. Even(s)
  BY <1>3 DEF Even, Locking, Unlocking
<1>5. LocksFirst(s) /\ WaitFirst(s)
  BY <1>2 DEF LocksFirst, WaitFirst, Linking
<1>6. Linked(s) /\ Opens(s)
  BY <1>2, Unlinked
<1>7. QED BY <1>1, <1>4, <1>5, <1>6 DEF Sound, Whole

LEMMA EmptySound == Sound(<<>>)
<1>1. <<>> \in Seq(BareSteps)
  OBVIOUS
<1>2. QED BY <1>1, BareSound

\* what is known of a concatenation
LEMMA Places2 ==
  ASSUME NEW T, NEW s \in Seq(T), NEW t \in Seq(T)
  PROVE  /\ s \o t \in Seq(T) /\ Len(s) \in Nat /\ Len(t) \in Nat
         /\ Len(s \o t) = Len(s) + Len(t)
         /\ \A i \in 1..Len(s) : (s \o t)[i] = s[i]
         /\ \A i \in 1..Len(t) : (s \o t)[i + Len(s)] = t[i]
         /\ \A j \in 1..Len(s \o t) : j \in 1..Len(s) \/ (j - Len(s) \in 1..Len(t)
                                                          /\ (s \o t)[j] = t[j - Len(s)])
<1>1. Len(s) \in Nat /\ Len(t) \in Nat
  BY LenProperties
<1>2. /\ s \o t \in Seq(T) /\ Len(s \o t) = Len(s) + Len(t)
      /\ \A i \in 1..(Len(s) + Len(t)) :
           (s \o t)[i] = IF i <= Len(s) THEN s[i] ELSE t[i - Len(s)]
  BY ConcatProperties
<1>3. \A i \in 1..Len(t) : (s \o t)[i + Len(s)] = t[i]
  <2>1. SUFFICES ASSUME NEW i \in 1..Len(t) PROVE (s \o t)[i + Len(s)] = t[i]
    OBVIOUS
  <2>2. i + Len(s) \in 1..(Len(s) + Len(t)) /\ ~(i + Len(s) <= Len(s)) /\ (i + Len(s)) - Len(s) = i
    BY <1>1
  <2>3. QED BY <1>2, <2>2
<1>4. QED BY <1>1, <1>2, <1>3

LEMMA LocksFirstConcat ==
  ASSUME NEW T, NEW s \in Seq(T), NEW t \in Seq(T), LocksFirst(s),
         \/ LocksFirst(t) /\ \A i \in 1..Len(s) : s[i].step \in Calm
         \/ \A j \in 1..Len(t) : t[j].step \notin Locking
  PROVE  LocksFirst(s \o t)
<1> SUFFICES ASSUME NEW j \in 1..Len(s \o t), (s \o t)[j].step \in Locking,
                    NEW i \in 1..(j - 1)
             PROVE  (s \o t)[i].step \in Calm
  BY DEF LocksFirst
<1>1. /\ Len(s) \in Nat /\ Len(t) \in Nat /\ Len(s \o t) = Len(s) + Len(t)
      /\ \A k \in 1..Len(s) : (s \o t)[k] = s[k]
      /\ \A k \in 1..Len(s \o t) : k \in 1..Len(s) \/ (k - Len(s) \in 1..Len(t)
                                                      /\ (s \o t)[k] = t[k - Len(s)])
  BY Places2
<1>2. CASE j \in 1..Len(s)
  <2>1. i \in 1..Len(s) /\ s[j].step \in Locking
    BY <1>1, <1>2
  <2>2. QED BY <1>1, <1>2, <2>1 DEF LocksFirst
<1>3. CASE j \notin 1..Len(s)
  <2>1. j - Len(s) \in 1..Len(t) /\ t[j - Len(s)].step \in Locking
    BY <1>1, <1>3
  <2>2. LocksFirst(t) /\ \A k \in 1..Len(s) : s[k].step \in Calm
    BY <2>1
  <2>3. CASE i \in 1..Len(s)
    BY <1>1, <2>2, <2>3
  <2>4. CASE i \notin 1..Len(s)
    <3>1. i - Len(s) \in 1..((j - Len(s)) - 1) /\ (s \o t)[i] = t[i - Len(s)]
      BY <1>1, <2>4
    <3>2. QED BY <2>1, <2>2, <3>1 DEF LocksFirst
  <2>5. QED BY <2>3, <2>4
<1>4. QED BY <1>2, <1>3

LEMMA WaitFirstConcat ==
  ASSUME NEW T, NEW s \in Seq(T), NEW t \in Seq(T), WaitFirst(s), WaitFirst(t)
  PROVE  WaitFirst(s \o t)
<1> SUFFICES ASSUME NEW j \in 1..Len(s \o t), (s \o t)[j].step = "closeExporter"
             PROVE  \E i \in 1..(j - 1) : (s \o t)[i].step = "wait"
  BY DEF WaitFirst
<1>1. /\ Len(s) \in Nat /\ Len(t) \in Nat /\ Len(s \o t) = Len(s) + Len(t)
      /\ \A k \in 1..Len(s) : (s \o t)[k] = s[k]
      /\ \A k \in 1..Len(t) : (s \o t)[k + Len(s)] = t[k]
      /\ \A k \in 1..Len(s \o t) : k \in 1..Len(s) \/ (k - Len(s) \in 1..Len(t)
                                                      /\ (s \o t)[k] = t[k - Len(s)])
  BY Places2
<1>2. CASE j \in 1..Len(s)
  <2>1. PICK i \in 1..(j - 1) : s[i].step = "wait"
    BY <1>1, <1>2 DEF WaitFirst
  <2>2. i \in 1..Len(s)
    BY <1>1, <1>2
  <2>3. QED BY <1>1, <2>1, <2>2
<1>3. CASE j \notin 1..Len(s)
  <2>1. j - Len(s) \in 1..Len(t) /\ t[j - Len(s)].step = "closeExporter"
    BY <1>1, <1>3
  <2>2. PICK i \in 1..((j - Len(s)) - 1) : t[i].step = "wait"
    BY <2>1 DEF WaitFirst
  <2>3. i \in 1..Len(t) /\ i + Len(s) \in 1..(j - 1)
    BY <1>1, <2>1
  <2>4. QED BY <1>1, <2>2, <2>3
<1>4. QED BY <1>2, <1>3

LEMMA EvenConcat ==
  ASSUME NEW T, NEW s \in Seq(T), NEW t \in Seq(T), Even(s), Even(t)
  PROVE  Even(s \o t)
<1>1. \A x \in Locking \union Unlocking : Num(s \o t, x) = Num(s, x) + Num(t, x)
  BY NumConcat
<1>2. QED BY <1>1 DEF Even, Locking, Unlocking

LEMMA LinkedConcat ==
  ASSUME NEW T, NEW s \in Seq(T), NEW t \in Seq(T), Linked(s), Linked(t), Opens(t)
  PROVE  Linked(s \o t)
<1> DEFINE u == s \o t
<1>1. /\ Len(s) \in Nat /\ Len(t) \in Nat /\ Len(u) = Len(s) + Len(t)
      /\ \A i \in 1..Len(s) : u[i] = s[i]
      /\ \A i \in 1..Len(t) : u[i + Len(s)] = t[i]
      /\ \A j \in 1..Len(u) : j \in 1..Len(s) \/ (j - Len(s) \in 1..Len(t)
                                                 /\ u[j] = t[j - Len(s)])
  BY Places2
<1> HIDE DEF u
<1>2. ASSUME NEW j \in 2..Len(u), u[j].step \in Linking
      PROVE  u[j - 1].step = Prev[u[j].step]
  <2>1. CASE j \in 1..Len(s)
    <3>1. j \in 2..Len(s) /\ j - 1 \in 1..Len(s)
      BY <1>1, <1>2, <2>1
    <3>2. u[j] = s[j] /\ u[j - 1] = s[j - 1]
      BY <1>1, <2>1, <3>1
    <3>3. QED BY <1>2, <3>1, <3>2 DEF Linked
  <2>2. CASE j \notin 1..Len(s)
    <3> DEFINE i == j - Len(s)
    <3>1. i \in 1..Len(t) /\ u[j] = t[i]
      BY <1>1, <1>2, <2>2
    <3>2. i # 1
      <4>1. SUFFICES ASSUME i = 1 PROVE FALSE
        OBVIOUS
      <4>2. t # <<>> /\ t[1].step \in Linking
        BY <1>2, <3>1, <4>1
      <4>3. QED BY <4>2 DEF Opens
    <3>3. i \in 2..Len(t) /\ i - 1 \in 1..Len(t) /\ (i - 1) + Len(s) = j - 1
      BY <1>1, <1>2, <3>1, <3>2
    <3>4. u[j - 1] = t[i - 1]
      BY <1>1, <3>3
    <3> HIDE DEF i
    <3>5. QED BY <1>2, <3>1, <3>3, <3>4 DEF Linked
  <2>3. QED BY <2>1, <2>2
<1>3. ASSUME NEW j \in 1..Len(u), u[j].step \in {"stop", "wait"}
      PROVE  j < Len(u) /\ u[j + 1].step = Nxt[u[j].step]
  <2>1. CASE j \in 1..Len(s)
    <3>1. u[j] = s[j]
      BY <1>1, <2>1
    <3>2. j < Len(s) /\ s[j + 1].step = Nxt[s[j].step]
      BY <1>3, <2>1, <3>1 DEF Linked
    <3>3. j + 1 \in 1..Len(s) /\ j < Len(u)
      BY <1>1, <2>1, <3>2
    <3>4. QED BY <1>1, <3>1, <3>2, <3>3
  <2>2. CASE j \notin 1..Len(s)
    <3> DEFINE i == j - Len(s)
    <3>1. i \in 1..Len(t) /\ u[j] = t[i]
      BY <1>1, <1>3, <2>2
    <3>2. i < Len(t) /\ t[i + 1].step = Nxt[t[i].step]
      BY <1>3, <3>1 DEF Linked
    <3>3. i + 1 \in 1..Len(t) /\ (i + 1) + Len(s) = j + 1 /\ j < Len(u)
      BY <1>1, <1>3, <3>1, <3>2
    <3>4. u[j + 1] = t[i + 1]
      BY <1>1, <3>3
    <3>5. QED BY <3>1, <3>2, <3>3, <3>4
  <2>3. QED BY <2>1, <2>2
<1>4. Linked(u)
  BY <1>2, <1>3 DEF Linked
<1>5. QED BY <1>4 DEF u

LEMMA OpensConcat ==
  ASSUME NEW T, NEW s \in Seq(T), NEW t \in Seq(T), Opens(s), Opens(t)
  PROVE  Opens(s \o t)
<1>1. CASE s = <<>>
  <2>1. s \o t = t
    BY <1>1, ConcatEmptySeq
  <2>2. QED BY <2>1
<1>2. CASE s # <<>>
  <2>1. 1 \in 1..Len(s)
    BY <1>2, EmptySeq, LenProperties
  <2>2. (s \o t)[1] = s[1]
    BY <2>1, Places2
  <2>3. QED BY <1>2, <2>2 DEF Opens
<1>3. QED BY <1>1, <1>2

LEMMA SoundConcat ==
  ASSUME NEW s, Sound(s), NEW t \in Seq(BareSteps)
  PROVE  Sound(s \o t)
<1>1. Sound(t) /\ s \in Seq(CallSteps) /\ t \in Seq(CallSteps)
  BY BareSound DEF Sound, Whole
<1>2. \A j \in 1..Len(t) : t[j].step \notin Locking
  BY StepFacts, ElementOfSeq
<1>3. s \o t \in Seq(CallSteps)
  BY <1>1, ConcatProperties
<1>4. Even(s \o t) /\ LocksFirst(s \o t) /\ WaitFirst(s \o t)
  BY <1>1, <1>2, EvenConcat, LocksFirstConcat, WaitFirstConcat DEF Sound, Whole
<1>5. Linked(s \o t) /\ Opens(s \o t)
  BY <1>1, LinkedConcat, OpensConcat DEF Sound
<1>6. QED BY <1>3, <1>4, <1>5 DEF Sound, Whole

LEMMA DoFacts ==
  ASSUME NEW x
  PROVE  /\ Len(Do(x)) = 1 /\ Do(x)[1].step = x
         /\ \A y : Num(Do(x), y) = IF x = y THEN 1 ELSE 0
         /\ LocksFirst(Do(x)) /\ (x # "closeExporter" => WaitFirst(Do(x)))
         /\ x \in BareKinds => Do(x) \in Seq(BareSteps)
         /\ x \in BareKinds \union Locking \union Unlocking \union Linking =>
              Do(x) \in Seq(CallSteps)
         /\ x \notin Linking => Linked(Do(x)) /\ Opens(Do(x))
<1>1. Len(Do(x)) = 1 /\ Do(x)[1].step = x
  BY DEF Do
<1>2. \A y : Num(Do(x), y) = IF x = y THEN 1 ELSE 0
  BY NumShort DEF Do
<1>3. LocksFirst(Do(x)) /\ (x # "closeExporter" => WaitFirst(Do(x)))
  BY <1>1 DEF LocksFirst, WaitFirst
<1>4. x \in BareKinds => [step |-> x] \in BareSteps
  BY DEF BareSteps
<1>5. x \in BareKinds \union Locking \union Unlocking \union Linking =>
        [step |-> x] \in CallSteps
  BY <1>4 DEF CallSteps
<1>6. x \notin Linking => Linked(Do(x)) /\ Opens(Do(x))
  BY <1>1 DEF Linked, Opens, Linking
<1>7. QED BY <1>1, <1>2, <1>3, <1>4, <1>5, <1>6 DEF Do

\* a calm step, or none that locks, may come first
LEMMA WholeParts ==
  ASSUME NEW s, Whole(s), NEW a \in Calm, NEW b \in Unlocking, Do(a) \in Seq(CallSteps)
  PROVE  LET u == Do(a) \o s \o Do(b) IN
         /\ u \in Seq(CallSteps) /\ LocksFirst(u) /\ WaitFirst(u)
         /\ \A x : Num(u, x) = (IF a = x THEN 1 ELSE 0) + Num(s, x) + (IF b = x THEN 1 ELSE 0)
<1> DEFINE u == Do(a) \o s \o Do(b)
<1>1. s \in Seq(CallSteps) /\ LocksFirst(s) /\ WaitFirst(s) /\ Do(b) \in Seq(CallSteps)
  BY DoFacts DEF Whole
<1>2. a # "closeExporter" /\ b # "closeExporter" /\ b \notin Locking
  BY DEF Calm, Locking, Unlocking
<1>3. Do(a) \o s \in Seq(CallSteps) /\ u \in Seq(CallSteps)
  BY <1>1, ConcatProperties
<1>4. LocksFirst(Do(a) \o s) /\ WaitFirst(Do(a) \o s)
  <2>1. \A i \in 1..Len(Do(a)) : Do(a)[i].step \in Calm
    BY DoFacts
  <2>2. LocksFirst(Do(a)) /\ WaitFirst(Do(a))
    BY <1>2, DoFacts
  <2>3. QED BY <1>1, <2>1, <2>2, LocksFirstConcat, WaitFirstConcat
<1>5. LocksFirst(u) /\ WaitFirst(u)
  <2>1. \A i \in 1..Len(Do(b)) : Do(b)[i].step \notin Locking
    BY <1>2, DoFacts
  <2>2. WaitFirst(Do(b))
    BY <1>2, DoFacts
  <2>3. QED BY <1>1, <1>3, <1>4, <2>1, <2>2, LocksFirstConcat, WaitFirstConcat
<1>6. ASSUME NEW x
      PROVE  Num(u, x) = (IF a = x THEN 1 ELSE 0) + Num(s, x) + (IF b = x THEN 1 ELSE 0)
  <2>1. Num(u, x) = Num(Do(a) \o s, x) + Num(Do(b), x)
    BY <1>1, <1>3, NumConcat
  <2>2. Num(Do(a) \o s, x) = Num(Do(a), x) + Num(s, x)
    BY <1>1, NumConcat
  <2>3. QED BY <2>1, <2>2, DoFacts
<1>7. QED BY <1>3, <1>5, <1>6

LEMMA UnderWhole ==
  ASSUME NEW s, Whole(s)
  PROVE  Whole(UnderRead(s)) /\ Whole(UnderStore(s)) /\ Whole(UnderWrite(s))
<1>1. \A x \in Locking \union Unlocking : Num(s, x) \in Nat
  BY NumType DEF Whole
<1>2. Even(s)
  BY DEF Whole
<1>3. Whole(UnderRead(s))
  <2>1. "rlock" \in Calm /\ "runlock" \in Unlocking /\ Do("rlock") \in Seq(CallSteps)
    BY DoFacts DEF Calm, Locking, Unlocking
  <2>2. /\ UnderRead(s) \in Seq(CallSteps) /\ LocksFirst(UnderRead(s)) /\ WaitFirst(UnderRead(s))
        /\ \A x : Num(UnderRead(s), x) =
                    (IF "rlock" = x THEN 1 ELSE 0) + Num(s, x) + (IF "runlock" = x THEN 1 ELSE 0)
    BY <2>1, WholeParts DEF UnderRead
  <2>3. Even(UnderRead(s))
    BY <1>1, <1>2, <2>2 DEF Even, Locking, Unlocking
  <2>4. QED BY <2>2, <2>3 DEF Whole
<1>4. Whole(UnderStore(s))
  <2>1. "slock" \in Calm /\ "sunlock" \in Unlocking /\ Do("slock") \in Seq(CallSteps)
    BY DoFacts DEF Calm, Locking, Unlocking
  <2>2. /\ UnderStore(s) \in Seq(CallSteps) /\ LocksFirst(UnderStore(s)) /\ WaitFirst(UnderStore(s))
        /\ \A x : Num(UnderStore(s), x) =
                    (IF "slock" = x THEN 1 ELSE 0) + Num(s, x) + (IF "sunlock" = x THEN 1 ELSE 0)
    BY <2>1, WholeParts DEF UnderStore
  <2>3. Even(UnderStore(s))
    BY <1>1, <1>2, <2>2 DEF Even, Locking, Unlocking
  <2>4. QED BY <2>2, <2>3 DEF Whole
<1>5. Whole(UnderWrite(s))
  <2> DEFINE l == Do("lock") \o Do("locked")
             u == l \o s \o Do("unlock")
  <2>1. Do("lock") \in Seq(CallSteps) /\ Do("locked") \in Seq(CallSteps)
        /\ Do("unlock") \in Seq(CallSteps) /\ s \in Seq(CallSteps)
    BY DoFacts DEF Locking, Unlocking, Linking, Whole
  <2>2. l \in Seq(CallSteps) /\ LocksFirst(l) /\ WaitFirst(l)
        /\ \A i \in 1..Len(l) : l[i].step \in Calm
    <3>1. LocksFirst(Do("lock")) /\ WaitFirst(Do("lock")) /\ WaitFirst(Do("locked"))
      BY DoFacts
    <3>2. \A i \in 1..Len(Do("locked")) : Do("locked")[i].step \notin Locking
      BY DoFacts DEF Locking
    <3>3. \A i \in 1..Len(l) : l[i].step \in Calm
      BY DEF Do, Calm, Locking
    <3>4. QED BY <2>1, <3>1, <3>2, <3>3, ConcatProperties, LocksFirstConcat, WaitFirstConcat
  <2>3. l \o s \in Seq(CallSteps) /\ LocksFirst(l \o s) /\ WaitFirst(l \o s)
    BY <2>1, <2>2, ConcatProperties, LocksFirstConcat, WaitFirstConcat DEF Whole
  <2>4. u \in Seq(CallSteps) /\ LocksFirst(u) /\ WaitFirst(u)
    <3>1. WaitFirst(Do("unlock"))
      BY DoFacts
    <3>2. \A i \in 1..Len(Do("unlock")) : Do("unlock")[i].step \notin Locking
      BY DoFacts DEF Locking
    <3>3. QED BY <2>1, <2>3, <3>1, <3>2, ConcatProperties, LocksFirstConcat, WaitFirstConcat
  <2>5. ASSUME NEW x
        PROVE  Num(u, x) = (IF "lock" = x THEN 1 ELSE 0) + (IF "locked" = x THEN 1 ELSE 0)
                           + Num(s, x) + (IF "unlock" = x THEN 1 ELSE 0)
    <3>1. Num(u, x) = Num(l \o s, x) + Num(Do("unlock"), x)
      BY <2>1, <2>3, NumConcat
    <3>2. Num(l \o s, x) = Num(l, x) + Num(s, x)
      BY <2>1, <2>2, NumConcat
    <3>3. Num(l, x) = Num(Do("lock"), x) + Num(Do("locked"), x)
      BY <2>1, NumConcat
    <3>4. QED BY <3>1, <3>2, <3>3, DoFacts
  <2>6. Even(u)
    BY <1>1, <1>2, <2>5 DEF Even, Locking, Unlocking
  <2>7. u = UnderWrite(s)
    BY DEF UnderWrite
  <2>8. QED BY <2>4, <2>6, <2>7 DEF Whole
<1>6. QED BY <1>3, <1>4, <1>5

LEMMA UnderSound ==
  ASSUME NEW s, Sound(s)
  PROVE  Sound(UnderRead(s)) /\ Sound(UnderStore(s)) /\ Sound(UnderWrite(s))
<1>1. s \in Seq(CallSteps) /\ Linked(s) /\ Opens(s)
      /\ Whole(UnderRead(s)) /\ Whole(UnderStore(s)) /\ Whole(UnderWrite(s))
  BY UnderWhole DEF Sound, Whole
<1>2. ASSUME NEW a \in Seq(CallSteps), NEW x \in Unlocking, Linked(a), Opens(a)
      PROVE  Linked(a \o s \o Do(x)) /\ Opens(a \o s \o Do(x))
  <2>1. a \o s \in Seq(CallSteps) /\ Linked(a \o s) /\ Opens(a \o s)
    BY <1>1, <1>2, ConcatProperties, LinkedConcat, OpensConcat
  <2>2. Do(x) \in Seq(CallSteps) /\ Linked(Do(x)) /\ Opens(Do(x))
    <3>1. x \notin Linking
      BY DEF Linking, Unlocking
    <3>2. QED BY <3>1, DoFacts
  <2>3. QED BY <2>1, <2>2, LinkedConcat, OpensConcat
<1>3. ASSUME NEW x \in Locking
      PROVE  Do(x) \in Seq(CallSteps) /\ Linked(Do(x)) /\ Opens(Do(x))
  <2>1. x \notin Linking
    BY DEF Linking, Locking
  <2>2. QED BY <2>1, DoFacts
<1>4. LET l == Do("lock") \o Do("locked") IN l \in Seq(CallSteps) /\ Linked(l) /\ Opens(l)
  <2> DEFINE l == Do("lock") \o Do("locked")
  <2>1. l \in Seq(CallSteps)
    BY DoFacts, ConcatProperties DEF Locking, Linking
  <2>2. Len(l) = 2 /\ l[1].step = "lock" /\ l[2].step = "locked"
    BY DEF Do
  <2> HIDE DEF l
  <2>3. Linked(l) /\ Opens(l)
    <3>1. \A j \in 2..2 : l[j].step \in Linking => l[j - 1].step = Prev[l[j].step]
      BY <2>2 DEF Prev
    <3>2. \A j \in 1..2 : l[j].step \notin {"stop", "wait"}
      BY <2>2
    <3>3. QED BY <2>2, <3>1, <3>2 DEF Linked, Opens, Linking
  <2>4. QED BY <2>1, <2>3 DEF l
<1>5. Sound(UnderRead(s))
  BY <1>1, <1>2, <1>3 DEF UnderRead, Sound, Locking, Unlocking
<1>6. Sound(UnderStore(s))
  BY <1>1, <1>2, <1>3 DEF UnderStore, Sound, Locking, Unlocking
<1>7. Sound(UnderWrite(s))
  BY <1>1, <1>2, <1>4 DEF UnderWrite, Sound, Unlocking
<1>8. QED BY <1>5, <1>6, <1>7

-----------------------------------------------------------------------------
(* What the calls, the exports and the hooks put in front.                 *)

LEMMA BareFacts ==
  ASSUME NEW k \in Keys
  PROVE  /\ \A x \in {"find", "add", "remove", "peek"} : With1(x, k) \in Seq(BareSteps)
         /\ \A x \in BareKinds : Do(x) \in Seq(BareSteps)
         /\ \A r \in EvictReasons : Evicted(k, r) \in Seq(BareSteps)
         /\ \A n \in {<<>>, Do("count")} : Invalidated(k, n) \in Seq(BareSteps)
         /\ Callback(k) \in Seq(BareSteps)
<1>1. \A x \in {"find", "add", "remove", "peek"} : With1(x, k) \in Seq(BareSteps)
  <2>1. \A x \in {"find", "add", "remove", "peek"} : [step |-> x, key |-> k] \in BareSteps
    BY DEF KeySteps, BareSteps
  <2>2. QED BY <2>1 DEF With1
<1>2. \A x \in BareKinds : Do(x) \in Seq(BareSteps)
  BY DoFacts
<1>3. \A r \in EvictReasons : Evicted(k, r) \in Seq(BareSteps)
  <2>1. \A r \in EvictReasons : [step |-> "evicted", key |-> k, reason |-> r] \in BareSteps
    BY DEF EvictedSteps, BareSteps
  <2>2. QED BY <2>1 DEF Evicted
<1>4. \A n \in {<<>>, Do("count")} : Invalidated(k, n) \in Seq(BareSteps)
  <2>1. \A n \in {<<>>, Do("count")} :
          [step |-> "invalidated", key |-> k, next |-> n] \in BareSteps
    BY DEF InvalidatedSteps, BareSteps
  <2>2. QED BY <2>1 DEF Invalidated
<1>5. Callback(k) \in Seq(BareSteps)
  BY <1>3 DEF Callback, EvictReasons
<1>6. QED BY <1>1, <1>2, <1>3, <1>4, <1>5

LEMMA RecordedBare == \A op \in {"get", "set"} : Recorded(op) \in Seq(BareSteps)
<1>1. \A op \in {"get", "set"} : [step |-> "record", op |-> op, i |-> 1] \in BareSteps
  BY DEF RecordSteps, BareSteps
<1>2. QED BY <1>1 DEF Recorded

LEMMA ResetBare == ResetPlan \in Seq(BareSteps)
<1>1. \A i \in 1..5 : [step |-> "reset", field |-> ResetOrder[i]] \in BareSteps
  <2>1. \A i \in 1..5 : ResetOrder[i] \in DOMAIN Zero \union {"keyCount"}
    BY DEF ResetOrder, Zero
  <2>2. QED BY <2>1 DEF ResetSteps, BareSteps
<1>2. DOMAIN ResetOrder = 1..5
  BY DEF ResetOrder
<1>3. QED BY <1>1, <1>2, IndexedIsSeq DEF ResetPlan

\* stop, wait, closeExporter, closeStore
LEMMA CloseSound ==
  Sound(UnderWrite(Do("stop") \o Do("wait") \o Do("closeExporter") \o Do("closeStore")))
<1> DEFINE s == Do("stop") \o Do("wait") \o Do("closeExporter") \o Do("closeStore")
<1>1. /\ Len(s) = 4 /\ s[1].step = "stop" /\ s[2].step = "wait" /\ s[3].step = "closeExporter"
      /\ s[4].step = "closeStore"
  BY DEF Do
<1>2. s \in Seq(CallSteps)
  <2>1. /\ Do("stop") \in Seq(CallSteps) /\ Do("wait") \in Seq(CallSteps)
        /\ Do("closeExporter") \in Seq(CallSteps) /\ Do("closeStore") \in Seq(CallSteps)
    BY DoFacts DEF BareKinds, Linking
  <2>2. Do("stop") \o Do("wait") \in Seq(CallSteps)
    BY <2>1, ConcatProperties
  <2>3. Do("stop") \o Do("wait") \o Do("closeExporter") \in Seq(CallSteps)
    BY <2>1, <2>2, ConcatProperties
  <2>4. QED BY <2>1, <2>3, ConcatProperties
<1> HIDE DEF s
<1>3. \A i \in 1..Len(s) : s[i].step \notin Locking \union Unlocking
  BY <1>1 DEF Locking, Unlocking
<1>4. Even(s)
  BY <1>2, <1>3, NumType DEF Even, Locking, Unlocking
<1>5. LocksFirst(s) /\ WaitFirst(s)
  <2>1. \A j \in 1..Len(s) : s[j].step = "closeExporter" => j = 3
    BY <1>1
  <2>2. 2 \in 1..(3 - 1)
    OBVIOUS
  <2>3. QED BY <1>1, <1>3, <2>1, <2>2 DEF LocksFirst, WaitFirst
<1>6. Whole(UnderWrite(s))
  BY <1>2, <1>4, <1>5, UnderWhole DEF Whole
<1>7. Linked(UnderWrite(s)) /\ Opens(UnderWrite(s))
  <2> DEFINE u == UnderWrite(s)
  <2>1. /\ Len(u) = 7 /\ u[1].step = "lock" /\ u[2].step = "locked" /\ u[3].step = "stop"
        /\ u[4].step = "wait" /\ u[5].step = "closeExporter" /\ u[6].step = "closeStore"
        /\ u[7].step = "unlock"
    BY DEF UnderWrite, Do, s
  <2> HIDE DEF u
  <2>2. \A j \in 2..7 : u[j].step \in Linking => u[j - 1].step = Prev[u[j].step]
    BY <2>1 DEF Linking, Prev
  <2>3. \A j \in 1..7 : u[j].step \in {"stop", "wait"} =>
                          j < 7 /\ u[j + 1].step = Nxt[u[j].step]
    BY <2>1 DEF Nxt
  <2>4. Linked(u) /\ Opens(u)
    BY <2>1, <2>2, <2>3 DEF Linked, Opens, Linking
  <2>5. QED BY <2>4 DEF u
<1>8. QED BY <1>6, <1>7 DEF s, Sound

LEMMA PlanSound ==
  ASSUME NEW op \in Operations, NEW k \in Keys
  PROVE  Sound(Plan(op, k))
<1>1. CASE op = "Get"
  <2>1. Sound(UnderRead(With1("find", k)))
    BY BareFacts, BareSound, UnderSound
  <2>2. Sound(UnderRead(With1("find", k)) \o Recorded("get"))
    BY <2>1, RecordedBare, SoundConcat
  <2>3. QED BY <1>1, <2>2 DEF Plan
<1>2. CASE op = "Set"
  <2>1. Sound(UnderStore(With1("add", k))) /\ Do("count") \in Seq(BareSteps)
    BY BareFacts, BareSound, UnderSound DEF BareKinds
  <2>2. Sound(UnderWrite(UnderStore(With1("add", k)) \o Do("count")))
    BY <2>1, SoundConcat, UnderSound
  <2>3. Sound(UnderWrite(UnderStore(With1("add", k)) \o Do("count")) \o Recorded("set"))
    BY <2>2, RecordedBare, SoundConcat
  <2>4. QED BY <1>2, <2>3 DEF Plan
<1>3. CASE op = "Delete"
  <2>1. Sound(UnderStore(With1("remove", k))) /\ Invalidated(k, Do("count")) \in Seq(BareSteps)
    BY BareFacts, BareSound, UnderSound
  <2>2. Sound(UnderWrite(UnderStore(With1("remove", k)) \o Invalidated(k, Do("count"))))
    BY <2>1, SoundConcat, UnderSound
  <2>3. QED BY <1>3, <2>2 DEF Plan
<1>4. CASE op = "Clear"
  <2>1. Sound(UnderWrite(Do("keys")))
    BY BareFacts, BareSound, UnderSound DEF BareKinds
  <2>2. QED BY <1>4, <2>1 DEF Plan
<1>5. CASE op = "Cleanup"
  <2>1. Sound(UnderStore(Do("collect"))) /\ Do("count") \in Seq(BareSteps)
    BY BareFacts, BareSound, UnderSound DEF BareKinds
  <2>2. Sound(UnderWrite(UnderStore(Do("collect")) \o Do("count")))
    BY <2>1, SoundConcat, UnderSound
  <2>3. QED BY <1>5, <2>2 DEF Plan
<1>6. CASE op = "Close"
  BY <1>6, CloseSound DEF Plan
<1>7. CASE op = "Has"
  <2>1. Sound(UnderRead(With1("peek", k)))
    BY BareFacts, BareSound, UnderSound
  <2>2. QED BY <1>7, <2>1 DEF Plan
<1>8. CASE op = "Len"
  <2>1. Sound(UnderRead(Do("len")))
    BY BareFacts, BareSound, UnderSound DEF BareKinds
  <2>2. QED BY <1>8, <2>1 DEF Plan
<1>9. CASE op = "Stats"
  <2>1. Sound(Do("count"))
    BY BareFacts, BareSound DEF BareKinds
  <2>2. QED BY <1>9, <2>1 DEF Plan, StatsPlan
<1>10. CASE op = "Reset"
  <2>1. Sound(ResetPlan)
    BY ResetBare, BareSound
  <2>2. QED BY <1>10, <2>1 DEF Plan
<1>11. QED BY <1>1, <1>2, <1>3, <1>4, <1>5, <1>6, <1>7, <1>8, <1>9, <1>10 DEF Operations

\* what is made of each member of a sequence, flattened
LEMMA EachType ==
  ASSUME NEW T, NEW U, NEW s \in Seq(T), NEW p, DOMAIN p = DOMAIN s,
         \A i \in DOMAIN s : p[i] \in Seq(U), p = [i \in DOMAIN p |-> p[i]]
  PROVE  FlattenSeq(p) \in Seq(U)
<1>1. Len(s) \in Nat /\ DOMAIN s = 1..Len(s)
  BY LenProperties
<1>2. p \in [1..Len(s) -> Seq(U)]
  BY <1>1
<1>3. p \in Seq(Seq(U))
  BY <1>1, <1>2, IndexedIsSeq
<1>4. QED BY <1>3, FlattenType

LEMMA EffectsType ==
  ASSUME NEW A, NEW hook \in HooksDoing(A), NEW o
  PROVE  Effects(hook, o) \in Seq(A)
<1> DEFINE p == [i \in DOMAIN hook |-> IF o \in hook[i].on THEN <<hook[i].do>> ELSE <<>>]
<1>1. CASE hook = NilHook
  BY <1>1 DEF Effects
<1>2. CASE hook # NilHook
  <2>1. hook \in Seq([on : SUBSET Occasions, do : A])
    BY <1>2 DEF HooksDoing
  <2>2. \A i \in DOMAIN hook : hook[i].do \in A
    <3>1. DOMAIN hook = 1..Len(hook)
          /\ hook \in [1..Len(hook) -> [on : SUBSET Occasions, do : A]]
      BY <2>1, LenProperties
    <3>2. QED BY <3>1
  <2>3. \A i \in DOMAIN hook : p[i] \in Seq(A)
    BY <2>2
  <2>4. FlattenSeq(p) \in Seq(A)
    <3>1. DOMAIN p = DOMAIN hook /\ p = [i \in DOMAIN p |-> p[i]]
      OBVIOUS
    <3> HIDE DEF p
    <3>2. QED BY <2>1, <2>3, <3>1, EachType
  <2>5. QED BY <1>2, <2>4 DEF Effects
<1>3. QED BY <1>1, <1>2

LEMMA EffectsOfAllType ==
  ASSUME NEW A, NEW hooks \in Seq(HooksDoing(A)), NEW o
  PROVE  EffectsOfAll(hooks, o) \in Seq(A)
<1> DEFINE p == [i \in DOMAIN hooks |-> Effects(hooks[i], o)]
<1>1. \A i \in DOMAIN hooks : p[i] \in Seq(A)
  BY LenProperties, EffectsType
<1>2. DOMAIN p = DOMAIN hooks /\ p = [i \in DOMAIN p |-> p[i]]
  OBVIOUS
<1>3. FlattenSeq(p) \in Seq(A)
  <2> HIDE DEF p
  <2>1. QED BY <1>1, <1>2, EachType
<1>4. QED BY <1>3 DEF EffectsOfAll

LEMMA ByPriorityType ==
  ASSUME NEW A, NEW s \in Seq([hook : HooksDoing(A), priority : Int]), NEW p \in ByPriority(s)
  PROVE  p \in Seq(HooksDoing(A))
<1>1. PICK f \in Bijection(DOMAIN s, DOMAIN s) : p = [i \in DOMAIN s |-> s[f[i]].hook]
  BY DEF ByPriority
<1>2. f \in [DOMAIN s -> DOMAIN s]
  BY DEF Bijection, Injection
<1>3. Len(s) \in Nat /\ DOMAIN s = 1..Len(s) /\ \A i \in DOMAIN s : s[i].hook \in HooksDoing(A)
  <2>1. /\ Len(s) \in Nat /\ DOMAIN s = 1..Len(s)
        /\ s \in [1..Len(s) -> [hook : HooksDoing(A), priority : Int]]
    BY LenProperties
  <2>2. QED BY <2>1
<1>4. p \in [1..Len(s) -> HooksDoing(A)]
  BY <1>1, <1>2, <1>3
<1>5. QED BY <1>3, <1>4, IndexedIsSeq

LEMMA MetType ==
  ASSUME NEW A, NEW s \in Seq([hook : HooksDoing(A), cond : {NilCond} \union SUBSET Occasions]), NEW o
  PROVE  Met(s, o) \in Seq(HooksDoing(A))
<1> DEFINE p == [i \in DOMAIN s |->
                   IF s[i].cond # NilCond /\ o \in s[i].cond THEN <<s[i].hook>> ELSE <<>>]
<1>1. \A i \in DOMAIN s : s[i].hook \in HooksDoing(A)
  <2>1. /\ DOMAIN s = 1..Len(s)
        /\ s \in [1..Len(s) -> [hook : HooksDoing(A), cond : {NilCond} \union SUBSET Occasions]]
    BY LenProperties
  <2>2. QED BY <2>1
<1>2. \A i \in DOMAIN s : p[i] \in Seq(HooksDoing(A))
  BY <1>1
<1>3. DOMAIN p = DOMAIN s /\ p = [i \in DOMAIN p |-> p[i]]
  OBVIOUS
<1>4. FlattenSeq(p) \in Seq(HooksDoing(A))
  <2> HIDE DEF p
  <2>1. QED BY <1>2, <1>3, EachType
<1>5. QED BY <1>4 DEF Met

LEMMA InvokeType ==
  ASSUME NEW A, NEW h \in HooksOf(A), NEW e \in Events, NEW o, NEW atoms \in Invoke(h, e, o)
  PROVE  atoms \in Seq(A)
<1> DEFINE l == h[e]
<1>1. /\ l.plain \in Seq(HooksDoing(A)) /\ l.ctx \in Seq(HooksDoing(A))
      /\ l.priority \in Seq([hook : HooksDoing(A), priority : Int])
      /\ l.ctxPriority \in Seq([hook : HooksDoing(A), priority : Int])
      /\ l.conditional \in Seq([hook : HooksDoing(A), cond : {NilCond} \union SUBSET Occasions])
  BY DEF HooksOf
<1>2. PICK p \in ByPriority(l.priority), cp \in ByPriority(l.ctxPriority) :
        atoms = EffectsOfAll(l.plain \o l.ctx \o p \o cp \o Met(l.conditional, o), o)
  BY DEF Invoke
<1>3. p \in Seq(HooksDoing(A)) /\ cp \in Seq(HooksDoing(A)) /\ Met(l.conditional, o) \in Seq(HooksDoing(A))
  BY <1>1, ByPriorityType, MetType
<1> HIDE DEF l
<1>4. l.plain \o l.ctx \in Seq(HooksDoing(A))
  BY <1>1, ConcatProperties
<1>5. l.plain \o l.ctx \o p \in Seq(HooksDoing(A))
  BY <1>3, <1>4, ConcatProperties
<1>6. l.plain \o l.ctx \o p \o cp \in Seq(HooksDoing(A))
  BY <1>3, <1>5, ConcatProperties
<1>7. l.plain \o l.ctx \o p \o cp \o Met(l.conditional, o) \in Seq(HooksDoing(A))
  BY <1>3, <1>6, ConcatProperties
<1>8. QED BY <1>2, <1>7, EffectsOfAllType

-----------------------------------------------------------------------------
(* The invariant.                                                          *)

\* a process that holds r read locks, w write locks of c.mu and m of the
\* store's mutex has yet to let go as many as it holds and need not take first
Balanced(s, r, w, m) ==
  /\ r + Num(s, "rlock") = Num(s, "runlock")
  /\ w + Num(s, "lock") = Num(s, "unlock")
  /\ m + Num(s, "slock") = Num(s, "sunlock")
BalancedAt(p) == Balanced(todo[p], readers[p], IF writer = p THEN 1 ELSE 0,
                          IF smutex = p THEN 1 ELSE 0)

OrderedAt(p) ==
  LocksFirst(todo[p]) /\ Linked(todo[p]) /\ (reporter = "running" => WaitFirst(todo[p]))

AllSteps == CallSteps \union ReadSteps \union ExportSteps

StateInv == TypeOK /\ \E n \in Nat : DOMAIN exporters = 1..n

TodoInv ==
  /\ todo \in [Procs -> Seq(AllSteps)]
  /\ \A p \in Procs : todo[p] \in Seq(StepsOf(p))
  /\ crashed => \A p \in Procs : todo[p] = <<>>
  /\ ~crashed => \A p \in Procs : BalancedAt(p) /\ OrderedAt(p)

\* the reporter ends with its last step, and before anybody closes the exporter
DoneLast(s) == \A j \in 1..Len(s) : s[j].step = "reporterDone" => j = Len(s)
CloseInv ==
  /\ reporter # "running" => todo[Reporter] = <<>>
  /\ DoneLast(todo[Reporter])
  /\ exporterClosed => reporter # "running"

IInv == StateInv /\ TodoInv /\ CloseInv

LEMMA HeadFacts ==
  ASSUME IInv, NEW p \in Procs, todo[p] # <<>>
  PROVE  /\ ~crashed /\ It(p) = todo[p][1] /\ It(p) \in StepsOf(p)
         /\ It(p).step \in {"export", "reporterDone"} <=> p = Reporter
         /\ It(p).step = "export" => It(p) \in ExportSteps
         /\ It(p).step \in {"find", "add", "remove", "peek"} => It(p) \in KeySteps
         /\ It(p).step = "evicted" => It(p) \in EvictedSteps
         /\ It(p).step = "invalidated" => It(p) \in InvalidatedSteps
         /\ It(p).step = "hook" => It(p) \in HookSteps
         /\ It(p).step = "record" => It(p) \in RecordSteps
         /\ It(p).step = "reset" => It(p) \in ResetSteps
<1>1. ~crashed /\ todo[p] \in Seq(StepsOf(p))
  BY DEF IInv, TodoInv
<1>2. It(p) = todo[p][1] /\ It(p) \in StepsOf(p)
  BY <1>1, HeadTail DEF It
<1>3. CASE p = Reporter
  BY <1>1, <1>2, <1>3, StepFacts DEF StepsOf
<1>4. CASE p # Reporter
  <2>1. It(p) \in CallSteps \/ It(p) \in ReadSteps
    BY <1>2, <1>4 DEF StepsOf
  <2>2. QED BY <1>1, <1>2, <1>4, <2>1, StepFacts
<1>5. QED BY <1>3, <1>4

\* what may come right before a step that is linked
Leading == {"lock", "locked", "stop", "wait"}

LEMMA TailFacts ==
  ASSUME NEW T, NEW s \in Seq(T), s # <<>>
  PROVE  /\ Tail(s) \in Seq(T)
         /\ LocksFirst(s) => LocksFirst(Tail(s))
         /\ LocksFirst(s) /\ s[1].step \notin Calm =>
              \A i \in 1..Len(Tail(s)) : Tail(s)[i].step \notin Locking
         /\ WaitFirst(s) /\ s[1].step # "wait" => WaitFirst(Tail(s))
         /\ DoneLast(s) => DoneLast(Tail(s))
         /\ Linked(s) => Linked(Tail(s))
         /\ Linked(s) /\ s[1].step \notin Leading => Opens(Tail(s))
<1>1. /\ Tail(s) \in Seq(T) /\ Len(s) \in Nat \ {0} /\ Len(Tail(s)) = Len(s) - 1
      /\ \A i \in 1..Len(Tail(s)) : Tail(s)[i] = s[i + 1]
  BY HeadTail
<1>2. ASSUME LocksFirst(s)
      PROVE  LocksFirst(Tail(s))
  <2>1. SUFFICES ASSUME NEW j \in 1..Len(Tail(s)), Tail(s)[j].step \in Locking,
                        NEW i \in 1..(j - 1)
                 PROVE  Tail(s)[i].step \in Calm
    BY DEF LocksFirst
  <2>2. j + 1 \in 1..Len(s) /\ i + 1 \in 1..((j + 1) - 1) /\ i \in 1..Len(Tail(s))
    BY <1>1
  <2>3. QED BY <1>1, <1>2, <2>1, <2>2 DEF LocksFirst
<1>3. ASSUME LocksFirst(s), s[1].step \notin Calm, NEW i \in 1..Len(Tail(s))
      PROVE  Tail(s)[i].step \notin Locking
  <2>1. i + 1 \in 1..Len(s) /\ 1 \in 1..((i + 1) - 1)
    BY <1>1
  <2>2. QED BY <1>1, <1>3, <2>1 DEF LocksFirst
<1>4. ASSUME WaitFirst(s), s[1].step # "wait"
      PROVE  WaitFirst(Tail(s))
  <2>1. SUFFICES ASSUME NEW j \in 1..Len(Tail(s)), Tail(s)[j].step = "closeExporter"
                 PROVE  \E i \in 1..(j - 1) : Tail(s)[i].step = "wait"
    BY DEF WaitFirst
  <2>2. j + 1 \in 1..Len(s) /\ s[j + 1].step = "closeExporter"
    BY <1>1, <2>1
  <2>3. PICK i \in 1..((j + 1) - 1) : s[i].step = "wait"
    BY <1>4, <2>2 DEF WaitFirst
  <2>4. i # 1
    BY <1>4, <2>3
  <2>5. i - 1 \in 1..(j - 1) /\ i - 1 \in 1..Len(Tail(s)) /\ (i - 1) + 1 = i
    BY <1>1, <2>1, <2>3, <2>4
  <2>6. Tail(s)[i - 1] = s[i]
    BY <1>1, <2>5
  <2>7. QED BY <2>3, <2>5, <2>6
<1>5. ASSUME DoneLast(s)
      PROVE  DoneLast(Tail(s))
  <2>1. SUFFICES ASSUME NEW j \in 1..Len(Tail(s)), Tail(s)[j].step = "reporterDone"
                 PROVE  j = Len(Tail(s))
    BY DEF DoneLast
  <2>2. j + 1 \in 1..Len(s) /\ s[j + 1].step = "reporterDone"
    BY <1>1, <2>1
  <2>3. j + 1 = Len(s)
    BY <1>5, <2>2 DEF DoneLast
  <2>4. \A m, n : n \in Nat /\ m = n - 1 /\ j \in 1..m /\ j + 1 = n => j = m
    OBVIOUS
  <2>5. QED BY <1>1, <2>1, <2>3, <2>4, Zenon
<1>6. ASSUME Linked(s)
      PROVE  Linked(Tail(s))
  <2>1. ASSUME NEW j \in 2..Len(Tail(s)), Tail(s)[j].step \in Linking
        PROVE  Tail(s)[j - 1].step = Prev[Tail(s)[j].step]
    <3>1. /\ j + 1 \in 2..Len(s) /\ (j + 1) - 1 = j /\ (j - 1) + 1 = j
          /\ j \in 1..Len(Tail(s)) /\ j - 1 \in 1..Len(Tail(s))
      BY <1>1
    <3>2. Tail(s)[j] = s[j + 1] /\ Tail(s)[j - 1] = s[j]
      BY <1>1, <3>1
    <3>3. s[j + 1].step \in Linking => s[(j + 1) - 1].step = Prev[s[j + 1].step]
      BY <1>6, <3>1 DEF Linked
    <3>4. QED BY <2>1, <3>1, <3>2, <3>3
  <2>2. ASSUME NEW j \in 1..Len(Tail(s)), Tail(s)[j].step \in {"stop", "wait"}
        PROVE  j < Len(Tail(s)) /\ Tail(s)[j + 1].step = Nxt[Tail(s)[j].step]
    <3>1. j + 1 \in 1..Len(s) /\ Tail(s)[j] = s[j + 1]
      BY <1>1
    <3>2. j + 1 < Len(s) /\ s[(j + 1) + 1].step = Nxt[s[j + 1].step]
      BY <1>6, <2>2, <3>1 DEF Linked
    <3>3. j < Len(Tail(s)) /\ j + 1 \in 1..Len(Tail(s))
      BY <1>1, <3>2
    <3>4. QED BY <1>1, <3>1, <3>2, <3>3
  <2>3. QED BY <2>1, <2>2 DEF Linked
<1>7. ASSUME Linked(s), s[1].step \notin Leading
      PROVE  Opens(Tail(s))
  <2>1. SUFFICES ASSUME Tail(s) # <<>>, Tail(s)[1].step \in Linking PROVE FALSE
    BY DEF Opens
  <2>2. 1 \in 1..Len(Tail(s))
    BY <1>1, <2>1, EmptySeq
  <2>3. 2 \in 2..Len(s) /\ Tail(s)[1] = s[2]
    BY <1>1, <2>2
  <2>4. s[1].step = Prev[s[2].step]
    BY <1>7, <2>1, <2>3 DEF Linked
  <2>5. \A x \in Linking : Prev[x] \in Leading
    BY DEF Linking, Prev, Leading
  <2>6. QED BY <1>7, <2>1, <2>3, <2>4, <2>5
<1>8. QED BY <1>1, <1>2, <1>3, <1>4, <1>5, <1>6, <1>7

-----------------------------------------------------------------------------
(* What a step of Next, that takes or frees no lock, does to the processes. *)

Same(q) == todo'[q] = todo[q]

\* the debug handler's reads come in order, and after those of the fields in F
Earlier(f, g) == \E i, j \in DOMAIN DebugOrder : i < j /\ DebugOrder[i] = f /\ DebugOrder[j] = g
ReadsLeft(s, F) ==
  /\ \A i \in 1..Len(s) : s[i].step = "read" => \A f \in F : Earlier(f, s[i].field)
  /\ \A i, j \in 1..Len(s) :
       i < j /\ s[i].step = "read" /\ s[j].step = "read" => Earlier(s[i].field, s[j].field)

\* begins; the reporter only while it runs, and for the last time once it has to stop
Begins(q) ==
  /\ todo[q] = <<>> /\ todo'[q] \in Seq(StepsOf(q))
  /\ Even(todo'[q]) /\ LocksFirst(todo'[q]) /\ WaitFirst(todo'[q])
  /\ Linked(todo'[q]) /\ Opens(todo'[q])
  /\ q = Reporter =>
       /\ reporter = "running" /\ reporter' = "running" /\ DoneLast(todo'[q])
       /\ \/ todo'[q] = ExportPlan
          \/ todo'[q] = ExportPlan \o Do("reporterDone") /\ metricsStop
  /\ ReadsLeft(todo'[q], DOMAIN response)

\* takes its next step, which puts others in front
Ahead(q, steps) ==
  /\ todo[q] # <<>> /\ It(q).step \notin Locking \union Unlocking
  /\ Sound(steps)
  /\ steps # <<>> => It(q).step \notin Calm \union {"stop", "wait"}
  /\ It(q).step \in {"export", "reporterDone"} => steps = <<>>
  /\ It(q).step = "wait" => reporter # "running"
  /\ It(q).step = "export" => ExportStat(q)
  /\ It(q).step = "closeExporter" => exporterClosed'
  /\ todo'[q] = steps \o Tail(todo[q])

Unwinds(q) ==
  /\ q \in Callers /\ todo[q] # <<>>
  /\ It(q).step \notin Calm \union Unlocking \union {"wait", "closeExporter"}
  /\ todo'[q] = Deferred(Tail(todo[q]))

Shape ==
  /\ \A q \in Procs : Same(q) \/ Begins(q) \/ (\E steps : Ahead(q, steps)) \/ Unwinds(q)
  /\ todo' = [q \in Procs |-> todo'[q]]
  /\ UNCHANGED <<locks, crashed>>
  /\ crashed => UNCHANGED todo
  /\ \/ reporter' = reporter
     \/ reporter' = "done" /\ todo'[Reporter] = <<>> /\ At(Reporter, "reporterDone")
  /\ exporterClosed' => exporterClosed \/ reporter # "running"

Crash ==
  /\ crashed' = TRUE /\ todo' = [q \in Procs |-> <<>>]
  /\ reporter' = reporter
  /\ exporterClosed' => exporterClosed \/ reporter # "running"

LEMMA BalancedMore ==
  ASSUME NEW s, NEW t, NEW u, NEW r \in Nat, NEW w \in Nat, NEW m \in Nat,
         \A x \in Locking \union Unlocking :
           Num(u, x) = Num(t, x) + Num(s, x) /\ Num(t, x) \in Nat /\ Num(s, x) \in Nat,
         Even(t), Balanced(s, r, w, m)
  PROVE  Balanced(u, r, w, m)
<1>1. /\ r + Num(s, "rlock") = Num(s, "runlock")
      /\ w + Num(s, "lock") = Num(s, "unlock")
      /\ m + Num(s, "slock") = Num(s, "sunlock")
  BY DEF Balanced
<1>2. /\ Num(t, "rlock") = Num(t, "runlock") /\ Num(t, "lock") = Num(t, "unlock")
      /\ Num(t, "slock") = Num(t, "sunlock")
  BY DEF Even
<1>3. \A x \in {"rlock", "runlock", "lock", "unlock", "slock", "sunlock"} :
        Num(u, x) = Num(t, x) + Num(s, x) /\ Num(t, x) \in Nat /\ Num(s, x) \in Nat
  BY DEF Locking, Unlocking
<1>4. r + Num(u, "rlock") = Num(u, "runlock")
  BY <1>1, <1>2, <1>3
<1>5. w + Num(u, "lock") = Num(u, "unlock")
  BY <1>1, <1>2, <1>3
<1>6. m + Num(u, "slock") = Num(u, "sunlock")
  BY <1>1, <1>2, <1>3
<1>7. QED BY <1>4, <1>5, <1>6 DEF Balanced

LEMMA AheadFacts ==
  ASSUME IInv, NEW q \in Procs, NEW steps, Ahead(q, steps)
  PROVE  /\ todo'[q] \in Seq(StepsOf(q)) /\ LocksFirst(todo'[q]) /\ Linked(todo'[q])
         /\ reporter = "running" => WaitFirst(todo'[q])
         /\ Balanced(todo'[q], readers[q], IF writer = q THEN 1 ELSE 0, IF smutex = q THEN 1 ELSE 0)
         /\ q = Reporter => todo'[q] = Tail(todo[q])
<1> DEFINE s == todo[q]
           t == Tail(s)
<1>1. /\ ~crashed /\ It(q) = s[1] /\ It(q) \in StepsOf(q)
      /\ It(q).step \in {"export", "reporterDone"} <=> q = Reporter
  BY HeadFacts DEF Ahead
<1>2. s \in Seq(StepsOf(q)) /\ s # <<>> /\ BalancedAt(q) /\ OrderedAt(q)
  BY <1>1 DEF IInv, TodoInv, Ahead
<1>3. /\ s[1].step \notin Locking \union Unlocking /\ Sound(steps)
      /\ steps # <<>> => s[1].step \notin Calm \union {"stop", "wait"} /\ q # Reporter
      /\ s[1].step = "wait" => reporter # "running"
      /\ todo'[q] = steps \o t
  BY <1>1 DEF Ahead
<1> HIDE DEF s
<1>4. /\ t \in Seq(StepsOf(q)) /\ LocksFirst(t) /\ Linked(t)
      /\ s[1].step \notin Calm => \A i \in 1..Len(t) : t[i].step \notin Locking
      /\ s[1].step \notin Calm \union {"stop", "wait"} => Opens(t)
      /\ reporter = "running" => WaitFirst(t)
      /\ \A x \in Locking \union Unlocking : Num(s, x) = Num(t, x)
  <2>1. LocksFirst(s) /\ Linked(s) /\ (reporter = "running" => WaitFirst(s))
    BY <1>2 DEF OrderedAt, s
  <2>2. ASSUME NEW x \in Locking \union Unlocking
        PROVE  Num(s, x) = Num(t, x)
    <3>1. Num(s, x) = (IF s[1].step = x THEN 1 ELSE 0) + Num(t, x)
      BY <1>2, NumTail
    <3>2. s[1].step # x
      BY <1>3
    <3>3. Num(t, x) \in Nat
      BY <1>2, TailFacts, NumType
    <3>4. QED BY <3>1, <3>2, <3>3
  <2>3. QED BY <1>2, <1>3, <2>1, <2>2, TailFacts DEF Calm, Locking, Leading
<1>5. Balanced(s, readers[q], IF writer = q THEN 1 ELSE 0, IF smutex = q THEN 1 ELSE 0)
  BY <1>2 DEF BalancedAt, s
<1>6. readers[q] \in Nat
  BY DEF IInv, StateInv, TypeOK
<1>7. CASE steps = <<>>
  <2>1. todo'[q] = t
    <3> HIDE DEF t
    <3>1. <<>> \o t = t
      BY <1>4, ConcatEmptySeq
    <3>2. QED BY <1>3, <1>7, <3>1
  <2>2. Balanced(t, readers[q], IF writer = q THEN 1 ELSE 0, IF smutex = q THEN 1 ELSE 0)
    BY <1>4, <1>5 DEF Balanced, Locking, Unlocking
  <2>3. QED BY <1>4, <2>1, <2>2 DEF s
<1>8. CASE steps # <<>>
  <2> HIDE DEF t
  <2>1. steps \in Seq(CallSteps) /\ Even(steps) /\ LocksFirst(steps) /\ WaitFirst(steps)
    BY <1>3 DEF Sound, Whole
  <2>2. steps \in Seq(StepsOf(q))
    <3>1. CallSteps \subseteq StepsOf(q)
      BY <1>3, <1>8 DEF StepsOf
    <3>2. QED BY <2>1, <3>1, SeqMonotonic
  <2>3. steps \o t \in Seq(StepsOf(q))
    BY <1>4, <2>2, ConcatProperties
  <2>4. LocksFirst(steps \o t)
    BY <1>3, <1>4, <1>8, <2>1, <2>2, LocksFirstConcat
  <2>5. reporter = "running" => WaitFirst(steps \o t)
    BY <1>4, <2>1, <2>2, WaitFirstConcat
  <2>6. \A x \in Locking \union Unlocking :
          /\ Num(steps \o t, x) = Num(steps, x) + Num(s, x)
          /\ Num(steps, x) \in Nat /\ Num(s, x) \in Nat
    <3>1. SUFFICES ASSUME NEW x \in Locking \union Unlocking
                   PROVE  /\ Num(steps \o t, x) = Num(steps, x) + Num(s, x)
                          /\ Num(steps, x) \in Nat /\ Num(s, x) \in Nat
      OBVIOUS
    <3>2. Num(steps, x) \in Nat /\ Num(s, x) \in Nat
      BY <1>2, <2>2, NumType
    <3>3. Num(steps \o t, x) = Num(steps, x) + Num(t, x)
      BY <1>4, <2>2, NumConcat
    <3>4. QED BY <1>4, <3>2, <3>3
  <2>7. Balanced(steps \o t, readers[q], IF writer = q THEN 1 ELSE 0, IF smutex = q THEN 1 ELSE 0)
    BY <1>5, <1>6, <2>1, <2>6, BalancedMore
  <2>8. Linked(steps \o t)
    BY <1>3, <1>4, <1>8, <2>2, LinkedConcat DEF Sound
  <2>9. QED BY <1>3, <1>8, <2>3, <2>4, <2>5, <2>7, <2>8
<1>9. QED BY <1>7, <1>8

LEMMA UnwindsFacts ==
  ASSUME IInv, NEW q \in Procs, Unwinds(q)
  PROVE  /\ todo'[q] \in Seq(StepsOf(q)) /\ LocksFirst(todo'[q]) /\ WaitFirst(todo'[q])
         /\ Linked(todo'[q]) /\ Opens(todo'[q])
         /\ Balanced(todo'[q], readers[q], IF writer = q THEN 1 ELSE 0, IF smutex = q THEN 1 ELSE 0)
<1> DEFINE s == todo[q]
           t == Tail(s)
           u == Deferred(t)
<1>1. /\ ~crashed /\ It(q) = s[1] /\ s # <<>> /\ todo'[q] = u
      /\ s[1].step \notin Calm /\ s[1].step \notin Unlocking
  BY HeadFacts DEF Unwinds
<1>2. s \in Seq(StepsOf(q)) /\ BalancedAt(q) /\ LocksFirst(s)
  BY <1>1 DEF IInv, TodoInv, OrderedAt
<1>3. Balanced(s, readers[q], IF writer = q THEN 1 ELSE 0, IF smutex = q THEN 1 ELSE 0)
  BY <1>2 DEF BalancedAt
<1> HIDE DEF s
<1>4. t \in Seq(StepsOf(q)) /\ \A i \in 1..Len(t) : t[i].step \notin Locking
  BY <1>1, <1>2, TailFacts
<1>5. ASSUME NEW x \in Locking
      PROVE  Num(s, x) = 0
  <2>1. x \in Calm
    BY DEF Calm
  <2>2. \A i \in 1..Len(s) : s[i].step # x
    <3>1. SUFFICES ASSUME NEW i \in 1..Len(s), s[i].step = x PROVE FALSE
      OBVIOUS
    <3>2. Len(s) \in Nat
      BY <1>2, LenProperties
    <3>3. i # 1
      BY <1>1, <2>1, <3>1
    <3>4. 1 \in 1..(i - 1)
      BY <3>2, <3>3
    <3>5. QED BY <1>1, <1>2, <3>1, <3>4 DEF LocksFirst
  <2>3. QED BY <1>2, <2>2, NumType
<1>6. ASSUME NEW x \in Unlocking
      PROVE  Num(u, x) = Num(s, x)
  <2>1. Num(u, x) = Num(t, x)
    BY <1>4, DeferredFacts DEF Unlocking, Kept
  <2>2. Num(s, x) = (IF s[1].step = x THEN 1 ELSE 0) + Num(t, x)
    BY <1>1, <1>2, NumTail
  <2>3. Num(t, x) \in Nat /\ s[1].step # x
    BY <1>1, <1>4, NumType
  <2>4. QED BY <2>1, <2>2, <2>3
<1>7. u \in Seq({e \in StepsOf(q) : e.step \in Kept})
  BY <1>4, DeferredFacts
<1> HIDE DEF t, u
<1>8. \A i \in 1..Len(u) : u[i].step \in Kept
  BY <1>7, ElementOfSeq
<1>9. /\ LocksFirst(u) /\ WaitFirst(u)
      /\ \A x \in Locking : Num(u, x) = 0
  <2>1. \A i \in 1..Len(u) : u[i].step \notin Locking /\ u[i].step # "closeExporter"
    BY <1>8 DEF Kept, Locking
  <2>2. QED BY <1>7, <2>1, NumType DEF LocksFirst, WaitFirst
<1>10. u \in Seq(StepsOf(q))
  BY <1>7, SeqMonotonic
<1>11. Balanced(u, readers[q], IF writer = q THEN 1 ELSE 0, IF smutex = q THEN 1 ELSE 0)
  BY <1>3, <1>5, <1>6, <1>9 DEF Balanced, Locking, Unlocking
<1>12. Linked(u) /\ Opens(u)
  BY <1>8, <1>10, Unlinked DEF Kept, Linking
<1>13. QED BY <1>1, <1>9, <1>10, <1>11, <1>12

LEMMA ShapeKeeps ==
  ASSUME IInv, Shape
  PROVE  TodoInv' /\ CloseInv'
<1>1. /\ todo \in [Procs -> Seq(AllSteps)] /\ \A p \in Procs : todo[p] \in Seq(StepsOf(p))
      /\ crashed => \A p \in Procs : todo[p] = <<>>
      /\ ~crashed => \A p \in Procs : BalancedAt(p) /\ OrderedAt(p)
      /\ reporter # "running" => todo[Reporter] = <<>>
      /\ DoneLast(todo[Reporter]) /\ (exporterClosed => reporter # "running")
      /\ readers \in [Procs -> Nat]
  BY DEF IInv, TodoInv, CloseInv, StateInv, TypeOK
<1>2. /\ \A q \in Procs : Same(q) \/ Begins(q) \/ (\E steps : Ahead(q, steps)) \/ Unwinds(q)
      /\ todo' = [q \in Procs |-> todo'[q]]
      /\ readers' = readers /\ writer' = writer /\ smutex' = smutex /\ crashed' = crashed
      /\ crashed => todo' = todo
      /\ reporter' = reporter \/ (reporter' = "done" /\ todo'[Reporter] = <<>>)
      /\ exporterClosed' => exporterClosed \/ reporter # "running"
  BY DEF Shape, locks
<1>3. ASSUME NEW q \in Procs
      PROVE  /\ todo'[q] \in Seq(StepsOf(q))
             /\ ~crashed => BalancedAt(q)' /\ OrderedAt(q)'
  <2> DEFINE w == IF writer = q THEN 1 ELSE 0
             m == IF smutex = q THEN 1 ELSE 0
  <2>1. BalancedAt(q)' <=> Balanced(todo'[q], readers[q], w, m)
    BY <1>2 DEF BalancedAt, Balanced
  <2>2. OrderedAt(q)' <=> /\ LocksFirst(todo'[q]) /\ Linked(todo'[q])
                          /\ reporter' = "running" => WaitFirst(todo'[q])
    BY DEF OrderedAt, LocksFirst, WaitFirst, Linked
  <2>3. reporter' = "running" => reporter = "running"
    BY <1>2
  <2>4. CASE Same(q)
    <3>1. todo'[q] = todo[q]
      BY <2>4 DEF Same
    <3>2. ~crashed => Balanced(todo'[q], readers[q], w, m)
      BY <1>1, <3>1 DEF BalancedAt
    <3>3. ~crashed => /\ LocksFirst(todo'[q]) /\ Linked(todo'[q])
                      /\ reporter = "running" => WaitFirst(todo'[q])
      BY <1>1, <3>1 DEF OrderedAt
    <3> HIDE DEF w, m
    <3>4. QED BY <1>1, <2>1, <2>2, <2>3, <3>1, <3>2, <3>3
  <2>5. CASE Begins(q)
    <3>1. /\ todo[q] = <<>> /\ todo'[q] \in Seq(StepsOf(q))
          /\ Even(todo'[q]) /\ LocksFirst(todo'[q]) /\ WaitFirst(todo'[q]) /\ Linked(todo'[q])
      BY <2>5 DEF Begins
    <3>2. ~crashed => Balanced(todo'[q], readers[q], w, m)
      <4>1. SUFFICES ASSUME ~crashed PROVE Balanced(todo'[q], readers[q], w, m)
        OBVIOUS
      <4>2. Balanced(<<>>, readers[q], w, m)
        BY <1>1, <3>1, <4>1 DEF BalancedAt
      <4>3. \A x \in Locking \union Unlocking : Num(todo'[q], x) \in Nat /\ Num(<<>>, x) = 0
        BY <3>1, NumType, NumShort
      <4>4. readers[q] \in Nat /\ w \in Nat /\ m \in Nat
        BY <1>1
      <4> HIDE DEF w, m
      <4>5. \A x \in Locking \union Unlocking :
              /\ Num(todo'[q], x) = Num(todo'[q], x) + Num(<<>>, x)
              /\ Num(todo'[q], x) \in Nat /\ Num(<<>>, x) \in Nat
        BY <4>3
      <4>6. QED BY <3>1, <4>2, <4>4, <4>5, BalancedMore
    <3> HIDE DEF w, m
    <3>3. QED BY <2>1, <2>2, <3>1, <3>2
  <2>6. CASE \E steps : Ahead(q, steps)
    <3>1. PICK steps : Ahead(q, steps)
      BY <2>6
    <3>2. /\ todo'[q] \in Seq(StepsOf(q)) /\ LocksFirst(todo'[q]) /\ Linked(todo'[q])
          /\ reporter = "running" => WaitFirst(todo'[q])
          /\ Balanced(todo'[q], readers[q], w, m)
      BY <3>1, AheadFacts
    <3> HIDE DEF w, m
    <3>3. QED BY <2>1, <2>2, <2>3, <3>2
  <2>7. CASE Unwinds(q)
    <3>1. /\ todo'[q] \in Seq(StepsOf(q)) /\ LocksFirst(todo'[q]) /\ WaitFirst(todo'[q])
          /\ Linked(todo'[q])
          /\ Balanced(todo'[q], readers[q], w, m)
      BY <2>7, UnwindsFacts
    <3> HIDE DEF w, m
    <3>2. QED BY <2>1, <2>2, <3>1
  <2>8. QED BY <1>2, <2>4, <2>5, <2>6, <2>7
<1>4. TodoInv'
  <2>1. \A q \in Procs : StepsOf(q) \subseteq AllSteps
    BY DEF StepsOf, AllSteps
  <2>2. \A q \in Procs : todo'[q] \in Seq(AllSteps)
    BY <1>3, <2>1, SeqMonotonic
  <2>3. todo' \in [Procs -> Seq(AllSteps)]
    BY <1>2, <2>2
  <2>4. \A q \in Procs : (StepsOf(q))' = StepsOf(q)
    BY DEF StepsOf
  <2>5. crashed' => \A q \in Procs : todo'[q] = <<>>
    BY <1>1, <1>2
  <2>6. QED BY <1>2, <1>3, <2>3, <2>5 DEF TodoInv
<1>5. CloseInv'
  <2>1. Reporter \in Procs /\ Reporter \notin Callers
    BY ProcsApart DEF Procs
  <2>2. Same(Reporter) \/ Begins(Reporter)
        \/ (todo[Reporter] # <<>> /\ todo'[Reporter] = Tail(todo[Reporter]))
    <3>1. ~Unwinds(Reporter)
      BY <2>1 DEF Unwinds
    <3>2. ASSUME NEW steps, Ahead(Reporter, steps)
          PROVE  todo[Reporter] # <<>> /\ todo'[Reporter] = Tail(todo[Reporter])
      BY <2>1, <3>2, AheadFacts DEF Ahead
    <3>3. QED BY <1>2, <2>1, <3>1, <3>2
  <2>3. DoneLast(todo'[Reporter])
    <3>1. Same(Reporter) => DoneLast(todo'[Reporter])
      BY <1>1 DEF Same
    <3>2. Begins(Reporter) => DoneLast(todo'[Reporter])
      BY DEF Begins
    <3>3. todo[Reporter] # <<>> => DoneLast(Tail(todo[Reporter]))
      BY <1>1, <2>1, TailFacts
    <3>4. QED BY <2>2, <3>1, <3>2, <3>3
  <2>4. reporter' # "running" => todo'[Reporter] = <<>>
    BY <1>1, <1>2, <2>2 DEF Same, Begins
  <2>5. exporterClosed' => reporter' # "running"
    BY <1>1, <1>2
  <2>6. DoneLast(todo[Reporter])'
    BY <2>3 DEF DoneLast
  <2>7. QED BY <2>4, <2>5, <2>6 DEF CloseInv
<1>6. QED BY <1>4, <1>5

LEMMA CrashKeeps ==
  ASSUME IInv, Crash
  PROVE  TodoInv' /\ CloseInv'
<1>1. \A q \in Procs : todo'[q] = <<>>
  BY DEF Crash
<1>2. TodoInv'
  <2>1. todo' \in [Procs -> Seq(AllSteps)]
    BY DEF Crash
  <2>2. QED BY <1>1, <2>1 DEF TodoInv, Crash
<1>3. CloseInv'
  <2>1. todo'[Reporter] = <<>>
    BY <1>1 DEF Procs
  <2>2. DoneLast(todo[Reporter])'
    BY <2>1 DEF DoneLast
  <2>3. exporterClosed' => reporter' # "running"
    BY DEF IInv, CloseInv, Crash
  <2>4. QED BY <2>1, <2>2, <2>3 DEF CloseInv
<1>4. QED BY <1>2, <1>3

-----------------------------------------------------------------------------
(* The steps that take and free locks.                                     *)

LEMMA LockTail ==
  ASSUME IInv, NEW p \in Procs, todo[p] # <<>>, It(p).step \in Locking \union Unlocking,
         Continue(p, <<>>)
  PROVE  /\ p # Reporter /\ ~crashed
         /\ todo' \in [Procs -> Seq(AllSteps)] /\ \A q \in Procs : todo'[q] \in Seq(StepsOf(q))
         /\ \A q \in Procs \ {p} : todo'[q] = todo[q]
         /\ LocksFirst(todo'[p]) /\ Linked(todo'[p])
         /\ reporter = "running" => WaitFirst(todo'[p])
         /\ \A x \in Locking \union Unlocking :
              /\ Num(todo'[p], x) \in Nat
              /\ Num(todo[p], x) = (IF It(p).step = x THEN 1 ELSE 0) + Num(todo'[p], x)
         /\ It(p).step \in Unlocking => \A x \in Locking : Num(todo'[p], x) = 0
<1> DEFINE s == todo[p]
           t == Tail(s)
<1>1. /\ ~crashed /\ It(p) = s[1] /\ It(p) \in StepsOf(p)
      /\ It(p).step \in {"export", "reporterDone"} <=> p = Reporter
  BY HeadFacts
<1>2. /\ s \in Seq(StepsOf(p)) /\ s # <<>>
      /\ LocksFirst(s) /\ Linked(s) /\ (reporter = "running" => WaitFirst(s))
      /\ todo \in [Procs -> Seq(AllSteps)] /\ \A q \in Procs : todo[q] \in Seq(StepsOf(q))
      /\ StepsOf(p) \subseteq AllSteps
  <2>1. StepsOf(p) \subseteq AllSteps
    BY DEF StepsOf, AllSteps
  <2>2. QED BY <1>1, <2>1 DEF IInv, TodoInv, OrderedAt
<1>3. todo' = [todo EXCEPT ![p] = t]
  <2>1. <<>> \o t = t
    <3>1. t \in Seq(StepsOf(p))
      BY <1>2, TailFacts
    <3> HIDE DEF t
    <3>2. QED BY <3>1, ConcatEmptySeq
  <2>2. QED BY <2>1 DEF Continue
<1> HIDE DEF s
<1>4. /\ t \in Seq(StepsOf(p)) /\ LocksFirst(t) /\ Linked(t)
      /\ s[1].step \notin Calm => \A i \in 1..Len(t) : t[i].step \notin Locking
      /\ reporter = "running" => WaitFirst(t)
  <2>1. s[1].step # "wait"
    BY <1>1 DEF Locking, Unlocking
  <2>2. QED BY <1>2, <2>1, TailFacts
<1>5. \A x \in Locking \union Unlocking :
        Num(t, x) \in Nat /\ Num(s, x) = (IF It(p).step = x THEN 1 ELSE 0) + Num(t, x)
  <2>1. SUFFICES ASSUME NEW x \in Locking \union Unlocking
                 PROVE  /\ Num(t, x) \in Nat
                        /\ Num(s, x) = (IF It(p).step = x THEN 1 ELSE 0) + Num(t, x)
    OBVIOUS
  <2>2. Num(t, x) \in Nat
    BY <1>4, NumType
  <2>3. Num(s, x) = (IF s[1].step = x THEN 1 ELSE 0) + Num(t, x)
    BY <1>2, NumTail
  <2>4. QED BY <1>1, <2>2, <2>3, Zenon
<1>6. It(p).step \in Unlocking => \A x \in Locking : Num(t, x) = 0
  <2>1. SUFFICES ASSUME It(p).step \in Unlocking, NEW x \in Locking PROVE Num(t, x) = 0
    OBVIOUS
  <2>2. s[1].step \notin Calm
    BY <1>1, <2>1 DEF Unlocking, Calm, Locking
  <2>3. \A i \in 1..Len(t) : t[i].step # x
    BY <1>4, <2>1, <2>2
  <2> HIDE DEF t
  <2>4. QED BY <1>4, <2>3, NumType
<1> HIDE DEF t
<1>7. t \in Seq(AllSteps)
  BY <1>2, <1>4, SeqMonotonic
<1>8. todo'[p] = t /\ \A q \in Procs \ {p} : todo'[q] = todo[q]
  BY <1>2, <1>3
<1>9. todo' \in [Procs -> Seq(AllSteps)]
  BY <1>2, <1>3, <1>7
<1>10. p # Reporter
  BY <1>1 DEF Locking, Unlocking
<1>11. \A q \in Procs : todo'[q] \in Seq(StepsOf(q))
  BY <1>2, <1>4, <1>8
<1>12. QED BY <1>1, <1>4, <1>5, <1>6, <1>8, <1>9, <1>10, <1>11 DEF s

\* a writer that has c.mu once its readers are gone
LEMMA LockedIs ==
  ASSUME IInv, NEW p \in Procs, LockStep(p), It(p).step = "locked"
  PROVE  Shape
<1>1. todo[p] # <<>> /\ It(p) = todo[p][1] /\ It(p).step = todo[p][1].step
  BY HeadFacts DEF LockStep, Lock, Unlock, At
<1>2. UNCHANGED locks
  BY <1>1 DEF LockStep, Lock, Unlock, At
<1>3. Ahead(p, <<>>)
  <2>1. Sound(<<>>)
    BY EmptySound
  <2>2. todo'[p] = <<>> \o Tail(todo[p])
    BY DEF LockStep, Continue, IInv, TodoInv
  <2>3. QED BY <1>1, <2>1, <2>2 DEF Ahead, Locking, Unlocking
<1>4. \A q \in Procs \ {p} : Same(q)
  BY DEF LockStep, Continue, IInv, TodoInv, Same
<1>5. todo' = [q \in Procs |-> todo'[q]]
  BY DEF LockStep, Continue, IInv, TodoInv
<1>6. ~crashed
  BY <1>1, HeadFacts
<1>7. QED BY <1>2, <1>3, <1>4, <1>5, <1>6 DEF Shape, LockStep, closing, fate

LEMMA LockStepKeeps ==
  ASSUME IInv, NEW p \in Procs, LockStep(p)
  PROVE  IInv'
<1>1. todo[p] # <<>> /\ It(p) = todo[p][1] /\ It(p).step = todo[p][1].step
  BY HeadFacts DEF LockStep, Lock, Unlock, At
<1>2. CASE It(p).step = "locked"
  <2>1. Shape
    BY <1>2, LockedIs
  <2>2. TodoInv' /\ CloseInv'
    BY <2>1, ShapeKeeps
  <2>3. StateInv'
    BY <2>1 DEF LockStep, Shape, IInv, StateInv, TypeOK, store, counts, exports, closing, fate, locks,
                Held
  <2>4. QED BY <2>2, <2>3 DEF IInv
<1>3. CASE It(p).step # "locked"
  <2> DEFINE w(q) == IF writer = q THEN 1 ELSE 0
             m(q) == IF smutex = q THEN 1 ELSE 0
             x == It(p).step
  <2>1. x \in Locking \union Unlocking
    BY <1>1, <1>3 DEF LockStep, Lock, Unlock, At, Locking, Unlocking
  <2>2. /\ p # Reporter /\ ~crashed
        /\ todo' \in [Procs -> Seq(AllSteps)] /\ \A q \in Procs : todo'[q] \in Seq(StepsOf(q))
        /\ \A q \in Procs \ {p} : todo'[q] = todo[q]
        /\ LocksFirst(todo'[p]) /\ Linked(todo'[p])
        /\ reporter = "running" => WaitFirst(todo'[p])
        /\ \A y \in Locking \union Unlocking :
              /\ Num(todo'[p], y) \in Nat
              /\ Num(todo[p], y) = (IF x = y THEN 1 ELSE 0) + Num(todo'[p], y)
        /\ x \in Unlocking => \A y \in Locking : Num(todo'[p], y) = 0
    BY <1>1, <2>1, LockTail DEF LockStep
  <2>3. /\ \A q \in Procs : BalancedAt(q) /\ OrderedAt(q)
        /\ readers \in [Procs -> Nat]
        /\ writer \in Procs \union {Nobody} /\ smutex \in Procs \union {Nobody} /\ Nobody \notin Procs
    BY <2>2, ProcsApart DEF IInv, TodoInv, StateInv, TypeOK
  <2>4. /\ readers[p] + Num(todo[p], "rlock") = Num(todo[p], "runlock")
        /\ w(p) + Num(todo[p], "lock") = Num(todo[p], "unlock")
        /\ m(p) + Num(todo[p], "slock") = Num(todo[p], "sunlock")
    BY <2>3 DEF BalancedAt, Balanced
  <2>5. UNCHANGED <<scenario, store, counts, exports, lines, closing, fate, unsafe, wiped,
                   torn>>
    BY DEF LockStep
  <2>6. \/ x = "rlock" /\ readers' = [readers EXCEPT ![p] = @ + 1] /\ UNCHANGED <<writer, smutex>>
        \/ x = "lock" /\ writer = Nobody /\ writer' = p /\ UNCHANGED <<readers, smutex>>
        \/ x = "slock" /\ smutex = Nobody /\ smutex' = p /\ UNCHANGED <<readers, writer>>
        \/ x = "runlock" /\ readers' = [readers EXCEPT ![p] = @ - 1] /\ UNCHANGED <<writer, smutex>>
        \/ x = "unlock" /\ writer' = Nobody /\ UNCHANGED <<readers, smutex>>
        \/ x = "sunlock" /\ smutex' = Nobody /\ UNCHANGED <<readers, writer>>
    BY <1>1, <1>3 DEF LockStep, Lock, Unlock, At
  <2>7. /\ x = "runlock" => readers[p] >= 1
        /\ x = "unlock" => writer = p
        /\ x = "sunlock" => smutex = p
    <3> DEFINE n(y) == Num(todo'[p], y)
    <3>1. \A y \in {"rlock", "runlock", "lock", "unlock", "slock", "sunlock"} :
            n(y) \in Nat /\ Num(todo[p], y) = (IF x = y THEN 1 ELSE 0) + n(y)
      BY <2>2 DEF Locking, Unlocking
    <3>2. x \in Unlocking => n("rlock") = 0 /\ n("lock") = 0 /\ n("slock") = 0
      BY <2>2 DEF Locking
    <3> HIDE DEF n, x
    <3>3. x = "runlock" => readers[p] >= 1
      BY <2>3, <2>4, <3>1, <3>2 DEF Unlocking
    <3>4. x = "unlock" => w(p) >= 1
      BY <2>4, <3>1, <3>2 DEF Unlocking
    <3>5. x = "sunlock" => m(p) >= 1
      BY <2>4, <3>1, <3>2 DEF Unlocking
    <3>6. QED BY <3>3, <3>4, <3>5
  <2>8. /\ readers' \in [Procs -> Nat]
        /\ writer' \in Procs \union {Nobody} /\ smutex' \in Procs \union {Nobody}
    <3> HIDE DEF x
    <3>1. x = "runlock" => readers[p] - 1 \in Nat
      BY <2>3, <2>7
    <3>2. QED BY <2>3, <2>6, <3>1
  <2>9. StateInv'
    BY <2>2, <2>5, <2>8 DEF IInv, StateInv, TypeOK, store, counts, exports, closing, fate, Held
  <2>10. ASSUME NEW q \in Procs
         PROVE  BalancedAt(q)' /\ OrderedAt(q)'
    <3>1. BalancedAt(q)' <=>
            Balanced(todo'[q], readers'[q], IF writer' = q THEN 1 ELSE 0, IF smutex' = q THEN 1 ELSE 0)
      BY DEF BalancedAt, Balanced
    <3>2. OrderedAt(q)' <=> /\ LocksFirst(todo'[q]) /\ Linked(todo'[q])
                            /\ reporter' = "running" => WaitFirst(todo'[q])
      BY DEF OrderedAt, LocksFirst, WaitFirst, Linked
    <3>3. CASE q # p
      <4>1. todo'[q] = todo[q] /\ reporter' = reporter
        BY <2>2, <2>5, <3>3 DEF closing
      <4>2. readers'[q] = readers[q] /\ (writer' = q <=> writer = q) /\ (smutex' = q <=> smutex = q)
        <5> HIDE DEF x
        <5>1. QED BY <2>3, <2>6, <2>7, <3>3
      <4>3. BalancedAt(q) /\ OrderedAt(q)
        BY <2>3
      <4>4. QED BY <3>1, <3>2, <4>1, <4>2, <4>3 DEF BalancedAt, OrderedAt
    <3>4. CASE q = p
      <4> DEFINE n(y) == Num(todo'[p], y)
      <4>1. \A y \in {"rlock", "runlock", "lock", "unlock", "slock", "sunlock"} :
              n(y) \in Nat /\ Num(todo[p], y) = (IF x = y THEN 1 ELSE 0) + n(y)
        BY <2>2 DEF Locking, Unlocking
      <4> HIDE DEF n, x
      <4>2. readers'[p] + n("rlock") = n("runlock")
        BY <2>3, <2>4, <2>6, <4>1
      <4>3. (IF writer' = p THEN 1 ELSE 0) + n("lock") = n("unlock")
        BY <2>3, <2>4, <2>6, <2>7, <4>1
      <4>4. (IF smutex' = p THEN 1 ELSE 0) + n("slock") = n("sunlock")
        BY <2>3, <2>4, <2>6, <2>7, <4>1
      <4>5. BalancedAt(q)'
        BY <3>1, <3>4, <4>2, <4>3, <4>4 DEF n, Balanced
      <4>6. reporter' = reporter
        BY <2>5 DEF closing
      <4>7. QED BY <2>2, <3>2, <3>4, <4>5, <4>6
    <3>5. QED BY <3>3, <3>4
  <2>11. TodoInv'
    <3>1. crashed' = crashed
      BY <2>5 DEF fate
    <3>2. QED BY <2>2, <2>10, <3>1 DEF TodoInv
  <2>12. CloseInv'
    <3>1. todo'[Reporter] = todo[Reporter]
      BY <2>2 DEF Procs
    <3>2. DoneLast(todo[Reporter])' <=> DoneLast(todo[Reporter])
      BY <3>1 DEF DoneLast
    <3>3. QED BY <2>5, <3>1, <3>2 DEF IInv, CloseInv, closing
  <2>13. QED BY <2>9, <2>11, <2>12 DEF IInv
<1>4. QED BY <1>2, <1>3

-----------------------------------------------------------------------------
(* The other steps of a process, one action after the other.               *)

LEMMA AtFacts ==
  ASSUME IInv, NEW p \in Procs, NEW x, At(p, x)
  PROVE  todo[p] # <<>> /\ It(p).step = x /\ ~crashed
BY HeadFacts DEF At

LEMMA ScenarioFacts ==
  ASSUME IInv
  PROVE  /\ S.hooks \in HooksOf({a \in Atoms : Fits(S, a)}) /\ S.ops \subseteq Operations
         /\ S.reporting \in BOOLEAN
         /\ S.counted \subseteq Events /\ S.logged \subseteq Events
         /\ S.counted # {} => S.exporters # <<>> /\ \A d \in S.registry : d.name \notin S.counted
BY ScenariosKnown DEF IInv, StateInv, TypeOK, S

LEMMA NoReads ==
  ASSUME NEW s \in Seq(CallSteps \union ExportSteps), NEW F
  PROVE  ReadsLeft(s, F)
<1>1. \A i \in 1..Len(s) : s[i].step # "read"
  BY ElementOfSeq, StepFacts
<1>2. QED BY <1>1 DEF ReadsLeft

LEMMA AheadIs ==
  ASSUME IInv, NEW p \in Procs, todo[p] # <<>>, NEW steps, Sound(steps), Continue(p, steps),
         It(p).step \notin Locking \union Unlocking,
         steps # <<>> => It(p).step \notin Calm \union {"stop", "wait", "export", "reporterDone"},
         It(p).step = "wait" => reporter # "running",
         It(p).step = "export" => ExportStat(p),
         It(p).step = "closeExporter" => exporterClosed',
         UNCHANGED <<locks, crashed, reporter>>,
         exporterClosed' => exporterClosed \/ reporter # "running"
  PROVE  Shape
<1>1. todo \in [Procs -> Seq(AllSteps)]
  BY DEF IInv, TodoInv
<1>2. todo'[p] = steps \o Tail(todo[p]) /\ todo' = [q \in Procs |-> todo'[q]]
      /\ \A q \in Procs \ {p} : Same(q)
  BY <1>1 DEF Continue, Same
<1>3. Ahead(p, steps)
  BY <1>2 DEF Ahead
<1>4. ~crashed
  BY HeadFacts
<1>5. QED BY <1>2, <1>3, <1>4 DEF Shape

\* a store.Get that finds its key expired starts a goroutine as well
LEMMA StartIs ==
  ASSUME IInv, NEW p \in Procs, todo[p] # <<>>, NEW steps, Sound(steps), NEW k \in Keys,
         StartRemover(k, Then(p, steps)),
         It(p).step \notin Locking \union Unlocking \union {"wait", "export", "closeExporter"},
         steps # <<>> => It(p).step \notin Calm \union {"stop", "wait", "export", "reporterDone"},
         UNCHANGED <<locks, crashed, reporter, exporterClosed>>
  PROVE  Shape
<1> DEFINE removal == UnderStore(With1("remove", k)) \o Evicted(k, "TTL")
<1>1. PICK r \in Removers : todo[r] = <<>> /\ todo' = [Then(p, steps) EXCEPT ![r] = removal]
  BY DEF StartRemover
<1>2. todo \in [Procs -> Seq(AllSteps)] /\ r \in Procs /\ r # p /\ r # Reporter
  BY <1>1, ProcsApart DEF IInv, TodoInv, Procs
<1> HIDE DEF removal
<1>3. /\ todo'[p] = steps \o Tail(todo[p]) /\ todo'[r] = removal
      /\ todo' = [q \in Procs |-> todo'[q]]
      /\ \A q \in Procs \ {p, r} : Same(q)
  BY <1>1, <1>2 DEF Then, Same
<1>4. Ahead(p, steps)
  BY <1>3 DEF Ahead
<1>5. Begins(r)
  <2>1. Sound(UnderStore(With1("remove", k))) /\ Evicted(k, "TTL") \in Seq(BareSteps)
    BY BareFacts, BareSound, UnderSound DEF EvictReasons
  <2>2. Sound(removal)
    BY <2>1, SoundConcat DEF removal
  <2>3. CallSteps \subseteq StepsOf(r)
    BY <1>2 DEF StepsOf
  <2>4. removal \in Seq(StepsOf(r))
    BY <2>2, <2>3, SeqMonotonic DEF Sound, Whole
  <2>5. removal \in Seq(CallSteps \union ExportSteps)
    BY <2>2, SeqMonotonic DEF Sound, Whole
  <2>6. ReadsLeft(removal, DOMAIN response)
    BY <2>5, NoReads
  <2>7. QED BY <1>1, <1>2, <1>3, <2>2, <2>4, <2>6 DEF Begins, Sound, Whole
<1>6. ~crashed
  BY HeadFacts
<1>7. QED BY <1>3, <1>4, <1>5, <1>6 DEF Shape

LEMMA PanicIs ==
  ASSUME IInv, NEW p \in Procs, todo[p] # <<>>, Panic(p),
         It(p).step \notin Calm \union Unlocking \union {"wait", "closeExporter"},
         UNCHANGED <<locks, reporter, exporterClosed>>
  PROVE  (Shape \/ Crash) /\ panicked' \in BOOLEAN /\ crashed' \in BOOLEAN
<1>1. todo \in [Procs -> Seq(AllSteps)] /\ crashed \in BOOLEAN
  BY DEF IInv, TodoInv, StateInv, TypeOK
<1>2. panicked' \in BOOLEAN /\ crashed' \in BOOLEAN
  BY <1>1 DEF Panic
<1>3. CASE p \in Callers
  <2>1. todo'[p] = Deferred(Tail(todo[p])) /\ todo' = [q \in Procs |-> todo'[q]]
        /\ \A q \in Procs \ {p} : Same(q)
    BY <1>1, <1>3 DEF Panic, Unwind, Same
  <2>2. Unwinds(p)
    BY <1>3, <2>1 DEF Unwinds
  <2>3. ~crashed /\ crashed' = crashed
    BY <1>3, HeadFacts DEF Panic
  <2>4. Shape
    BY <2>1, <2>2, <2>3 DEF Shape
  <2>5. QED BY <1>2, <2>4
<1>4. CASE p \notin Callers
  BY <1>2, <1>4 DEF Panic, Crash
<1>5. QED BY <1>3, <1>4

\* the hooks of an event
LEMMA HooksBare ==
  ASSUME IInv, NEW e \in Events, NEW step \in Happenings,
         NEW atoms \in Invoke(S.hooks, e, FromCache(step.key))
  PROVE  [i \in DOMAIN atoms |-> [step |-> "hook", atom |-> atoms[i], of |-> step, i |-> 1]]
           \in Seq(BareSteps)
<1> DEFINE s == [i \in DOMAIN atoms |-> [step |-> "hook", atom |-> atoms[i], of |-> step, i |-> 1]]
<1>1. atoms \in Seq(Atoms)
  <2>1. atoms \in Seq({a \in Atoms : Fits(S, a)})
    BY ScenarioFacts, InvokeType
  <2>2. QED BY <2>1, SeqMonotonic
<1>2. Len(atoms) \in Nat /\ DOMAIN atoms = 1..Len(atoms) /\ \A i \in DOMAIN atoms : atoms[i] \in Atoms
  BY <1>1, LenProperties
<1>3. \A a \in Atoms : [step |-> "hook", atom |-> a, of |-> step, i |-> 1] \in BareSteps
  BY DEF HookSteps, BareSteps
<1>4. s \in [1..Len(atoms) -> BareSteps]
  BY <1>2, <1>3
<1>5. QED BY <1>2, <1>4, IndexedIsSeq

LEMMA NotifyBare ==
  ASSUME IInv, NEW p \in Procs, NEW before \in Seq(BareSteps), NEW after \in Seq(BareSteps),
         NEW e \in Events, NEW step \in Happenings, Notify(p, before, e, step, after)
  PROVE  \E steps \in Seq(BareSteps) : Continue(p, steps)
<1>1. PICK atoms \in Invoke(S.hooks, e, FromCache(step.key)) :
        Continue(p, before \o [i \in DOMAIN atoms |-> [step |-> "hook", atom |-> atoms[i],
                                                      of |-> step, i |-> 1]] \o after)
  BY DEF Notify, InvokeOnEvict, InvokeOnInvalidate
<1> DEFINE s == [i \in DOMAIN atoms |-> [step |-> "hook", atom |-> atoms[i], of |-> step, i |-> 1]]
<1>2. s \in Seq(BareSteps)
  BY HooksBare
<1> HIDE DEF s
<1>3. before \o s \in Seq(BareSteps)
  BY <1>2, ConcatProperties
<1>4. before \o s \o after \in Seq(BareSteps)
  BY <1>3, ConcatProperties
<1>5. QED BY <1>1, <1>4 DEF s

\* what is left to show of TypeOK
LEMMA StateIs ==
  ASSUME IInv, Shape \/ Crash, UNCHANGED <<scenario, locks>>,
         live' \subseteq Keys, stale' \subseteq Keys \ live', Cardinality(Held)' <= Capacity,
         stats' \in [DOMAIN Zero -> Nat], keyCount' \in 0..Capacity, lines' \in [Events -> Nat],
         wiped' \in [DOMAIN Zero -> Nat],
         {metricsStop', exporterClosed', stopCleanup', panicked', crashed', unsafe', torn'}
           \subseteq BOOLEAN,
         DOMAIN exporters' = DOMAIN exporters
  PROVE  StateInv'
<1>1. DOMAIN todo' = Procs
  <2>1. todo' = [q \in Procs |-> todo'[q]] \/ todo' = [q \in Procs |-> <<>>]
    BY DEF Shape, Crash
  <2>2. QED BY <2>1
<1>2. reporter' \in {"none", "running", "done"}
  BY DEF IInv, StateInv, TypeOK, Shape, Crash
<1>3. TypeOK'
  BY <1>1, <1>2 DEF IInv, StateInv, TypeOK, locks, Zero
<1>4. (\E n \in Nat : DOMAIN exporters = 1..n)'
  BY DEF IInv, StateInv
<1>5. QED BY <1>3, <1>4 DEF StateInv

LEMMA HeldFacts ==
  ASSUME IInv
  PROVE  /\ live \subseteq Keys /\ stale \subseteq Keys \ live /\ Cardinality(Held) <= Capacity
         /\ \A K : K \subseteq Keys => IsFiniteSet(K) /\ Cardinality(K) \in Nat
         /\ \A K : K \subseteq Held => Cardinality(K) <= Capacity
         /\ stats \in [DOMAIN Zero -> Nat] /\ keyCount \in 0..Capacity /\ lines \in [Events -> Nat]
         /\ {metricsStop, exporterClosed, stopCleanup, panicked, crashed, unsafe, torn} \subseteq BOOLEAN
         /\ wiped \in [DOMAIN Zero -> Nat]
<1>1. /\ live \subseteq Keys /\ stale \subseteq Keys \ live /\ Cardinality(Held) <= Capacity
      /\ stats \in [DOMAIN Zero -> Nat] /\ keyCount \in 0..Capacity /\ lines \in [Events -> Nat]
      /\ {metricsStop, exporterClosed, stopCleanup, panicked, crashed, unsafe, torn} \subseteq BOOLEAN
      /\ wiped \in [DOMAIN Zero -> Nat]
  BY DEF IInv, StateInv, TypeOK
<1>2. \A K : K \subseteq Keys => IsFiniteSet(K) /\ Cardinality(K) \in Nat
  BY KeysFinite, FS_Subset, FS_CardinalityType
<1>3. Held \subseteq Keys
  BY <1>1 DEF Held
<1>4. ASSUME NEW K, K \subseteq Held
      PROVE  Cardinality(K) <= Capacity
  <2>1. Cardinality(K) <= Cardinality(Held) /\ Cardinality(K) \in Nat /\ Cardinality(Held) \in Nat
    BY <1>2, <1>3, <1>4, FS_Subset
  <2>2. QED BY <1>1, <2>1, CapacityPositive
<1>5. QED BY <1>1, <1>2, <1>4

Stepped == (Shape \/ Crash) /\ StateInv'

LEMMA HookLogsIs == ASSUME IInv, NEW p \in Procs, HookLogs(p) PROVE Stepped
<1> DEFINE a == It(p).atom
<1>1. /\ todo[p] # <<>> /\ It(p).step = "hook" /\ It(p) \in HookSteps /\ a \in Atoms
      /\ a.event \in Events
  <2>1. todo[p] # <<>> /\ It(p).step = "hook" /\ It(p) \in HookSteps
    BY AtFacts, HeadFacts DEF HookLogs, HookStep
  <2>2. QED BY <2>1, AtomsKnown DEF HookSteps, HookLogs
<1>2. /\ UNCHANGED <<scenario, locks, store, counts, closing, response, bounds, exports,
                   unsafe, wiped, torn>>
      /\ \/ Panic(p) /\ UNCHANGED lines
         \/ /\ lines' = [lines EXCEPT ![a.event] = @ + Len(LogLines(a, FromCache(It(p).of.key)))]
            /\ Continue(p, <<>>) /\ UNCHANGED fate
  BY DEF HookLogs, HookStep
<1>3. lines' \in [Events -> Nat]
  <2>1. Len(LogLines(a, FromCache(It(p).of.key))) \in Nat
    BY DEF LogLines, Log
  <2>2. lines \in [Events -> Nat]
    BY HeldFacts
  <2> HIDE DEF a
  <2>3. QED BY <1>1, <1>2, <2>1, <2>2
<1>4. (Shape \/ Crash) /\ {panicked', crashed'} \subseteq BOOLEAN
  <2>1. CASE Panic(p)
    BY <1>1, <1>2, <2>1, PanicIs DEF closing, Calm, Unlocking, Locking
  <2>2. CASE Continue(p, <<>>) /\ UNCHANGED fate
    <3>1. Shape
      BY <1>1, <1>2, <2>2, AheadIs, EmptySound DEF closing, fate, Locking, Unlocking
    <3>2. QED BY <2>2, <3>1, HeldFacts DEF fate
  <2>3. QED BY <1>2, <2>1, <2>2
<1>5. StateInv'
  BY <1>2, <1>3, <1>4, StateIs, HeldFacts DEF store, counts, closing, exports, Held
<1>6. QED BY <1>4, <1>5 DEF Stepped

LEMMA HookCountsIs == ASSUME IInv, NEW p \in Procs, HookCounts(p) PROVE Stepped
<1>1. todo[p] # <<>> /\ It(p).step = "hook" /\ It(p) \in HookSteps
  BY AtFacts, HeadFacts DEF HookCounts, HookStep
<1>2. UNCHANGED <<scenario, locks, store, counts, closing, response, bounds, lines, unsafe, wiped,
                torn>>
  BY DEF HookCounts, HookStep
<1>3. DOMAIN exporters' = DOMAIN exporters
  BY DEF HookCounts, exports
<1>4. Panic(p) \/ ((\E steps \in Seq(BareSteps) : Continue(p, steps)) /\ UNCHANGED fate)
  <2>1. Panic(p) \/ (UNCHANGED fate /\ \E steps \in {<<>>, <<[It(p) EXCEPT !.i = It(p).i + 1]>>} :
                                         Continue(p, steps))
    BY DEF HookCounts
  <2>2. [It(p) EXCEPT !.i = It(p).i + 1] \in BareSteps
    BY <1>1 DEF HookSteps, BareSteps
  <2>3. {<<>>, <<[It(p) EXCEPT !.i = It(p).i + 1]>>} \subseteq Seq(BareSteps)
    BY <2>2
  <2>4. QED BY <2>1, <2>3
<1>5. (Shape \/ Crash) /\ {panicked', crashed'} \subseteq BOOLEAN
  <2>1. CASE Panic(p)
    BY <1>1, <1>2, <2>1, PanicIs DEF closing, Calm, Unlocking, Locking
  <2>2. CASE (\E steps \in Seq(BareSteps) : Continue(p, steps)) /\ UNCHANGED fate
    <3>1. PICK steps \in Seq(BareSteps) : Continue(p, steps)
      BY <2>2
    <3>2. Sound(steps)
      BY BareSound
    <3>3. Shape
      BY <1>1, <1>2, <2>2, <3>1, <3>2, AheadIs DEF closing, fate, Locking, Unlocking, Calm
    <3>4. QED BY <2>2, <3>3, HeldFacts DEF fate
  <2>3. QED BY <1>4, <2>1, <2>2
<1>6. StateInv'
  BY <1>2, <1>3, <1>5, StateIs, HeldFacts DEF store, counts, closing, Held
<1>7. QED BY <1>5, <1>6 DEF Stepped

LEMMA HookCallsIs == ASSUME IInv, NEW p \in Procs, HookCalls(p) PROVE Stepped
<1> DEFINE op == It(p).atom.op
           k == It(p).of.key
<1>1. todo[p] # <<>> /\ It(p).step = "hook" /\ op \in Operations /\ k \in Keys
  <2>1. todo[p] # <<>> /\ It(p).step = "hook" /\ It(p) \in HookSteps
    BY AtFacts, HeadFacts DEF HookCalls, HookStep
  <2>2. It(p).atom \in Atoms /\ It(p).of \in Happenings
    BY <2>1 DEF HookSteps
  <2>3. k \in Keys
    BY <2>2 DEF Happenings, EvictedSteps, InvalidatedSteps
  <2>4. QED BY <2>1, <2>2, <2>3, AtomsKnown DEF HookCalls
<1>2. /\ UNCHANGED <<scenario, locks, store, counts, closing, response, bounds, exports, lines, fate,
                   wiped, torn>>
      /\ Continue(p, Plan(op, k)) /\ unsafe' \in BOOLEAN
  BY DEF HookCalls, HookStep
<1>3. Sound(Plan(op, k))
  BY <1>1, PlanSound
<1> HIDE DEF op, k
<1>4. Shape
  BY <1>1, <1>2, <1>3, AheadIs DEF closing, fate, Locking, Unlocking, Calm
<1>5. StateInv'
  BY <1>2, <1>4, StateIs, HeldFacts DEF store, counts, closing, fate, exports, Held
<1>6. QED BY <1>4, <1>5 DEF Stepped

LEMMA HookPanicsIs == ASSUME IInv, NEW p \in Procs, HookPanics(p) PROVE Stepped
<1>1. todo[p] # <<>> /\ It(p).step = "hook" /\ Panic(p)
  BY AtFacts DEF HookPanics, HookStep
<1>2. UNCHANGED <<scenario, locks, store, counts, closing, response, bounds, exports, lines, unsafe,
                wiped, torn>>
  BY DEF HookPanics, HookStep
<1>3. (Shape \/ Crash) /\ panicked' \in BOOLEAN /\ crashed' \in BOOLEAN
  BY <1>1, <1>2, PanicIs DEF closing, Calm, Unlocking, Locking
<1>4. StateInv'
  BY <1>2, <1>3, StateIs, HeldFacts DEF store, counts, closing, exports, Held
<1>5. QED BY <1>3, <1>4 DEF Stepped

\* a step of the store or of the statistics
LEMMA StoreFacts ==
  ASSUME IInv, NEW p \in Procs, NEW x, StoreStep(p, x), x \notin {"export", "reporterDone"}
  PROVE  /\ todo[p] # <<>> /\ It(p).step = x
         /\ UNCHANGED <<scenario, locks, exports, lines, closing, response, bounds, fate, history>>
         /\ It(p).step \in {"find", "add", "remove", "peek"} => It(p).key \in Keys
         /\ x = "find" => It(p) \in Happenings
         /\ x = "evicted" => It(p) \in Happenings
         /\ x = "invalidated" => It(p) \in Happenings /\ It(p).next \in Seq(BareSteps)
<1>1. /\ todo[p] # <<>> /\ It(p).step = x
      /\ It(p).step \in {"find", "add", "remove", "peek"} => It(p) \in KeySteps
      /\ It(p).step = "evicted" => It(p) \in EvictedSteps
      /\ It(p).step = "invalidated" => It(p) \in InvalidatedSteps
  BY AtFacts, HeadFacts DEF StoreStep
<1>2. It(p).step \in {"find", "add", "remove", "peek"} => It(p).key \in Keys
  BY <1>1 DEF KeySteps
<1>3. x = "find" => It(p) \in Happenings
  BY <1>1 DEF KeySteps, Happenings
<1>4. x = "invalidated" => It(p).next \in Seq(BareSteps)
  <2>1. Do("count") \in Seq(BareSteps) /\ <<>> \in Seq(BareSteps)
    BY DoFacts DEF BareKinds
  <2>2. QED BY <1>1, <2>1 DEF InvalidatedSteps
<1>5. QED BY <1>1, <1>2, <1>3, <1>4 DEF StoreStep, Happenings

\* the outcome of such a step
LEMMA StoreIs ==
  ASSUME IInv, NEW p \in Procs, NEW x, StoreStep(p, x),
         x \notin Calm \union Unlocking \union Linking \union {"export", "reporterDone"},
         Shape \/ \E steps : Sound(steps) /\ Continue(p, steps),
         live' \subseteq Keys, stale' \subseteq Keys \ live', Cardinality(Held)' <= Capacity,
         stats' \in [DOMAIN Zero -> Nat], keyCount' \in 0..Capacity
  PROVE  Stepped
<1>1. /\ todo[p] # <<>> /\ It(p).step = x
      /\ UNCHANGED <<scenario, locks, exports, lines, closing, response, bounds, fate, history>>
  BY StoreFacts
<1>2. Shape
  <2>1. ASSUME NEW steps, Sound(steps), Continue(p, steps)
        PROVE  Shape
    BY <1>1, <2>1, AheadIs DEF closing, fate, Calm, Linking
  <2>2. QED BY <2>1
<1>3. StateInv'
  BY <1>1, <1>2, StateIs, HeldFacts DEF closing, exports, fate, history
<1>4. QED BY <1>2, <1>3 DEF Stepped

\* a step that leaves the keys alone
LEMMA SameKeys ==
  ASSUME IInv, UNCHANGED <<store, keyCount>>
  PROVE  /\ live' \subseteq Keys /\ stale' \subseteq Keys \ live' /\ Cardinality(Held)' <= Capacity
         /\ keyCount' \in 0..Capacity
BY HeldFacts DEF store, Held

LEMMA CountFacts ==
  ASSUME IInv, NEW e \in Events, Count(e)
  PROVE  stats' \in [DOMAIN Zero -> Nat]
<1>1. stats \in [DOMAIN Zero -> Nat]
  BY HeldFacts
<1>2. QED BY <1>1 DEF Count, Events, Field, Zero

LEMMA FindIs == ASSUME IInv, NEW p \in Procs, Find(p) PROVE Stepped
<1> DEFINE k == It(p).key
<1>1. /\ todo[p] # <<>> /\ It(p).step = "find" /\ k \in Keys /\ It(p) \in Happenings
      /\ StoreStep(p, "find")
      /\ UNCHANGED <<scenario, locks, exports, lines, closing, response, bounds, fate, history>>
  BY StoreFacts DEF Find
<1>2. stats' \in [DOMAIN Zero -> Nat]
  <2>1. Count("hit") \/ Count("miss")
    BY DEF Find
  <2>2. QED BY <2>1, CountFacts DEF Events
<1>3. Shape \/ \E steps : Sound(steps) /\ Continue(p, steps)
  <2>1. CASE k \in live
    <3>1. Notify(p, <<>>, "hit", It(p), <<>>)
      BY <2>1 DEF Find
    <3>2. <<>> \in Seq(BareSteps)
      OBVIOUS
    <3>3. QED BY <1>1, <3>1, <3>2, NotifyBare, BareSound DEF Events
  <2>2. CASE k \notin live
    <3>1. PICK atoms \in Invoke(S.hooks, "miss", FromCache(k)) :
            LET hooks == [i \in DOMAIN atoms |-> [step |-> "hook", atom |-> atoms[i],
                                                  of |-> It(p), i |-> 1]]
            IN IF k \in stale THEN StartRemover(k, Then(p, hooks)) ELSE todo' = Then(p, hooks)
      BY <2>2 DEF Find
    <3> DEFINE hooks == [i \in DOMAIN atoms |-> [step |-> "hook", atom |-> atoms[i],
                                                 of |-> It(p), i |-> 1]]
    <3>2. hooks \in Seq(BareSteps)
      BY <1>1, HooksBare DEF Events
    <3>3. StartRemover(k, Then(p, hooks)) \/ todo' = Then(p, hooks)
      BY <3>1
    <3> HIDE DEF hooks, k
    <3>4. Sound(hooks)
      BY <3>2, BareSound
    <3>5. CASE StartRemover(k, Then(p, hooks))
      <4>1. Shape
        BY <1>1, <3>4, <3>5, StartIs DEF closing, fate, Locking, Unlocking, Calm
      <4>2. QED BY <4>1
    <3>6. CASE todo' = Then(p, hooks)
      BY <3>4, <3>6 DEF Then, Continue
    <3>7. QED BY <3>3, <3>5, <3>6
  <2>3. QED BY <2>1, <2>2
<1>4. UNCHANGED <<store, keyCount>>
  BY DEF Find
<1>5. QED BY <1>1, <1>2, <1>3, <1>4, SameKeys, StoreIs DEF Calm, Locking, Unlocking, Linking

LEMMA PeekIs == ASSUME IInv, NEW p \in Procs, Peek(p) PROVE Stepped
<1>1. /\ todo[p] # <<>> /\ It(p).step = "peek" /\ It(p).key \in Keys /\ StoreStep(p, "peek")
      /\ UNCHANGED <<scenario, locks, exports, lines, closing, response, bounds, fate, history>>
  BY StoreFacts DEF Peek
<1>2. Shape \/ \E steps : Sound(steps) /\ Continue(p, steps)
  <2>1. CASE StartRemover(It(p).key, Then(p, <<>>))
    <3>1. Shape
      BY <1>1, <2>1, EmptySound, StartIs DEF closing, fate, Locking, Unlocking
    <3>2. QED BY <3>1
  <2>2. CASE Continue(p, <<>>)
    BY <2>2, EmptySound
  <2>3. QED BY <2>1, <2>2 DEF Peek
<1>3. UNCHANGED <<store, keyCount>> /\ stats' \in [DOMAIN Zero -> Nat]
  BY HeldFacts DEF Peek, counts
<1>4. QED BY <1>1, <1>2, <1>3, SameKeys, StoreIs DEF Calm, Locking, Unlocking, Linking

LEMMA AddIs == ASSUME IInv, NEW p \in Procs, Add1(p) PROVE Stepped
<1> DEFINE k == It(p).key
<1>1. k \in Keys /\ StoreStep(p, "add")
  BY StoreFacts DEF Add1
<1>2. stats' \in [DOMAIN Zero -> Nat] /\ keyCount' \in 0..Capacity
  BY HeldFacts DEF Add1, counts
<1>3. /\ live \subseteq Keys /\ stale \subseteq Keys \ live /\ Held \subseteq Keys
      /\ IsFiniteSet(Held) /\ Cardinality(Held) \in Nat /\ Cardinality(Held) <= Capacity
  <2>1. live \subseteq Keys /\ stale \subseteq Keys \ live /\ Cardinality(Held) <= Capacity
    BY HeldFacts
  <2>2. Held \subseteq Keys
    BY <2>1 DEF Held
  <2>3. QED BY <2>1, <2>2, HeldFacts
<1>4. CASE /\ k \in Held \/ Cardinality(Held) < Capacity
           /\ live' = live \union {k} /\ stale' = stale \ {k}
           /\ Continue(p, <<>>)
  <2>1. Held' = Held \union {k}
    BY <1>4 DEF Held
  <2>2. Cardinality(Held)' <= Capacity
    <3>1. Cardinality(Held \union {k}) = IF k \in Held THEN Cardinality(Held) ELSE Cardinality(Held) + 1
      BY <1>3, FS_AddElement
    <3>2. Cardinality(Held \union {k}) <= Capacity
      BY <1>3, <1>4, <3>1, CapacityPositive
    <3>3. QED BY <2>1, <3>2
  <2>3. live' \subseteq Keys /\ stale' \subseteq Keys \ live'
    BY <1>1, <1>3, <1>4
  <2>4. QED BY <1>1, <1>2, <1>4, <2>2, <2>3, EmptySound, StoreIs DEF Calm, Locking, Unlocking, Linking
<1>5. CASE /\ k \notin Held /\ Cardinality(Held) >= Capacity
           /\ \E v \in Held :
                /\ live' = (live \ {v}) \union {k} /\ stale' = stale \ {v}
                /\ Continue(p, Evicted(v, IF S.strategy THEN "Capacity" ELSE "LRU"))
  <2>1. PICK v \in Held :
          /\ live' = (live \ {v}) \union {k} /\ stale' = stale \ {v}
          /\ Continue(p, Evicted(v, IF S.strategy THEN "Capacity" ELSE "LRU"))
    BY <1>5
  <2>2. Held' = (Held \ {v}) \union {k}
    BY <1>5, <2>1 DEF Held
  <2>3. Cardinality(Held)' <= Capacity
    <3>1. IsFiniteSet(Held \ {v}) /\ Cardinality(Held \ {v}) = Cardinality(Held) - 1
      BY <1>3, FS_RemoveElement
    <3>2. Cardinality((Held \ {v}) \union {k}) = Cardinality(Held)
      <4>1. k \notin Held \ {v}
        BY <1>5
      <4>2. Cardinality((Held \ {v}) \union {k}) = Cardinality(Held \ {v}) + 1
        BY <3>1, <4>1, FS_AddElement
      <4>3. QED BY <1>3, <3>1, <4>2
    <3>3. QED BY <1>3, <2>2, <3>2
  <2>4. live' \subseteq Keys /\ stale' \subseteq Keys \ live'
    BY <1>1, <1>3, <1>5, <2>1 DEF Held
  <2>5. Sound(Evicted(v, IF S.strategy THEN "Capacity" ELSE "LRU"))
    BY <1>3, BareFacts, BareSound DEF EvictReasons
  <2>6. QED BY <1>1, <1>2, <2>1, <2>3, <2>4, <2>5, StoreIs DEF Calm, Locking, Unlocking, Linking
<1>6. QED BY <1>4, <1>5 DEF Add1

\* an order of some of the keys
LEMMA SeqsOver ==
  ASSUME IInv, NEW K, K \subseteq Keys, NEW s \in SetToSeqs(K)
  PROVE  s \in Seq(Keys) /\ \A i \in DOMAIN s : s[i] \in Keys
<1>1. Cardinality(K) \in Nat
  BY HeldFacts
<1>2. s \in [1..Cardinality(K) -> Keys]
  BY DEF SetToSeqs
<1>3. QED BY <1>1, <1>2, IndexedIsSeq

LEMMA RemoveIs == ASSUME IInv, NEW p \in Procs, Remove1(p) PROVE Stepped
<1> DEFINE k == It(p).key
<1>1. k \in Keys /\ StoreStep(p, "remove")
  BY StoreFacts DEF Remove1
<1>2. stats' \in [DOMAIN Zero -> Nat] /\ keyCount' \in 0..Capacity
  BY HeldFacts DEF Remove1, counts
<1>3. live' = live \ {k} /\ stale' = stale \ {k}
  BY DEF Remove1
<1>4. live' \subseteq Keys /\ stale' \subseteq Keys \ live' /\ Cardinality(Held)' <= Capacity
  <2>1. Held' \subseteq Held
    BY <1>3 DEF Held
  <2>2. QED BY <1>3, <2>1, HeldFacts
<1>5. \E steps : Sound(steps) /\ Continue(p, steps)
  <2>1. Callback(k) \in Seq(BareSteps)
    BY <1>1, BareFacts
  <2>2. Sound(Callback(k))
    BY <2>1, BareSound
  <2>3. Continue(p, Callback(k)) \/ Continue(p, <<>>)
    BY DEF Remove1
  <2>4. QED BY <2>2, <2>3, EmptySound
<1>6. QED BY <1>1, <1>2, <1>4, <1>5, StoreIs DEF Calm, Locking, Unlocking, Linking

LEMMA CollectIs == ASSUME IInv, NEW p \in Procs, Collect(p) PROVE Stepped
<1>1. StoreStep(p, "collect")
  BY DEF Collect
<1>2. stats' \in [DOMAIN Zero -> Nat] /\ keyCount' \in 0..Capacity
  BY HeldFacts DEF Collect, counts
<1>3. live' \subseteq Keys /\ stale' \subseteq Keys \ live' /\ Cardinality(Held)' <= Capacity
  <2>1. live' = live /\ stale' \subseteq stale
    BY DEF Collect
  <2>2. Held' \subseteq Held
    BY <2>1 DEF Held
  <2>3. QED BY <2>1, <2>2, HeldFacts
<1>4. \E steps : Sound(steps) /\ Continue(p, steps)
  <2>1. CASE \E k \in stale : Continue(p, Callback(k) \o Evicted(k, "TTL") \o Do("collect"))
    <3>1. PICK k \in stale : Continue(p, Callback(k) \o Evicted(k, "TTL") \o Do("collect"))
      BY <2>1
    <3>2. k \in Keys
      BY HeldFacts
    <3>3. Callback(k) \in Seq(BareSteps) /\ Evicted(k, "TTL") \in Seq(BareSteps)
          /\ Do("collect") \in Seq(BareSteps)
      BY <3>2, BareFacts DEF EvictReasons, BareKinds
    <3>4. Callback(k) \o Evicted(k, "TTL") \in Seq(BareSteps)
      BY <3>3, ConcatProperties
    <3>5. Callback(k) \o Evicted(k, "TTL") \o Do("collect") \in Seq(BareSteps)
      BY <3>3, <3>4, ConcatProperties
    <3>6. QED BY <3>1, <3>5, BareSound
  <2>2. CASE Continue(p, <<>>)
    BY <2>2, EmptySound
  <2>3. QED BY <2>1, <2>2 DEF Collect
<1>5. QED BY <1>1, <1>2, <1>3, <1>4, StoreIs DEF Calm, Locking, Unlocking, Linking

LEMMA PurgeIs == ASSUME IInv, NEW p \in Procs, Purge(p) PROVE Stepped
<1>1. StoreStep(p, "purge")
  BY DEF Purge
<1>2. stats' \in [DOMAIN Zero -> Nat] /\ keyCount' \in 0..Capacity
  BY HeldFacts DEF Purge, counts
<1>3. live' \subseteq Keys /\ stale' \subseteq Keys \ live' /\ Cardinality(Held)' <= Capacity
  <2>1. live' = {} /\ stale' = {}
    BY DEF Purge
  <2>2. Held' \subseteq Held
    BY <2>1 DEF Held
  <2>3. QED BY <2>1, <2>2, HeldFacts
<1>4. \E steps : Sound(steps) /\ Continue(p, steps)
  <2>1. PICK s \in SetToSeqs(Held) : Continue(p, FlattenSeq([i \in DOMAIN s |-> Callback(s[i])]))
    BY DEF Purge, Each
  <2> DEFINE f == [i \in DOMAIN s |-> Callback(s[i])]
  <2>2. s \in Seq(Keys) /\ \A i \in DOMAIN s : s[i] \in Keys
    BY HeldFacts, SeqsOver DEF Held
  <2>3. \A i \in DOMAIN s : f[i] \in Seq(BareSteps)
    BY <2>2, BareFacts
  <2>4. DOMAIN f = DOMAIN s /\ f = [i \in DOMAIN f |-> f[i]]
    OBVIOUS
  <2> HIDE DEF f
  <2>5. FlattenSeq(f) \in Seq(BareSteps)
    BY <2>2, <2>3, <2>4, EachType
  <2>6. Sound(FlattenSeq(f))
    BY <2>5, BareSound
  <2>7. QED BY <2>1, <2>6 DEF f
<1>5. QED BY <1>1, <1>2, <1>3, <1>4, StoreIs DEF Calm, Locking, Unlocking, Linking

LEMMA ListKeysIs == ASSUME IInv, NEW p \in Procs, ListKeys(p) PROVE Stepped
<1>1. StoreStep(p, "keys")
  BY DEF ListKeys
<1>2. UNCHANGED <<store, keyCount>> /\ stats' \in [DOMAIN Zero -> Nat]
  BY HeldFacts DEF ListKeys, counts
<1>3. \E steps : Sound(steps) /\ Continue(p, steps)
  <2>1. PICK s \in SetToSeqs(live) :
          Continue(p, UnderStore(Do("purge"))
                      \o FlattenSeq([i \in DOMAIN s |-> Invalidated(s[i], <<>>)]) \o Do("count"))
    BY DEF ListKeys, Each
  <2> DEFINE f == [i \in DOMAIN s |-> Invalidated(s[i], <<>>)]
  <2>2. s \in Seq(Keys) /\ \A i \in DOMAIN s : s[i] \in Keys
    BY HeldFacts, SeqsOver
  <2>3. \A i \in DOMAIN s : f[i] \in Seq(BareSteps)
    BY <2>2, BareFacts
  <2>4. DOMAIN f = DOMAIN s /\ f = [i \in DOMAIN f |-> f[i]]
    OBVIOUS
  <2> HIDE DEF f
  <2>5. FlattenSeq(f) \in Seq(BareSteps)
    BY <2>2, <2>3, <2>4, EachType
  <2>6. Do("purge") \in Seq(BareSteps) /\ Do("count") \in Seq(BareSteps)
    BY DoFacts DEF BareKinds
  <2>7. Sound(UnderStore(Do("purge")))
    BY <2>6, BareSound, UnderSound
  <2>8. Sound(UnderStore(Do("purge")) \o FlattenSeq(f))
    BY <2>5, <2>7, SoundConcat
  <2>9. Sound(UnderStore(Do("purge")) \o FlattenSeq(f) \o Do("count"))
    BY <2>6, <2>8, SoundConcat
  <2>10. QED BY <2>1, <2>9 DEF f
<1>4. QED BY <1>1, <1>2, <1>3, SameKeys, StoreIs DEF Calm, Locking, Unlocking, Linking

LEMMA DebugKeysIs == ASSUME IInv, NEW p \in Procs, DebugKeys(p) PROVE Stepped
<1>1. StoreStep(p, "debugKeys")
  BY DEF DebugKeys
<1>2. UNCHANGED <<store, keyCount>> /\ stats' \in [DOMAIN Zero -> Nat]
  BY HeldFacts DEF DebugKeys, counts
<1>3. \E steps : Sound(steps) /\ Continue(p, steps)
  <2>1. PICK s \in SetToSeqs(live) : Continue(p, FlattenSeq([i \in DOMAIN s |-> With1("peek", s[i])]))
    BY DEF DebugKeys, Each
  <2> DEFINE f == [i \in DOMAIN s |-> With1("peek", s[i])]
  <2>2. s \in Seq(Keys) /\ \A i \in DOMAIN s : s[i] \in Keys
    BY HeldFacts, SeqsOver
  <2>3. \A i \in DOMAIN s : f[i] \in Seq(BareSteps)
    BY <2>2, BareFacts
  <2>4. DOMAIN f = DOMAIN s /\ f = [i \in DOMAIN f |-> f[i]]
    OBVIOUS
  <2> HIDE DEF f
  <2>5. FlattenSeq(f) \in Seq(BareSteps)
    BY <2>2, <2>3, <2>4, EachType
  <2>6. Sound(FlattenSeq(f))
    BY <2>5, BareSound
  <2>7. QED BY <2>1, <2>6 DEF f
<1>4. QED BY <1>1, <1>2, <1>3, SameKeys, StoreIs DEF Calm, Locking, Unlocking, Linking

LEMMA NotifyIs ==
  ASSUME IInv, NEW p \in Procs, NotifyEvicted(p) \/ NotifyInvalidated(p)
  PROVE  Stepped
<1>1. UNCHANGED <<store, keyCount>> /\ stats' \in [DOMAIN Zero -> Nat]
  BY CountFacts DEF NotifyEvicted, NotifyInvalidated, Events
<1>2. <<>> \in Seq(BareSteps)
  OBVIOUS
<1>3. CASE NotifyEvicted(p)
  <2>1. StoreStep(p, "evicted") /\ Notify(p, <<>>, "evict", It(p), <<>>)
    BY <1>3 DEF NotifyEvicted
  <2>2. It(p) \in Happenings
    BY <2>1, StoreFacts
  <2>3. \E steps : Sound(steps) /\ Continue(p, steps)
    BY <1>2, <2>1, <2>2, NotifyBare, BareSound DEF Events
  <2>4. QED BY <1>1, <2>1, <2>3, SameKeys, StoreIs DEF Calm, Locking, Unlocking, Linking
<1>4. CASE NotifyInvalidated(p)
  <2>1. StoreStep(p, "invalidated") /\ Notify(p, It(p).next, "invalidate", It(p), <<>>)
    BY <1>4 DEF NotifyInvalidated
  <2>2. It(p) \in Happenings /\ It(p).next \in Seq(BareSteps)
    BY <2>1, StoreFacts
  <2>3. \E steps : Sound(steps) /\ Continue(p, steps)
    BY <1>2, <2>1, <2>2, NotifyBare, BareSound DEF Events
  <2>4. QED BY <1>1, <2>1, <2>3, SameKeys, StoreIs DEF Calm, Locking, Unlocking, Linking
<1>5. QED BY <1>3, <1>4

LEMMA CountKeysIs == ASSUME IInv, NEW p \in Procs, CountKeys(p) PROVE Stepped
<1>1. StoreStep(p, "count") \/ StoreStep(p, "len")
  BY DEF CountKeys
<1>2. Continue(p, <<>>) /\ UNCHANGED <<store, stats>>
  BY DEF CountKeys
<1>3. keyCount' \in 0..Capacity
  <2>1. Cardinality(live) \in 0..Capacity
    <3>1. Cardinality(live) \in Nat /\ Cardinality(live) <= Capacity
      BY HeldFacts DEF Held
    <3>2. QED BY <3>1, CapacityPositive
  <2>2. keyCount' = Cardinality(live) \/ keyCount' = keyCount
    BY DEF CountKeys
  <2>3. QED BY <2>1, <2>2, HeldFacts
<1>4. /\ live' \subseteq Keys /\ stale' \subseteq Keys \ live' /\ Cardinality(Held)' <= Capacity
      /\ stats' \in [DOMAIN Zero -> Nat]
  BY <1>2, HeldFacts DEF store, Held
<1>5. QED BY <1>1, <1>2, <1>3, <1>4, EmptySound, StoreIs DEF Calm, Locking, Unlocking, Linking

\* a step of the exporters, of the reporter or of Close, or of the debug handler
LEMMA ExportIs ==
  ASSUME IInv, NEW p \in Procs, NEW x, At(p, x),
         UNCHANGED <<scenario, locks, store, counts, lines, history>>,
         x \notin Locking \union Unlocking \union {"reporterDone"},
         \/ Panic(p) /\ x \notin Calm \union {"wait", "closeExporter"} /\ UNCHANGED exporterClosed
         \/ UNCHANGED fate /\ (\E steps : Sound(steps) /\ Continue(p, steps)
                                          /\ (steps # <<>> => x \notin Calm \union {"stop", "wait", "export"})),
         x = "wait" => reporter # "running", UNCHANGED reporter,
         x = "export" => ExportStat(p), x = "closeExporter" => exporterClosed',
         exporterClosed' => exporterClosed \/ reporter # "running",
         {metricsStop', exporterClosed', stopCleanup'} \subseteq BOOLEAN,
         DOMAIN exporters' = DOMAIN exporters
  PROVE  Stepped
<1>1. todo[p] # <<>> /\ It(p).step = x
  BY AtFacts
<1>2. (Shape \/ Crash) /\ {panicked', crashed'} \subseteq BOOLEAN
  <2>1. CASE Panic(p) /\ x \notin Calm \union {"wait", "closeExporter"} /\ UNCHANGED exporterClosed
    BY <1>1, <2>1, PanicIs
  <2>2. CASE UNCHANGED fate /\ (\E steps : Sound(steps) /\ Continue(p, steps)
                                          /\ (steps # <<>> => x \notin Calm \union {"stop", "wait", "export"}))
    <3>1. PICK steps : Sound(steps) /\ Continue(p, steps)
                       /\ (steps # <<>> => x \notin Calm \union {"stop", "wait", "export"})
      BY <2>2
    <3>2. Shape
      BY <1>1, <2>2, <3>1, AheadIs DEF fate
    <3>3. QED BY <2>2, <3>2, HeldFacts DEF fate
  <2>3. QED BY <2>1, <2>2
<1>3. StateInv'
  BY <1>2, StateIs, HeldFacts DEF store, counts, history, Held
<1>4. QED BY <1>2, <1>3 DEF Stepped

LEMMA ExportStatIs == ASSUME IInv, NEW p \in Procs, ExportStat(p) PROVE Stepped
<1>1. /\ At(p, "export") /\ Continue(p, <<>>) /\ UNCHANGED <<closing, fate>>
      /\ UNCHANGED <<scenario, locks, store, counts, lines, history>>
      /\ DOMAIN exporters' = DOMAIN exporters
  BY DEF ExportStat, ExportStep
<1>2. QED BY <1>1, EmptySound, HeldFacts, ExportIs DEF closing, Calm, Locking, Unlocking

LEMMA RecordOperationIs == ASSUME IInv, NEW p \in Procs, RecordOperation(p) PROVE Stepped
<1>1. /\ At(p, "record") /\ UNCHANGED <<closing, fate>>
      /\ UNCHANGED <<scenario, locks, store, counts, lines, history>>
      /\ DOMAIN exporters' = DOMAIN exporters
  BY DEF RecordOperation, ExportStep
<1>2. \E steps \in {<<>>, <<[It(p) EXCEPT !.i = It(p).i + 1]>>} : Continue(p, steps)
  BY DEF RecordOperation
<1>3. It(p) \in RecordSteps
  BY <1>1, AtFacts, HeadFacts
<1>4. [It(p) EXCEPT !.i = It(p).i + 1] \in BareSteps
  BY <1>3 DEF RecordSteps, BareSteps
<1>5. \A steps \in {<<>>, <<[It(p) EXCEPT !.i = It(p).i + 1]>>} : Sound(steps)
  <2>1. <<[It(p) EXCEPT !.i = It(p).i + 1]>> \in Seq(BareSteps)
    BY <1>4
  <2>2. QED BY <2>1, BareSound, EmptySound
<1>6. "record" \notin Calm \union Locking \union Unlocking
  BY DEF Calm, Locking, Unlocking
<1>7. \E steps : Sound(steps) /\ Continue(p, steps)
                 /\ (steps # <<>> => "record" \notin Calm \union {"stop", "wait", "export"})
  BY <1>2, <1>5, <1>6
<1>8. QED BY <1>1, <1>6, <1>7, HeldFacts, ExportIs DEF closing

LEMMA StopIs == ASSUME IInv, NEW p \in Procs, Stop(p) PROVE Stepped
<1>1. /\ At(p, "stop") /\ UNCHANGED <<exports, reporter, exporterClosed, stopCleanup>>
      /\ UNCHANGED <<scenario, locks, store, counts, lines, history>>
      /\ Panic(p) \/ (Continue(p, <<>>) /\ UNCHANGED fate)
      /\ metricsStop' = (metricsStop \/ S.reporting)
  BY DEF Stop, ExportStep
<1>2. metricsStop' \in BOOLEAN
  BY <1>1
<1>3. QED BY <1>1, <1>2, EmptySound, HeldFacts, ExportIs DEF exports, Calm, Locking, Unlocking

LEMMA WaitIs == ASSUME IInv, NEW p \in Procs, Wait(p) PROVE Stepped
<1>1. /\ At(p, "wait") /\ reporter # "running" /\ Continue(p, <<>>)
      /\ UNCHANGED <<exports, closing, fate>>
      /\ UNCHANGED <<scenario, locks, store, counts, lines, history>>
  BY DEF Wait, ExportStep
<1>2. QED BY <1>1, EmptySound, HeldFacts, ExportIs DEF closing, exports, Calm, Locking, Unlocking

\* the wait for the reporter came first
LEMMA CloseExporterIs == ASSUME IInv, NEW p \in Procs, CloseExporter(p) PROVE Stepped
<1>1. /\ At(p, "closeExporter") /\ exporterClosed' = TRUE /\ Continue(p, <<>>)
      /\ UNCHANGED <<exports, reporter, metricsStop, stopCleanup, fate>>
      /\ UNCHANGED <<scenario, locks, store, counts, lines, history>>
  BY DEF CloseExporter, ExportStep
<1>2. reporter # "running"
  <2>1. SUFFICES ASSUME reporter = "running" PROVE FALSE
    OBVIOUS
  <2>2. todo[p] # <<>> /\ todo[p][1].step = "closeExporter" /\ ~crashed
    BY <1>1, AtFacts DEF At
  <2>3. WaitFirst(todo[p]) /\ todo[p] \in Seq(StepsOf(p))
    BY <2>1, <2>2 DEF IInv, TodoInv, OrderedAt
  <2>4. 1 \in 1..Len(todo[p])
    BY <2>2, <2>3, HeadTail
  <2>5. \E i \in 1..(1 - 1) : todo[p][i].step = "wait"
    BY <2>2, <2>3, <2>4 DEF WaitFirst
  <2>6. QED BY <2>5
<1>3. QED BY <1>1, <1>2, EmptySound, HeldFacts, ExportIs DEF exports, Calm, Locking, Unlocking

LEMMA CloseStoreIs == ASSUME IInv, NEW p \in Procs, CloseStore(p) PROVE Stepped
<1>1. /\ At(p, "closeStore") /\ stopCleanup' = TRUE
      /\ UNCHANGED <<exports, reporter, metricsStop, exporterClosed>>
      /\ UNCHANGED <<scenario, locks, store, counts, lines, history>>
      /\ Panic(p) \/ (Continue(p, UnderStore(Do("purge"))) /\ UNCHANGED fate)
  BY DEF CloseStore, ExportStep
<1>2. Sound(UnderStore(Do("purge")))
  <2>1. Do("purge") \in Seq(BareSteps)
    BY DoFacts DEF BareKinds
  <2>2. QED BY <2>1, BareSound, UnderSound
<1>3. "closeStore" \notin Calm \union Locking \union Unlocking
  BY DEF Calm, Locking, Unlocking
<1>4. Panic(p) \/ (UNCHANGED fate /\ \E steps : Sound(steps) /\ Continue(p, steps)
                        /\ (steps # <<>> => "closeStore" \notin Calm \union {"stop", "wait", "export"}))
  BY <1>1, <1>2, <1>3
<1>5. QED BY <1>1, <1>3, <1>4, HeldFacts, ExportIs DEF exports

LEMMA ReadStatIs == ASSUME IInv, NEW p \in Procs, ReadStat(p) PROVE Stepped
<1>1. /\ At(p, "read") /\ Continue(p, <<>>) /\ UNCHANGED <<exports, closing, fate>>
      /\ UNCHANGED <<scenario, locks, store, counts, lines, history>>
  BY DEF ReadStat
<1>2. QED BY <1>1, EmptySound, HeldFacts, ExportIs DEF closing, exports, Calm, Locking, Unlocking

\* what Reset does to the statistics is what it wipes
LEMMA ResetFacts ==
  ASSUME IInv, NEW p \in Procs, ResetStat(p)
  PROVE  /\ todo[p] # <<>> /\ It(p).step = "reset" /\ It(p) \in ResetSteps
         /\ stats' \in [DOMAIN Zero -> Nat] /\ wiped' \in [DOMAIN Zero -> Nat]
         /\ \A f \in DOMAIN Zero : \/ stats'[f] = stats[f] /\ wiped'[f] = wiped[f]
                                   \/ stats'[f] = 0 /\ wiped'[f] = wiped[f] + stats[f]
<1>1. todo[p] # <<>> /\ It(p).step = "reset" /\ It(p) \in ResetSteps
  <2>1. At(p, "reset")
    BY DEF ResetStat
  <2>2. todo[p] # <<>> /\ It(p).step = "reset"
    BY <2>1, AtFacts
  <2>3. QED BY <2>2, HeadFacts
<1>2. stats \in [DOMAIN Zero -> Nat] /\ wiped \in [DOMAIN Zero -> Nat]
  BY HeldFacts
<1> DEFINE g == It(p).field
<1>3. CASE g = "keyCount"
  <2>1. stats' = stats /\ wiped' = wiped
    BY <1>3 DEF ResetStat
  <2> HIDE DEF g
  <2>2. QED BY <1>1, <1>2, <2>1
<1>4. CASE g # "keyCount"
  <2>1. g \in DOMAIN Zero
    BY <1>1, <1>4 DEF ResetSteps
  <2>2. /\ stats' = [stats EXCEPT ![g] = 0]
        /\ wiped' = [wiped EXCEPT ![g] = @ + stats[g]]
    BY <1>4 DEF ResetStat
  <2> HIDE DEF g
  <2>3. QED BY <1>1, <1>2, <2>1, <2>2
<1>5. QED BY <1>3, <1>4

LEMMA ResetStatIs == ASSUME IInv, NEW p \in Procs, ResetStat(p) PROVE Stepped
<1>1. /\ Continue(p, <<>>)
      /\ UNCHANGED <<scenario, locks, store, exports, lines, closing, response, bounds, fate,
                     unsafe>>
  BY DEF ResetStat
<1>2. torn' \in BOOLEAN /\ keyCount' \in 0..Capacity
  <2>1. torn \in BOOLEAN /\ keyCount \in 0..Capacity /\ 0 \in 0..Capacity
    BY HeldFacts, CapacityPositive
  <2>2. torn' = torn \/ \E m \in BOOLEAN : torn' = (torn \/ m)
    BY DEF ResetStat
  <2>3. keyCount' = keyCount \/ keyCount' = 0
    BY DEF ResetStat
  <2>4. QED BY <2>1, <2>2, <2>3
<1>3. Shape
  BY <1>1, ResetFacts, AheadIs, EmptySound DEF closing, fate, Locking, Unlocking
<1>4. StateInv'
  BY <1>1, <1>2, <1>3, ResetFacts, StateIs, HeldFacts DEF store, exports, closing, fate, Held
<1>5. QED BY <1>3, <1>4 DEF Stepped

-----------------------------------------------------------------------------
(* What begins, and time.                                                  *)

LEMMA BeginsIs ==
  ASSUME IInv, NEW q \in Procs, NEW steps \in Seq(StepsOf(q)),
         Even(steps), LocksFirst(steps), WaitFirst(steps), Linked(steps), Opens(steps),
         ReadsLeft(steps, DOMAIN response),
         todo[q] = <<>>, ~crashed, todo' = [todo EXCEPT ![q] = steps],
         q = Reporter =>
           /\ reporter = "running" /\ DoneLast(steps)
           /\ \/ steps = ExportPlan
              \/ steps = ExportPlan \o Do("reporterDone") /\ metricsStop,
         UNCHANGED <<scenario, locks, store, counts, exports, lines, closing, fate, history>>
  PROVE  Stepped
<1>1. /\ todo'[q] = steps /\ todo' = [r \in Procs |-> todo'[r]]
      /\ \A r \in Procs \ {q} : Same(r)
  BY DEF IInv, TodoInv, Same
<1>2. reporter' = reporter /\ exporterClosed' = exporterClosed /\ crashed' = crashed
  BY DEF closing, fate
<1>3. Begins(q)
  BY <1>1, <1>2 DEF Begins
<1>4. Shape
  BY <1>1, <1>2, <1>3 DEF Shape
<1>5. StateInv'
  BY <1>4, StateIs, HeldFacts DEF store, counts, exports, closing, fate, history, Held
<1>6. QED BY <1>4, <1>5 DEF Stepped

\* a caller's or the janitor's
LEMMA LaunchIs ==
  ASSUME IInv, NEW q \in Procs \ {Reporter}, NEW steps, Sound(steps), Launch(q, steps)
  PROVE  Stepped
<1>1. CallSteps \subseteq StepsOf(q)
  BY DEF StepsOf
<1>2. /\ steps \in Seq(StepsOf(q)) /\ Even(steps) /\ LocksFirst(steps) /\ WaitFirst(steps)
      /\ Linked(steps) /\ Opens(steps)
  BY <1>1, SeqMonotonic DEF Sound, Whole
<1>3. ReadsLeft(steps, DOMAIN response)
  <2>1. steps \in Seq(CallSteps \union ExportSteps)
    BY SeqMonotonic DEF Sound, Whole
  <2>2. QED BY <2>1, NoReads
<1>4. QED BY <1>2, <1>3, BeginsIs DEF Launch

ExportOnly == {e \in ExportSteps : e.step = "export"}

LEMMA ExportPlanType ==
  ASSUME IInv
  PROVE  ExportPlan \in Seq(ExportOnly)
<1>1. PICK n \in Nat : DOMAIN exporters = 1..n
  BY DEF IInv, StateInv
<1> DEFINE order(i) == ExportOrder(exporters[i])
           f(i) == [j \in DOMAIN order(i) |-> [step |-> "export", i |-> i, name |-> order(i)[j]]]
           g == [i \in DOMAIN exporters |-> f(i)]
           Names == {"hits", "misses", "evictions", "invalidations", "keys", "inFlight", "hitRate"}
<1>2. \A x : ExportOrder(x) \in Seq(Names)
  <2>1. Gauges \in Seq(Names) /\ <<"hits", "misses", "invalidations", "evictions">> \in Seq(Names)
        /\ <<"hits", "misses", "evictions", "invalidations">> \in Seq(Names)
    BY DEF Gauges
  <2> HIDE DEF Names
  <2>2. /\ <<"hits", "misses", "invalidations", "evictions">> \o Gauges \in Seq(Names)
        /\ <<"hits", "misses", "evictions", "invalidations">> \o Gauges \in Seq(Names)
    BY <2>1, ConcatProperties
  <2>3. QED BY <2>2 DEF ExportOrder
<1>3. ASSUME NEW i \in 1..n
      PROVE  f(i) \in Seq(ExportOnly)
  <2>1. order(i) \in Seq(Names)
    BY <1>2
  <2> HIDE DEF order
  <2>2. Len(order(i)) \in Nat /\ DOMAIN order(i) = 1..Len(order(i))
        /\ \A j \in 1..Len(order(i)) : order(i)[j] \in Names
    BY <2>1, LenProperties, ElementOfSeq
  <2>3. \A a \in Names : [step |-> "export", i |-> i, name |-> a] \in ExportOnly
    BY <1>1 DEF ExportOnly, ExportSteps
  <2> HIDE DEF Names
  <2>4. f(i) \in [1..Len(order(i)) -> ExportOnly]
    BY <2>2, <2>3
  <2> HIDE DEF f
  <2>5. QED BY <2>2, <2>4, IndexedIsSeq
<1>4. g \in [1..n -> Seq(ExportOnly)]
  <2> HIDE DEF f
  <2>1. QED BY <1>1, <1>3
<1>5. FlattenSeq(g) \in Seq(ExportOnly)
  <2> HIDE DEF g
  <2>1. QED BY <1>1, <1>4, IndexedIsSeq, FlattenType
<1>6. QED BY <1>5 DEF ExportPlan

\* the steps of the reporter need no lock
LEMMA ReporterSteps ==
  ASSUME IInv, NEW last \in {<<>>, Do("reporterDone")}
  PROVE  LET s == ExportPlan \o last IN
         /\ s \in Seq(ExportSteps) /\ Even(s) /\ LocksFirst(s) /\ WaitFirst(s) /\ DoneLast(s)
         /\ Linked(s) /\ Opens(s)
<1> DEFINE s == ExportPlan \o last
<1>1. ExportPlan \in Seq(ExportSteps) /\ \A i \in 1..Len(ExportPlan) : ExportPlan[i].step = "export"
  <2>1. ExportPlan \in Seq(ExportOnly) /\ ExportOnly \subseteq ExportSteps
    BY ExportPlanType DEF ExportOnly
  <2>2. \A i \in 1..Len(ExportPlan) : ExportPlan[i] \in ExportOnly
    BY <2>1, ElementOfSeq
  <2>3. QED BY <2>1, <2>2, SeqMonotonic DEF ExportOnly
<1>2. last \in Seq(ExportSteps) /\ Len(last) \in {0, 1}
      /\ \A i \in 1..Len(last) : last[i].step = "reporterDone"
  <2>1. [step |-> "reporterDone"] \in ExportSteps
    BY DEF ExportSteps
  <2>2. CASE last = <<>>
    <3>1. <<>> \in Seq(ExportSteps) /\ Len(<<>>) = 0
      OBVIOUS
    <3>2. QED BY <2>2, <3>1
  <2>3. CASE last = Do("reporterDone")
    <3>1. last \in Seq(ExportSteps)
      BY <2>1, <2>3 DEF Do
    <3>2. Len(last) = 1 /\ last[1].step = "reporterDone"
      BY <2>3, DoFacts
    <3>3. QED BY <3>1, <3>2
  <2>4. QED BY <2>2, <2>3
<1>3. /\ s \in Seq(ExportSteps) /\ Len(ExportPlan) \in Nat /\ Len(s) = Len(ExportPlan) + Len(last)
      /\ \A j \in 1..Len(s) : \/ j \in 1..Len(ExportPlan) /\ s[j].step = "export"
                              \/ j - Len(ExportPlan) \in 1..Len(last) /\ s[j].step = "reporterDone"
  BY <1>1, <1>2, Places2
<1> HIDE DEF s
<1>4. \A j \in 1..Len(s) : s[j].step \notin Locking \union Unlocking \union Linking
  BY <1>3 DEF Locking, Unlocking, Linking
<1>5. \A x \in Locking \union Unlocking : Num(s, x) = 0
  BY <1>3, <1>4, NumType
<1>6. Even(s) /\ LocksFirst(s) /\ WaitFirst(s)
  BY <1>4, <1>5 DEF Even, LocksFirst, WaitFirst, Locking, Unlocking, Linking
<1>7. DoneLast(s)
  BY <1>2, <1>3 DEF DoneLast
<1>8. Linked(s) /\ Opens(s)
  BY <1>3, <1>4, Unlinked
<1>9. QED BY <1>3, <1>6, <1>7, <1>8 DEF s

LEMMA ReporterBegins == ASSUME IInv, ReporterTick \/ ReporterStop PROVE Stepped
<1> DEFINE begin(steps) == todo' = [todo EXCEPT ![Reporter] = steps]
<1>1. /\ reporter = "running" /\ todo[Reporter] = <<>> /\ ~crashed
      /\ UNCHANGED <<scenario, locks, store, counts, exports, lines, closing, fate, history>>
  BY DEF ReporterTick, ReporterStop
<1>2. PICK last \in {<<>>, Do("reporterDone")} :
        /\ begin(ExportPlan \o last)
        /\ \/ ExportPlan \o last = ExportPlan
           \/ ExportPlan \o last = ExportPlan \o Do("reporterDone") /\ metricsStop
  <2>1. ExportPlan \o <<>> = ExportPlan
    BY ExportPlanType, ConcatEmptySeq
  <2>2. begin(ExportPlan) \/ (begin(ExportPlan \o Do("reporterDone")) /\ metricsStop)
    BY DEF ReporterTick, ReporterStop
  <2>3. QED BY <2>1, <2>2
<1>3. LET s == ExportPlan \o last IN
      /\ s \in Seq(ExportSteps) /\ Even(s) /\ LocksFirst(s) /\ WaitFirst(s) /\ DoneLast(s)
      /\ Linked(s) /\ Opens(s)
  BY ReporterSteps
<1>4. Reporter \in Procs /\ StepsOf(Reporter) = ExportSteps
  BY DEF Procs, StepsOf
<1>5. ReadsLeft(ExportPlan \o last, DOMAIN response)
  <2>1. ExportPlan \o last \in Seq(CallSteps \union ExportSteps)
    BY <1>3, SeqMonotonic
  <2>2. QED BY <2>1, NoReads
<1>6. QED BY <1>1, <1>2, <1>3, <1>4, <1>5, BeginsIs

LEMMA ReporterDoneIs == ASSUME IInv, ReporterDone PROVE Stepped
<1>1. /\ At(Reporter, "reporterDone") /\ reporter' = "done" /\ Continue(Reporter, <<>>)
      /\ UNCHANGED <<exports, metricsStop, exporterClosed, stopCleanup, fate>>
      /\ UNCHANGED <<scenario, locks, store, counts, lines, history>>
  BY DEF ReporterDone, ExportStep
<1>2. Reporter \in Procs /\ todo \in [Procs -> Seq(AllSteps)]
      /\ todo[Reporter] \in Seq(StepsOf(Reporter))
  BY DEF IInv, TodoInv, Procs
<1>3. todo[Reporter] # <<>> /\ It(Reporter).step = "reporterDone" /\ ~crashed
      /\ todo[Reporter][1].step = "reporterDone"
  BY <1>1, <1>2, AtFacts DEF At
<1>4. Len(Tail(todo[Reporter])) = 0 /\ Tail(todo[Reporter]) \in Seq(StepsOf(Reporter))
  <2>1. /\ Len(todo[Reporter]) \in Nat \ {0} /\ Len(Tail(todo[Reporter])) = Len(todo[Reporter]) - 1
        /\ Tail(todo[Reporter]) \in Seq(StepsOf(Reporter))
    BY <1>2, <1>3, HeadTail
  <2>2. 1 \in 1..Len(todo[Reporter]) /\ DoneLast(todo[Reporter])
    BY <2>1 DEF IInv, CloseInv
  <2>3. 1 = Len(todo[Reporter])
    BY <1>3, <2>2 DEF DoneLast
  <2>4. QED BY <2>1, <2>3
<1>5. Tail(todo[Reporter]) = <<>>
  BY <1>4, EmptySeq
<1>6. /\ todo'[Reporter] = <<>> \o Tail(todo[Reporter]) /\ todo' = [r \in Procs |-> todo'[r]]
      /\ \A r \in Procs \ {Reporter} : Same(r)
  BY <1>1, <1>2 DEF Continue, Same
<1>7. todo'[Reporter] = <<>>
  BY <1>5, <1>6
<1>8. Ahead(Reporter, <<>>)
  BY <1>3, <1>6, EmptySound DEF Ahead, Locking, Unlocking
<1>9. Shape
  BY <1>1, <1>3, <1>6, <1>7, <1>8 DEF Shape, fate
<1>10. StateInv'
  BY <1>1, <1>9, StateIs, HeldFacts DEF store, counts, exports, fate, history, Held
<1>11. QED BY <1>9, <1>10 DEF Stepped

LEMMA CallIs ==
  ASSUME IInv, NEW c \in Callers, NEW k \in Keys, NEW op \in S.ops, Call(c, op, k)
  PROVE  Stepped
<1>1. c \in Procs \ {Reporter} /\ op \in Operations
  BY ScenarioFacts, ProcsApart DEF Procs
<1>2. Sound(Plan(op, k)) /\ Launch(c, Plan(op, k))
  BY <1>1, PlanSound DEF Call
<1>3. QED BY <1>1, <1>2, LaunchIs

LEMMA JanitorIs == ASSUME IInv, JanitorTick PROVE Stepped
<1>1. Janitor \in Procs \ {Reporter}
  BY ProcsApart DEF Procs
<1>2. Do("collect") \in Seq(BareSteps)
  BY DoFacts DEF BareKinds
<1>3. Sound(UnderStore(Do("collect")))
  BY <1>2, BareSound, UnderSound
<1>4. QED BY <1>1, <1>3, LaunchIs DEF JanitorTick

LEMMA DebugIs == ASSUME IInv, DebugRequest PROVE Stepped
<1> DEFINE T == StepsOf(Debugger)
           reads == [i \in DOMAIN DebugOrder |-> [step |-> "read", field |-> DebugOrder[i]]]
           under == UnderRead(Do("debugKeys"))
           s == reads \o under
<1>1. Debugger \in Procs /\ Debugger # Reporter /\ T = CallSteps \union ReadSteps
  BY ProcsApart DEF Procs, StepsOf
<1>2. reads \in Seq(T) /\ \A i \in 1..Len(reads) : reads[i].step = "read"
  <2>1. DOMAIN DebugOrder = 1..6 /\ Range(DebugOrder) = {DebugOrder[i] : i \in 1..6}
    BY DEF DebugOrder, Range
  <2>2. \A i \in 1..6 : [step |-> "read", field |-> DebugOrder[i]] \in T
    BY <1>1, <2>1 DEF ReadSteps
  <2> HIDE DEF T
  <2>3. reads \in [1..6 -> T] /\ \A i \in 1..6 : reads[i].step = "read"
    BY <2>1, <2>2
  <2> HIDE DEF reads
  <2>4. 6 \in Nat
    OBVIOUS
  <2>5. reads \in Seq(T) /\ Len(reads) = 6
    BY <2>3, <2>4, IndexedIsSeq, ZenonT(30)
  <2>6. QED BY <2>3, <2>5
<1>3. /\ Do("rlock") \in Seq(T) /\ Do("debugKeys") \in Seq(T) /\ Do("runlock") \in Seq(T)
  <2>1. {[step |-> "rlock"], [step |-> "debugKeys"], [step |-> "runlock"]} \subseteq T
    BY <1>1 DEF CallSteps, ReadSteps, Locking, Unlocking
  <2> HIDE DEF T
  <2>2. QED BY <2>1 DEF Do
<1> HIDE DEF reads, T
<1>4. Do("rlock") \o Do("debugKeys") \in Seq(T) /\ under \in Seq(T)
  <2>1. Do("rlock") \o Do("debugKeys") \in Seq(T)
    BY <1>3, ConcatProperties
  <2>2. QED BY <1>3, <2>1, ConcatProperties DEF UnderRead
<1>5. Len(under) = 3 /\ under[1].step = "rlock" /\ under[2].step = "debugKeys"
      /\ under[3].step = "runlock"
  BY DEF UnderRead, Do
<1>6. ASSUME NEW x \in Locking \union Unlocking
      PROVE  Num(s, x) = IF x \in {"rlock", "runlock"} THEN 1 ELSE 0
  <2>1. Num(reads, x) = 0
    <3>1. x # "read"
      BY DEF Locking, Unlocking
    <3>2. QED BY <1>2, <3>1, NumType
  <2>2. Num(under, x) = Num(Do("rlock"), x) + Num(Do("debugKeys"), x) + Num(Do("runlock"), x)
    <3>1. Num(under, x) = Num(Do("rlock") \o Do("debugKeys"), x) + Num(Do("runlock"), x)
      BY <1>3, <1>4, NumConcat DEF UnderRead
    <3>2. Num(Do("rlock") \o Do("debugKeys"), x) = Num(Do("rlock"), x) + Num(Do("debugKeys"), x)
      BY <1>3, NumConcat
    <3>3. QED BY <3>1, <3>2
  <2>3. /\ Num(Do("rlock"), x) = IF x = "rlock" THEN 1 ELSE 0
        /\ Num(Do("debugKeys"), x) = 0
        /\ Num(Do("runlock"), x) = IF x = "runlock" THEN 1 ELSE 0
    BY DoFacts DEF Locking, Unlocking
  <2>4. Num(under, x) = IF x \in {"rlock", "runlock"} THEN 1 ELSE 0
    BY <2>2, <2>3
  <2> HIDE DEF under
  <2>5. Num(s, x) = Num(reads, x) + Num(under, x)
    BY <1>2, <1>4, NumConcat
  <2>6. QED BY <2>1, <2>4, <2>5
<1> HIDE DEF under
<1>7. LocksFirst(under) /\ WaitFirst(under) /\ LocksFirst(reads) /\ WaitFirst(reads)
  <2>1. \A j \in 1..3 : under[j].step \in Locking => j = 1
    BY <1>5 DEF Locking
  <2>2. LocksFirst(under) /\ WaitFirst(under)
    BY <1>5, <2>1 DEF LocksFirst, WaitFirst
  <2>3. QED BY <1>2, <2>2 DEF LocksFirst, WaitFirst, Locking
<1>8. s \in Seq(T) /\ LocksFirst(s) /\ WaitFirst(s)
  <2>1. \A i \in 1..Len(reads) : reads[i].step \in Calm
    BY <1>2 DEF Calm
  <2>2. QED BY <1>2, <1>4, <1>7, <2>1, ConcatProperties, LocksFirstConcat, WaitFirstConcat
<1>9. Even(s)
  BY <1>6 DEF Even, Locking, Unlocking
<1>10. ReadsLeft(s, DOMAIN response)
  <2>1. DOMAIN response = {}
    BY DEF DebugRequest
  <2>2. Len(reads) = 6 /\ \A i \in 1..6 : reads[i].field = DebugOrder[i]
    BY DEF DebugOrder, reads
  <2>3. \A i \in 1..Len(s) : s[i].step = "read" => i \in 1..6 /\ s[i].field = DebugOrder[i]
    <3>1. \A j \in 1..Len(under) : under[j].step # "read"
      BY <1>5
    <3>2. /\ \A i \in 1..Len(reads) : s[i] = reads[i]
          /\ \A i \in 1..Len(s) : i \in 1..Len(reads) \/ (i - Len(reads) \in 1..Len(under)
                                                        /\ s[i] = under[i - Len(reads)])
      BY <1>2, <1>4, Places2
    <3>3. QED BY <2>2, <3>1, <3>2
  <2>4. DOMAIN DebugOrder = 1..6
    BY DEF DebugOrder
  <2> HIDE DEF s
  <2>5. QED BY <2>1, <2>3, <2>4 DEF ReadsLeft, Earlier
<1>11. Linked(s) /\ Opens(s)
  <2>1. \A i \in 1..Len(reads) : reads[i].step \notin Linking
    BY <1>2 DEF Linking
  <2>2. \A i \in 1..Len(under) : under[i].step \notin Linking
    BY <1>5 DEF Linking
  <2>3. QED BY <1>2, <1>4, <2>1, <2>2, Unlinked, LinkedConcat, OpensConcat
<1>12. Launch(Debugger, s)
  BY DEF DebugRequest, reads, under
<1> HIDE DEF s
<1>13. QED BY <1>1, <1>8, <1>9, <1>10, <1>11, <1>12, BeginsIs DEF Launch, T

LEMMA ExpireIs == ASSUME IInv, NEW k \in Keys, Expire(k) PROVE Stepped
<1>1. /\ k \in live /\ live' = live \ {k} /\ stale' = stale \union {k}
      /\ UNCHANGED <<scenario, todo, locks, counts, exports, lines, closing, fate, history>>
  BY DEF Expire
<1>2. Shape
  <2>1. \A q \in Procs : Same(q)
    BY <1>1 DEF Same
  <2>2. todo' = [q \in Procs |-> todo'[q]]
    BY <1>1 DEF IInv, TodoInv
  <2>3. QED BY <1>1, <2>1, <2>2 DEF Shape, closing, fate
<1>3. /\ live' \subseteq Keys /\ stale' \subseteq Keys \ live' /\ Cardinality(Held)' <= Capacity
  <2>1. Held' = Held
    BY <1>1 DEF Held
  <2>2. QED BY <1>1, <2>1, HeldFacts
<1>4. StateInv'
  BY <1>1, <1>2, <1>3, StateIs, HeldFacts DEF counts, exports, closing, fate, history
<1>5. QED BY <1>2, <1>4 DEF Stepped

-----------------------------------------------------------------------------
(* Every step.                                                             *)

LEMMA Initially == Init => IInv
<1> SUFFICES ASSUME Init PROVE IInv
  OBVIOUS
<1>1. S.exporters \in Seq(Range(S.exporters)) /\ S.reporting \in BOOLEAN
  BY ScenariosKnown DEF Init, S
<1>2. StateInv
  <2>1. \E n \in Nat : DOMAIN exporters = 1..n
    <3>1. Len(exporters) \in Nat /\ DOMAIN exporters = 1..Len(exporters)
      BY <1>1, LenProperties DEF Init
    <3>2. QED BY <3>1
  <2>2. Cardinality(Held) <= Capacity
    <3>1. Held = {} /\ Cardinality({}) = 0
      BY FS_EmptySet DEF Init, Held
    <3>2. QED BY <3>1, CapacityPositive
  <2>3. /\ readers \in [Procs -> Nat] /\ lines \in [Events -> Nat]
        /\ stats \in [DOMAIN Zero -> Nat] /\ wiped \in [DOMAIN Zero -> Nat]
    BY DEF Init, Zero
  <2>4. keyCount \in 0..Capacity
    BY CapacityPositive DEF Init
  <2>5. QED BY <2>1, <2>2, <2>3, <2>4 DEF Init, StateInv, TypeOK
<1>3. TodoInv
  <2>1. ASSUME NEW q \in Procs
        PROVE  todo[q] = <<>> /\ BalancedAt(q) /\ OrderedAt(q)
    <3>1. todo[q] = <<>> /\ readers[q] = 0 /\ writer # q /\ smutex # q
      BY ProcsApart DEF Init
    <3>2. \A x \in Locking \union Unlocking : Num(<<>>, x) = 0
      BY NumShort
    <3>3. Balanced(<<>>, 0, 0, 0) /\ LocksFirst(<<>>) /\ WaitFirst(<<>>) /\ Linked(<<>>)
      BY <3>2 DEF Balanced, LocksFirst, WaitFirst, Linked, Locking, Unlocking
    <3>4. QED BY <3>1, <3>3 DEF BalancedAt, OrderedAt
  <2>2. \A A : <<>> \in Seq(A)
    OBVIOUS
  <2>3. todo \in [Procs -> Seq(AllSteps)]
    BY <2>2 DEF Init
  <2>4. QED BY <2>1, <2>2, <2>3 DEF TodoInv
<1>4. CloseInv
  <2>1. todo[Reporter] = <<>>
    BY DEF Init, Procs
  <2>2. DoneLast(<<>>)
    BY DEF DoneLast
  <2>3. QED BY <2>1, <2>2 DEF Init, CloseInv
<1>5. QED BY <1>2, <1>3, <1>4 DEF IInv

LEMMA SteppedKeeps == ASSUME IInv, Stepped PROVE IInv'
BY ShapeKeeps, CrashKeeps DEF Stepped, IInv

LEMMA NextIs ==
  ASSUME IInv, [Next]_vars
  PROVE  Stepped \/ \E p \in Procs : LockStep(p)
<1>1. ASSUME NEW p \in Procs, Step(p)
      PROVE  Stepped \/ LockStep(p)
  <2>1. CASE HookLogs(p) \/ HookCounts(p) \/ HookCalls(p) \/ HookPanics(p)
    BY <2>1, HookLogsIs, HookCountsIs, HookCallsIs, HookPanicsIs
  <2>2. CASE Find(p) \/ Peek(p) \/ Add1(p) \/ Remove1(p) \/ Collect(p) \/ Purge(p) \/ ListKeys(p)
    BY <2>2, FindIs, PeekIs, AddIs, RemoveIs, CollectIs, PurgeIs, ListKeysIs
  <2>3. CASE NotifyEvicted(p) \/ NotifyInvalidated(p) \/ CountKeys(p)
    BY <2>3, NotifyIs, CountKeysIs
  <2>4. CASE ExportStat(p) \/ RecordOperation(p)
    BY <2>4, ExportStatIs, RecordOperationIs
  <2>5. CASE Stop(p) \/ Wait(p) \/ CloseExporter(p) \/ CloseStore(p)
    BY <2>5, StopIs, WaitIs, CloseExporterIs, CloseStoreIs
  <2>6. CASE ReadStat(p) \/ DebugKeys(p) \/ ResetStat(p)
    BY <2>6, ReadStatIs, DebugKeysIs, ResetStatIs
  <2>7. QED BY <1>1, <2>1, <2>2, <2>3, <2>4, <2>5, <2>6 DEF Step
<1>2. CASE ReporterStop \/ ReporterTick \/ ReporterDone
  BY <1>2, ReporterBegins, ReporterDoneIs
<1>3. ASSUME NEW c \in Callers, NEW k \in Keys, NEW op \in S.ops, Call(c, op, k)
      PROVE  Stepped
  BY <1>3, CallIs
<1>4. CASE DebugRequest \/ JanitorTick
  BY <1>4, DebugIs, JanitorIs
<1>5. ASSUME NEW k \in Keys, Expire(k)
      PROVE  Stepped
  BY <1>5, ExpireIs
<1>6. CASE UNCHANGED vars
  <2>1. UNCHANGED <<scenario, todo, locks, store, counts, exports, lines, closing, fate, history>>
    BY <1>6 DEF vars
  <2>2. Shape
    <3>1. \A q \in Procs : Same(q)
      BY <2>1 DEF Same
    <3>2. todo' = [q \in Procs |-> todo'[q]]
      BY <2>1 DEF IInv, TodoInv
    <3>3. QED BY <2>1, <3>1, <3>2 DEF Shape, closing, fate
  <2>3. StateInv'
    BY <2>1, <2>2, StateIs, HeldFacts DEF store, counts, exports, closing, fate, history, Held
  <2>4. QED BY <2>2, <2>3 DEF Stepped
<1>7. QED BY <1>1, <1>2, <1>3, <1>4, <1>5, <1>6 DEF Next

LEMMA Inductive == IInv /\ [Next]_vars => IInv'
BY NextIs, SteppedKeeps, LockStepKeeps

-----------------------------------------------------------------------------
(* What the debug handler reads.                                           *)

Source(f) == IF f \in {"hits", "rateHits", "totalHits"} THEN "hits" ELSE "misses"

\* what has been read is not more than is read later, or than there is, unless a
\* Reset has come between; what there is no longer matters once all is read
ReadInv ==
  /\ DOMAIN response \subseteq Range(DebugOrder)
  /\ \A f \in DOMAIN response : response[f] \in Nat
  /\ ~torn /\ DOMAIN response # Range(DebugOrder) =>
       \A f \in DOMAIN response : response[f] <= stats[Source(f)]
  /\ ~torn => \A f, g \in DOMAIN response :
                Earlier(f, g) /\ Source(f) = Source(g) => response[f] <= response[g]
  /\ ReadsLeft(todo[Debugger], DOMAIN response)

StatsGrow == \A x \in DOMAIN Zero : stats[x] <= stats'[x]

\* every step but a read and a Reset
LEMMA ReadsNothing ==
  ASSUME IInv, [Next]_vars, \A p \in Procs : ~ReadStat(p) /\ ~ResetStat(p)
  PROVE  UNCHANGED <<response, torn, wiped>> /\ StatsGrow
<1>1. stats \in [DOMAIN Zero -> Nat]
  BY HeldFacts
<1>2. UNCHANGED stats => StatsGrow
  BY <1>1 DEF StatsGrow, Zero
<1>3. ASSUME NEW e \in Events, Count(e)
      PROVE  StatsGrow
  BY <1>1, <1>3 DEF Count, Events, Field, Zero, StatsGrow
<1>4. ASSUME NEW p \in Procs, Step(p)
      PROVE  UNCHANGED <<response, torn, wiped>> /\ StatsGrow
  <2>1. CASE LockStep(p) \/ HookLogs(p) \/ HookCounts(p) \/ HookCalls(p) \/ HookPanics(p)
    <3>1. UNCHANGED <<response, torn, wiped, stats>>
      BY <2>1 DEF LockStep, HookLogs, HookCounts, HookCalls, HookPanics, HookStep, counts,
                  history
    <3>2. QED BY <1>2, <3>1
  <2>2. CASE Find(p) \/ NotifyEvicted(p) \/ NotifyInvalidated(p)
    <3>1. \E e \in Events : Count(e)
      BY <2>2 DEF Find, NotifyEvicted, NotifyInvalidated, Events
    <3>2. UNCHANGED <<response, torn, wiped>>
      BY <2>2 DEF Find, NotifyEvicted, NotifyInvalidated, StoreStep, history
    <3>3. QED BY <1>3, <3>1, <3>2
  <2>3. CASE Peek(p) \/ Add1(p) \/ Remove1(p) \/ Collect(p) \/ Purge(p) \/ ListKeys(p) \/ CountKeys(p)
             \/ DebugKeys(p)
    <3>1. UNCHANGED <<response, torn, wiped, stats>>
      BY <2>3 DEF Peek, Add1, Remove1, Collect, Purge, ListKeys, CountKeys, DebugKeys, StoreStep, counts,
                  history
    <3>2. QED BY <1>2, <3>1
  <2>4. CASE ExportStat(p) \/ RecordOperation(p) \/ Stop(p) \/ Wait(p) \/ CloseExporter(p)
             \/ CloseStore(p)
    <3>1. UNCHANGED <<response, torn, wiped, stats>>
      BY <2>4 DEF ExportStat, RecordOperation, Stop, Wait, CloseExporter, CloseStore, ExportStep,
                  counts, history
    <3>2. QED BY <1>2, <3>1
  <2>5. QED BY <1>4, <2>1, <2>2, <2>3, <2>4 DEF Step
<1>5. CASE ReporterStop \/ ReporterTick \/ ReporterDone
  <2>1. UNCHANGED <<response, torn, wiped, stats>>
    BY <1>5 DEF ReporterStop, ReporterTick, ReporterDone, ExportStep, counts, history
  <2>2. QED BY <1>2, <2>1
<1>6. CASE \/ \E c \in Callers, k \in Keys, op \in S.ops : Call(c, op, k)
           \/ DebugRequest \/ JanitorTick \/ \E k \in Keys : Expire(k)
  <2>1. UNCHANGED <<response, torn, wiped, stats>>
    BY <1>6 DEF Call, DebugRequest, JanitorTick, Launch, Expire, counts, history
  <2>2. QED BY <1>2, <2>1
<1>7. CASE UNCHANGED vars
  BY <1>2, <1>7 DEF vars, counts, history
<1>8. QED BY <1>4, <1>5, <1>6, <1>7 DEF Next

LEMMA ReadsTail ==
  ASSUME NEW T, NEW s \in Seq(T), s # <<>>, NEW F, ReadsLeft(s, F)
  PROVE  /\ ReadsLeft(Tail(s), F)
         /\ s[1].step = "read" => ReadsLeft(Tail(s), F \union {s[1].field})
<1>1. /\ Len(s) \in Nat \ {0} /\ Len(Tail(s)) = Len(s) - 1
      /\ \A i \in 1..Len(Tail(s)) : Tail(s)[i] = s[i + 1]
  BY HeadTail
<1>2. \A i \in 1..Len(Tail(s)) : i + 1 \in 1..Len(s) /\ 1 < i + 1
  BY <1>1
<1>3. ASSUME NEW i \in 1..Len(Tail(s)), Tail(s)[i].step = "read"
      PROVE  /\ \A f \in F : Earlier(f, Tail(s)[i].field)
             /\ s[1].step = "read" => Earlier(s[1].field, Tail(s)[i].field)
  <2>1. i + 1 \in 1..Len(s) /\ 1 \in 1..Len(s) /\ 1 < i + 1 /\ Tail(s)[i] = s[i + 1]
    BY <1>1, <1>2
  <2>2. QED BY <1>3, <2>1 DEF ReadsLeft
<1>4. ASSUME NEW i \in 1..Len(Tail(s)), NEW j \in 1..Len(Tail(s)), i < j,
             Tail(s)[i].step = "read", Tail(s)[j].step = "read"
      PROVE  Earlier(Tail(s)[i].field, Tail(s)[j].field)
  <2>1. i + 1 \in 1..Len(s) /\ j + 1 \in 1..Len(s) /\ Tail(s)[i] = s[i + 1] /\ Tail(s)[j] = s[j + 1]
    BY <1>1, <1>2
  <2>2. i + 1 < j + 1
    BY <1>1, <1>4
  <2>3. QED BY <1>4, <2>1, <2>2 DEF ReadsLeft
<1>5. QED BY <1>3, <1>4 DEF ReadsLeft

LEMMA ReadsConcat ==
  ASSUME NEW T, NEW s \in Seq(T), NEW t \in Seq(T), NEW F, ReadsLeft(t, F),
         \A i \in 1..Len(s) : s[i].step # "read"
  PROVE  ReadsLeft(s \o t, F)
<1>1. /\ Len(s) \in Nat /\ Len(t) \in Nat
      /\ \A i \in 1..Len(s) : (s \o t)[i] = s[i]
      /\ Len(s \o t) = Len(s) + Len(t)
      /\ \A j \in 1..Len(s \o t) : j \in 1..Len(s) \/ (j - Len(s) \in 1..Len(t)
                                                       /\ (s \o t)[j] = t[j - Len(s)])
  BY Places2
<1>2. \A j \in 1..Len(s \o t) : (s \o t)[j].step = "read" =>
        j - Len(s) \in 1..Len(t) /\ (s \o t)[j] = t[j - Len(s)]
  BY <1>1
<1>3. \A i, j \in 1..Len(s \o t) : i < j => i - Len(s) < j - Len(s)
  BY <1>1
<1>4. QED BY <1>2, <1>3 DEF ReadsLeft

\* no step of another shape gives the handler something to read
LEMMA ReadsKept ==
  ASSUME IInv, Shape \/ Crash, ReadsLeft(todo[Debugger], DOMAIN response)
  PROVE  ReadsLeft(todo'[Debugger], DOMAIN response)
<1> DEFINE s == todo[Debugger]
<1>1. Debugger \in Procs /\ Debugger # Reporter /\ s \in Seq(StepsOf(Debugger))
      /\ StepsOf(Debugger) = CallSteps \union ReadSteps
  BY ProcsApart DEF IInv, TodoInv, Procs, StepsOf
<1>2. CASE Crash
  BY <1>1, <1>2 DEF Crash, ReadsLeft
<1>3. CASE Same(Debugger)
  BY <1>3 DEF Same
<1>4. CASE Begins(Debugger)
  BY <1>4 DEF Begins
<1>5. ASSUME NEW steps, Ahead(Debugger, steps)
      PROVE  ReadsLeft(todo'[Debugger], DOMAIN response)
  <2>1. s # <<>> /\ steps \in Seq(CallSteps) /\ todo'[Debugger] = steps \o Tail(s)
    BY <1>5 DEF Ahead, Sound, Whole
  <2>2. \A i \in 1..Len(steps) : steps[i].step # "read"
    BY <2>1, ElementOfSeq, StepFacts
  <2> HIDE DEF s
  <2>3. steps \in Seq(StepsOf(Debugger)) /\ Tail(s) \in Seq(StepsOf(Debugger))
    BY <1>1, <2>1, SeqMonotonic, HeadTail
  <2>4. ReadsLeft(Tail(s), DOMAIN response)
    BY <1>1, <2>1, ReadsTail DEF s
  <2>5. QED BY <2>1, <2>2, <2>3, <2>4, ReadsConcat
<1>6. CASE Unwinds(Debugger)
  <2>1. s # <<>> /\ todo'[Debugger] = Deferred(Tail(s))
    BY <1>6 DEF Unwinds
  <2>2. Tail(s) \in Seq(StepsOf(Debugger))
    BY <1>1, <2>1, HeadTail
  <2> HIDE DEF s
  <2>3. Deferred(Tail(s)) \in Seq({e \in StepsOf(Debugger) : e.step \in Kept})
    BY <2>2, DeferredFacts
  <2>4. \A i \in 1..Len(Deferred(Tail(s))) : Deferred(Tail(s))[i].step # "read"
    BY <2>3, ElementOfSeq DEF Kept
  <2>5. QED BY <2>1, <2>4 DEF ReadsLeft
<1>7. QED BY <1>1, <1>2, <1>3, <1>4, <1>5, <1>6 DEF Shape

LEMMA ReadStatReads ==
  ASSUME IInv, ReadInv, NEW p \in Procs, ReadStat(p)
  PROVE  ReadInv'
<1> DEFINE f == It(p).field
           D == DOMAIN response
<1>1. /\ todo[p] # <<>> /\ It(p).step = "read" /\ It(p) = todo[p][1] /\ It(p) \in StepsOf(p)
      /\ todo[p][1].step = "read"
  BY AtFacts, HeadFacts DEF ReadStat
<1>2. p = Debugger /\ f \in Range(DebugOrder)
  <2>1. It(p) \notin CallSteps /\ It(p) \notin ExportSteps
    BY <1>1, StepFacts
  <2>2. p = Debugger /\ It(p) \in ReadSteps
    BY <1>1, <2>1 DEF StepsOf
  <2>3. QED BY <1>1, <2>2 DEF ReadSteps
<1>3. /\ response' = [g \in D \union {f} |-> IF g = f THEN stats[Source(f)] ELSE response[g]]
      /\ Continue(p, <<>>) /\ UNCHANGED <<stats, torn>>
  BY DEF ReadStat, Source, counts, history
<1>4. todo'[Debugger] = Tail(todo[Debugger])
  <2>1. todo \in [Procs -> Seq(AllSteps)] /\ todo[p] \in Seq(StepsOf(p))
    BY DEF IInv, TodoInv
  <2>2. Tail(todo[p]) \in Seq(StepsOf(p))
    BY <1>1, <2>1, HeadTail
  <2>3. <<>> \o Tail(todo[p]) = Tail(todo[p])
    BY <2>2, ConcatEmptySeq
  <2>4. QED BY <1>2, <1>3, <2>1, <2>3 DEF Continue
<1>5. /\ D \subseteq Range(DebugOrder)
      /\ \A g \in D : response[g] \in Nat
      /\ ~torn /\ D # Range(DebugOrder) => \A g \in D : response[g] <= stats[Source(g)]
      /\ ~torn => \A g, h \in D : Earlier(g, h) /\ Source(g) = Source(h) => response[g] <= response[h]
      /\ ReadsLeft(todo[Debugger], D)
  BY DEF ReadInv
<1>6. /\ \A g \in D : Earlier(g, f)
      /\ ReadsLeft(Tail(todo[Debugger]), D \union {f})
  <2>1. todo[p] \in Seq(StepsOf(p))
    BY DEF IInv, TodoInv
  <2>2. 1 \in 1..Len(todo[p])
    BY <1>1, <2>1, HeadTail
  <2>3. \A g \in D : Earlier(g, f)
    BY <1>1, <1>2, <1>5, <2>2 DEF ReadsLeft
  <2> HIDE DEF D
  <2>4. ReadsLeft(Tail(todo[p]), D \union {todo[p][1].field})
    BY <1>1, <1>2, <1>5, <2>1, ReadsTail
  <2>5. QED BY <1>1, <1>2, <2>3, <2>4
<1>7. \A g : ~(Earlier(g, f) /\ Earlier(f, g)) /\ ~Earlier(f, f)
  BY DEF Earlier, DebugOrder
<1>8. \A g : stats[Source(g)] \in Nat
  BY HeldFacts DEF Source, Zero
<1> HIDE DEF f, D
<1>9. DOMAIN response' = D \union {f} /\ response'[f] = stats[Source(f)]
      /\ \A g \in D : g # f /\ response'[g] = response[g]
  BY <1>3, <1>6, <1>7
<1>10. /\ \A g \in D \union {f} : response'[g] \in Nat
       /\ ~torn => \A g \in D : response[g] <= stats[Source(g)]
       /\ ~torn => \A g \in D \union {f} : response'[g] <= stats'[Source(g)]
  <2>1. f \notin D
    BY <1>9
  <2>2. ~torn => \A g \in D : response[g] <= stats[Source(g)]
    BY <1>2, <1>5, <2>1
  <2>3. \A g \in D \union {f} : response'[g] \in Nat
    BY <1>5, <1>8, <1>9
  <2>4. ~torn => \A g \in D \union {f} : response'[g] <= stats'[Source(g)]
    BY <1>3, <1>8, <1>9, <2>2
  <2>5. QED BY <2>2, <2>3, <2>4
<1>11. ~torn => \A g, h \in D \union {f} :
         Earlier(g, h) /\ Source(g) = Source(h) => response'[g] <= response'[h]
  BY <1>5, <1>6, <1>7, <1>9, <1>10
<1>12. ReadsLeft(todo'[Debugger], DOMAIN response')
  BY <1>4, <1>6, <1>9
<1>13. ReadsLeft(todo[Debugger], DOMAIN response)'
  BY <1>12 DEF ReadsLeft, Earlier
<1>14. QED BY <1>2, <1>3, <1>5, <1>9, <1>10, <1>11, <1>13, ZenonT(30) DEF ReadInv, Source, Earlier

\* a Reset leaves what has been read, and if it counts for what is still to be
\* read, it has torn it
LEMMA ResetReads ==
  ASSUME IInv, ReadInv, NEW p \in Procs, ResetStat(p)
  PROVE  /\ response' = response
         /\ ~torn' => ~torn
         /\ ~torn' /\ DOMAIN response # Range(DebugOrder) =>
              \A f \in DOMAIN response : response[f] <= stats'[Source(f)]
<1> DEFINE g == It(p).field
<1>1. response' = response /\ torn \in BOOLEAN /\ stats \in [DOMAIN Zero -> Nat]
  BY HeldFacts DEF ResetStat
<1>2. CASE g = "keyCount"
  <2>1. UNCHANGED <<stats, torn>>
    BY <1>2 DEF ResetStat
  <2>2. QED BY <1>1, <2>1 DEF ReadInv
<1>3. CASE g \in {"hits", "misses"} /\ Midway
  <2>1. torn' = TRUE
    BY <1>3 DEF ResetStat
  <2>2. QED BY <1>1, <2>1
<1>4. CASE g # "keyCount" /\ ~(g \in {"hits", "misses"} /\ Midway)
  <2>1. torn' = torn /\ stats' = [stats EXCEPT ![g] = 0]
    <3>1. torn' = (torn \/ (g \in {"hits", "misses"} /\ Midway)) /\ stats' = [stats EXCEPT ![g] = 0]
      BY <1>4 DEF ResetStat
    <3> HIDE DEF g
    <3>2. QED BY <1>1, <1>4, <3>1
  <2>2. CASE Midway
    <3>1. \A f : Source(f) # g /\ Source(f) \in DOMAIN Zero
      BY <1>4, <2>2 DEF Source, Zero
    <3> HIDE DEF g
    <3>2. \A f : stats'[Source(f)] = stats[Source(f)]
      BY <1>1, <2>1, <3>1
    <3>3. QED BY <1>1, <2>1, <3>2 DEF ReadInv
  <2>3. CASE ~Midway
    BY <1>1, <2>1, <2>3 DEF Midway
  <2>4. QED BY <2>2, <2>3
<1>5. QED BY <1>2, <1>3, <1>4

LEMMA ReadInductive == IInv /\ ReadInv /\ [Next]_vars => ReadInv'
<1> SUFFICES ASSUME IInv, ReadInv, [Next]_vars PROVE ReadInv'
  OBVIOUS
<1>1. CASE \E p \in Procs : ReadStat(p)
  BY <1>1, ReadStatReads
<1>2. CASE \A p \in Procs : ~ReadStat(p)
  <2>1. /\ response' = response
        /\ ~torn' => ~torn
        /\ ~torn' /\ DOMAIN response # Range(DebugOrder) =>
             \A f \in DOMAIN response : response[f] <= stats'[Source(f)]
    <3>1. CASE \E p \in Procs : ResetStat(p)
      BY <3>1, ResetReads
    <3>2. CASE \A p \in Procs : ~ResetStat(p)
      <4>1. UNCHANGED <<response, torn, wiped>> /\ StatsGrow
        BY <1>2, <3>2, ReadsNothing
      <4>2. stats \in [DOMAIN Zero -> Nat] /\ stats' \in [DOMAIN Zero -> Nat]
        BY Inductive DEF IInv, StateInv, TypeOK
      <4>3. ASSUME NEW f \in DOMAIN response, response[f] <= stats[Source(f)]
            PROVE  response[f] <= stats'[Source(f)]
        <5>1. Source(f) \in DOMAIN Zero /\ response[f] \in Nat
          BY DEF Source, Zero, ReadInv
        <5>2. /\ stats[Source(f)] <= stats'[Source(f)]
              /\ stats[Source(f)] \in Nat /\ stats'[Source(f)] \in Nat
          BY <4>1, <4>2, <5>1 DEF StatsGrow
        <5>3. QED BY <4>3, <5>1, <5>2
      <4>4. QED BY <4>1, <4>3 DEF ReadInv
    <3>3. QED BY <3>1, <3>2
  <2>2. ReadsLeft(todo[Debugger], DOMAIN response)
    BY DEF ReadInv
  <2>3. ReadsLeft(todo'[Debugger], DOMAIN response)
    <3>1. ASSUME NEW p \in Procs, LockStep(p)
          PROVE  ReadsLeft(todo'[Debugger], DOMAIN response)
      <4>1. todo[p] # <<>> /\ Continue(p, <<>>)
        BY <3>1 DEF LockStep, Lock, Unlock, At
      <4>2. todo \in [Procs -> Seq(AllSteps)] /\ todo[p] \in Seq(StepsOf(p))
        BY DEF IInv, TodoInv
      <4>3. CASE Debugger = p
        <5>1. Tail(todo[p]) \in Seq(StepsOf(p)) /\ ReadsLeft(Tail(todo[p]), DOMAIN response)
          BY <2>2, <4>1, <4>2, <4>3, HeadTail, ReadsTail
        <5>2. <<>> \o Tail(todo[p]) = Tail(todo[p])
          BY <5>1, ConcatEmptySeq
        <5>3. QED BY <4>1, <4>2, <4>3, <5>1, <5>2 DEF Continue
      <4>4. CASE Debugger # p
        BY <2>2, <4>1, <4>2, <4>4 DEF Continue, Procs
      <4>5. QED BY <4>3, <4>4
    <3>2. QED BY <2>2, <3>1, NextIs, ReadsKept DEF Stepped
  <2>4. ReadsLeft(todo[Debugger], DOMAIN response)'
    BY <2>1, <2>3 DEF ReadsLeft, Earlier
  <2>5. QED BY <2>1, <2>4 DEF ReadInv, Source, Earlier
<1>3. QED BY <1>1, <1>2

-----------------------------------------------------------------------------
(* Whose the locks are.                                                    *)

\* sync ends the program when a mutex is unlocked that is not locked, and so when a
\* deferred Unlock meets one: each unlocking, deferred ones of a panic included, is
\* of a lock that its own goroutine has.
UnlocksHeld ==
  \A p \in Procs :
    /\ At(p, "runlock") => readers[p] > 0
    /\ At(p, "unlock") => writer = p
    /\ At(p, "sunlock") => smutex = p

LEMMA UnlocksAre == ASSUME IInv PROVE UnlocksHeld
<1>1. SUFFICES ASSUME NEW p \in Procs, todo[p] # <<>>, todo[p][1].step \in Unlocking
               PROVE  /\ todo[p][1].step = "runlock" => readers[p] > 0
                      /\ todo[p][1].step = "unlock" => writer = p
                      /\ todo[p][1].step = "sunlock" => smutex = p
  BY DEF UnlocksHeld, At, Unlocking
<1> DEFINE s == todo[p]
<1>2. s \in Seq(StepsOf(p)) /\ BalancedAt(p) /\ LocksFirst(s) /\ readers[p] \in Nat
  BY <1>1, HeadFacts DEF IInv, TodoInv, OrderedAt, StateInv, TypeOK
<1>3. ASSUME NEW x \in Locking
      PROVE  Num(s, x) = 0
  <2>1. Tail(s) \in Seq(StepsOf(p)) /\ s[1].step \notin Calm
    BY <1>1, <1>2, HeadTail DEF Calm, Locking, Unlocking
  <2>2. \A i \in 1..Len(Tail(s)) : Tail(s)[i].step \notin Locking
    BY <1>1, <1>2, <2>1, TailFacts
  <2> DEFINE t == Tail(s)
  <2>3. Num(Tail(s), x) = 0
    <3>1. t \in Seq(StepsOf(p)) /\ \A i \in 1..Len(t) : t[i].step # x
      BY <1>3, <2>1, <2>2
    <3> HIDE DEF t
    <3>2. Num(t, x) = 0
      BY <3>1, NumType
    <3>3. QED BY <3>2 DEF t
  <2>4. s[1].step # x
    BY <2>1 DEF Calm
  <2>5. QED BY <1>1, <1>2, <2>3, <2>4, NumTail
<1>4. ASSUME NEW x \in Unlocking, s[1].step = x
      PROVE  Num(s, x) \in Nat \ {0}
  <2>1. Tail(s) \in Seq(StepsOf(p))
    BY <1>1, <1>2, HeadTail
  <2>2. Num(s, x) = 1 + Num(Tail(s), x) /\ Num(Tail(s), x) \in Nat
    BY <1>1, <1>2, <1>4, <2>1, NumTail, NumType
  <2>3. QED BY <2>2
<1>5. /\ readers[p] + Num(s, "rlock") = Num(s, "runlock")
      /\ (IF writer = p THEN 1 ELSE 0) + Num(s, "lock") = Num(s, "unlock")
      /\ (IF smutex = p THEN 1 ELSE 0) + Num(s, "slock") = Num(s, "sunlock")
  BY <1>2 DEF BalancedAt, Balanced
<1>6. Num(s, "rlock") = 0 /\ Num(s, "lock") = 0 /\ Num(s, "slock") = 0
  BY <1>3 DEF Locking
<1> HIDE DEF s
<1>7. s[1].step = "runlock" => readers[p] > 0
  BY <1>2, <1>4, <1>5, <1>6 DEF Unlocking
<1>8. s[1].step = "unlock" => writer = p
  BY <1>4, <1>5, <1>6 DEF Unlocking
<1>9. s[1].step = "sunlock" => smutex = p
  BY <1>4, <1>5, <1>6 DEF Unlocking
<1>10. QED BY <1>7, <1>8, <1>9 DEF s

-----------------------------------------------------------------------------
(* Sums: what a fold over the samples of a metric answers.                 *)

Sum(t, A) == FoldFunctionOnSet(LAMBDA n, acc : n + acc, 0, t, A)

\* g has the sums over the sets of at most n elements, taken as the fold takes them
Pick(A) == CHOOSE x \in A : TRUE
Sums(t, A, n, g) ==
  g = [B \in SUBSET A |-> IF B = {} \/ Cardinality(B) > n THEN 0
                          ELSE t[Pick(B)] + g[B \ {Pick(B)}]]

\* what is left when an element is taken out
LEMMA LessOne ==
  ASSUME NEW A, IsFiniteSet(A), NEW B \in SUBSET A, NEW x \in B
  PROVE  /\ IsFiniteSet(B) /\ B \ {x} \in SUBSET A /\ IsFiniteSet(B \ {x})
         /\ Cardinality(B) \in Nat \ {0} /\ Cardinality(B \ {x}) = Cardinality(B) - 1
<1>1. IsFiniteSet(B)
  BY FS_Subset
<1>2. Cardinality(B) \in Nat /\ Cardinality(B) # 0
  BY <1>1, FS_CardinalityType, FS_EmptySet
<1>3. IsFiniteSet(B \ {x}) /\ Cardinality(B \ {x}) = Cardinality(B) - 1
  BY <1>1, FS_RemoveElement
<1>4. QED BY <1>1, <1>2, <1>3

LEMMA SumsExist ==
  ASSUME NEW t, NEW A, IsFiniteSet(A), NEW m \in Nat
  PROVE  \E g : Sums(t, A, m, g)
<1> DEFINE N == {n \in Nat : \E g : Sums(t, A, n, g)}
<1>0. ASSUME NEW B \in SUBSET A, B # {}
      PROVE  Pick(B) \in B
  BY <1>0 DEF Pick
<1>1. 0 \in N
  <2> DEFINE g == [B \in SUBSET A |-> 0]
  <2>1. ASSUME NEW B \in SUBSET A, B # {}
        PROVE  Cardinality(B) > 0
    <3>1. Cardinality(B) \in Nat \ {0}
      BY <1>0, <2>1, LessOne
    <3>2. QED BY <3>1
  <2>2. Sums(t, A, 0, g)
    BY <2>1 DEF Sums
  <2>3. QED BY <2>2
<1>2. ASSUME NEW n \in N
      PROVE  n + 1 \in N
  <2>1. PICK g : Sums(t, A, n, g)
    OBVIOUS
  <2> DEFINE val(B) == IF B = {} \/ Cardinality(B) > n + 1 THEN 0
                       ELSE t[Pick(B)] + g[B \ {Pick(B)}]
             h == [B \in SUBSET A |-> val(B)]
  <2>2. ASSUME NEW B \in SUBSET A, B # {}, ~(Cardinality(B) > n + 1)
        PROVE  h[B \ {Pick(B)}] = g[B \ {Pick(B)}]
    <3> DEFINE C == B \ {Pick(B)}
    <3>1. /\ C \in SUBSET A /\ Cardinality(B) \in Nat /\ Cardinality(C) = Cardinality(B) - 1
      BY <1>0, <2>2, LessOne
    <3>2. ~(Cardinality(C) > n) /\ ~(Cardinality(C) > n + 1)
      BY <2>2, <3>1
    <3> HIDE DEF C
    <3>3. h[C] = IF C = {} THEN 0 ELSE t[Pick(C)] + g[C \ {Pick(C)}]
      BY <3>1, <3>2
    <3>4. g[C] = IF C = {} THEN 0 ELSE t[Pick(C)] + g[C \ {Pick(C)}]
      BY <2>1, <3>1, <3>2 DEF Sums
    <3>5. QED BY <3>3, <3>4 DEF C
  <2>3. \A B \in SUBSET A : val(B) = IF B = {} \/ Cardinality(B) > n + 1 THEN 0
                                     ELSE t[Pick(B)] + h[B \ {Pick(B)}]
    BY <2>2
  <2> HIDE DEF val
  <2>4. h = [B \in SUBSET A |-> IF B = {} \/ Cardinality(B) > n + 1 THEN 0
                                ELSE t[Pick(B)] + h[B \ {Pick(B)}]]
    BY <2>3
  <2>5. Sums(t, A, n + 1, h)
    BY <2>4 DEF Sums
  <2>6. n + 1 \in Nat
    OBVIOUS
  <2>7. QED BY <2>5, <2>6
<1>3. N = Nat
  <2> HIDE DEF N
  <2>1. N \in SUBSET Nat
    BY DEF N
  <2>2. QED BY <1>1, <1>2, <2>1, Induction
<1>4. QED BY <1>3

AllSums(t, A, g) ==
  g = [B \in SUBSET A |-> IF B = {} THEN 0 ELSE t[Pick(B)] + g[B \ {Pick(B)}]]

LEMMA SumIs ==
  ASSUME NEW t, NEW A, IsFiniteSet(A)
  PROVE  \E g : Sum(t, A) = g[A] /\ AllSums(t, A, g)
<1>1. \E g : AllSums(t, A, g)
  <2>1. PICK g : Sums(t, A, Cardinality(A), g)
    BY SumsExist, FS_CardinalityType
  <2>2. \A B \in SUBSET A : ~(Cardinality(B) > Cardinality(A))
    <3>1. SUFFICES ASSUME NEW B \in SUBSET A PROVE ~(Cardinality(B) > Cardinality(A))
      OBVIOUS
    <3>2. Cardinality(B) \in Nat /\ Cardinality(A) \in Nat /\ Cardinality(B) <= Cardinality(A)
      BY FS_Subset, FS_CardinalityType
    <3>3. QED BY <3>2
  <2>3. AllSums(t, A, g)
    BY <2>1, <2>2 DEF Sums, AllSums
  <2>4. QED BY <2>3
<1>2. Sum(t, A) = (CHOOSE g : AllSums(t, A, g))[A]
  BY DEF Sum, FoldFunctionOnSet, MapThenFoldSet, Pick, AllSums
<1>3. AllSums(t, A, CHOOSE g : AllSums(t, A, g))
  BY <1>1
<1>4. QED BY <1>2, <1>3

\* the sum of what is added and what is there
LEMMA SumStep ==
  ASSUME NEW t, NEW A, IsFiniteSet(A)
  PROVE  /\ A = {} => Sum(t, A) = 0
         /\ A # {} => Pick(A) \in A /\ Sum(t, A) = t[Pick(A)] + Sum(t, A \ {Pick(A)})
<1>1. PICK g : Sum(t, A) = g[A] /\ AllSums(t, A, g)
  BY SumIs
<1>2. A = {} => Sum(t, A) = 0
  BY <1>1 DEF AllSums
<1>3. ASSUME A # {}
      PROVE  Pick(A) \in A /\ Sum(t, A) = t[Pick(A)] + Sum(t, A \ {Pick(A)})
  <2> DEFINE D == A \ {Pick(A)}
  <2>1. Pick(A) \in A
    BY <1>3 DEF Pick
  <2>2. IsFiniteSet(D) /\ D \in SUBSET A
    BY FS_Subset
  <2> HIDE DEF D
  <2>3. PICK h : Sum(t, D) = h[D] /\ AllSums(t, D, h)
    BY <2>2, SumIs
  <2>4. \A B \in SUBSET D : g[B] = h[B]
    <3> DEFINE N == {n \in Nat : \A B \in SUBSET D : Cardinality(B) = n => g[B] = h[B]}
    <3>1. 0 \in N
      <4>1. \A B \in SUBSET D : Cardinality(B) = 0 => B = {}
        BY <2>2, FS_Subset, FS_EmptySet
      <4>2. g[{}] = 0 /\ h[{}] = 0
        BY <1>1, <2>3 DEF AllSums
      <4>3. QED BY <4>1, <4>2
    <3>2. ASSUME NEW n \in N
          PROVE  n + 1 \in N
      <4>1. SUFFICES ASSUME NEW B \in SUBSET D, Cardinality(B) = n + 1 PROVE g[B] = h[B]
        OBVIOUS
      <4>2. B # {}
        <5>1. n \in Nat /\ Cardinality({}) = 0
          BY FS_EmptySet
        <5>2. QED BY <4>1, <5>1
      <4>3. Pick(B) \in B
        BY <4>2 DEF Pick
      <4> DEFINE C == B \ {Pick(B)}
      <4>4. C \in SUBSET D /\ Cardinality(C) = Cardinality(B) - 1
        BY <2>2, <4>3, LessOne, SMTT(15)
      <4>5. Cardinality(C) = n
        BY <4>1, <4>4
      <4>6. g[C] = h[C]
        BY <4>4, <4>5
      <4>7. B \in SUBSET A
        BY <2>2
      <4>8. g[B] = t[Pick(B)] + g[C] /\ h[B] = t[Pick(B)] + h[C]
        BY <1>1, <2>3, <4>2, <4>7 DEF AllSums
      <4>9. QED BY <4>6, <4>8
    <3>3. N = Nat
      <4> HIDE DEF N
      <4>1. N \in SUBSET Nat
        BY DEF N
      <4>2. QED BY <3>1, <3>2, <4>1, Induction
    <3>4. SUFFICES ASSUME NEW B \in SUBSET D PROVE g[B] = h[B]
      OBVIOUS
    <3>5. Cardinality(B) \in Nat
      BY <2>2, FS_Subset, FS_CardinalityType
    <3>6. QED BY <3>3, <3>5
  <2>5. g[A] = t[Pick(A)] + g[D]
    BY <1>1, <1>3 DEF D, AllSums
  <2>6. QED BY <1>1, <2>1, <2>3, <2>4, <2>5 DEF D
<1>4. QED BY <1>2, <1>3

LEMMA SumType ==
  ASSUME NEW A, IsFiniteSet(A), NEW t, \A x \in A : t[x] \in Nat
  PROVE  Sum(t, A) \in Nat
<1> DEFINE N == {n \in Nat : \A B \in SUBSET A : Cardinality(B) = n => Sum(t, B) \in Nat}
<1>1. 0 \in N
  <2>1. SUFFICES ASSUME NEW B \in SUBSET A, Cardinality(B) = 0 PROVE Sum(t, B) \in Nat
    OBVIOUS
  <2>2. IsFiniteSet(B) /\ B = {}
    BY <2>1, FS_Subset, FS_EmptySet
  <2>3. Sum(t, B) = 0
    BY <2>2, SumStep
  <2>4. QED BY <2>3
<1>2. ASSUME NEW n \in N
      PROVE  n + 1 \in N
  <2>1. SUFFICES ASSUME NEW B \in SUBSET A, Cardinality(B) = n + 1 PROVE Sum(t, B) \in Nat
    OBVIOUS
  <2>2. IsFiniteSet(B) /\ B # {}
    BY <2>1, FS_Subset, FS_EmptySet
  <2>3. Pick(B) \in B /\ Sum(t, B) = t[Pick(B)] + Sum(t, B \ {Pick(B)})
    BY <2>2, SumStep
  <2>4. B \ {Pick(B)} \in SUBSET A /\ Cardinality(B \ {Pick(B)}) = Cardinality(B) - 1
    BY <2>3, LessOne
  <2>5. Cardinality(B \ {Pick(B)}) = n
    BY <2>1, <2>4
  <2>6. Sum(t, B \ {Pick(B)}) \in Nat
    BY <2>4, <2>5
  <2>7. t[Pick(B)] \in Nat
    BY <2>3
  <2>8. QED BY <2>3, <2>6, <2>7
<1>3. N = Nat
  <2> HIDE DEF N
  <2>1. N \in SUBSET Nat
    BY DEF N
  <2>2. QED BY <1>1, <1>2, <2>1, Induction
<1>4. Cardinality(A) \in Nat
  BY FS_CardinalityType
<1>5. QED BY <1>3, <1>4

\* whichever element is taken out first
LEMMA SumOut ==
  ASSUME NEW A, IsFiniteSet(A), NEW t, \A x \in A : t[x] \in Nat, NEW a \in A
  PROVE  Sum(t, A) = t[a] + Sum(t, A \ {a})
<1> DEFINE N == {n \in Nat : \A B \in SUBSET A : Cardinality(B) = n =>
                              \A x \in B : Sum(t, B) = t[x] + Sum(t, B \ {x})}
<1>1. 0 \in N
  <2>1. \A B \in SUBSET A : Cardinality(B) = 0 => B = {}
    BY FS_Subset, FS_EmptySet
  <2>2. QED BY <2>1
<1>2. ASSUME NEW n \in N
      PROVE  n + 1 \in N
  <2>1. SUFFICES ASSUME NEW B \in SUBSET A, Cardinality(B) = n + 1, NEW x \in B
                 PROVE  Sum(t, B) = t[x] + Sum(t, B \ {x})
    OBVIOUS
  <2> DEFINE y == Pick(B)
             C == B \ {y}
             D == B \ {x}
  <2>2. IsFiniteSet(B) /\ B # {}
    BY FS_Subset
  <2>3. y \in B /\ Sum(t, B) = t[y] + Sum(t, C)
    BY <2>2, SumStep
  <2>4. CASE x = y
    BY <2>3, <2>4
  <2>5. CASE x # y
    <3>1. /\ C \in SUBSET A /\ Cardinality(C) = Cardinality(B) - 1
          /\ D \in SUBSET A /\ Cardinality(D) = Cardinality(B) - 1
      BY <2>3, LessOne
    <3>2. Cardinality(C) = n /\ Cardinality(D) = n
      BY <2>1, <3>1
    <3>3. x \in C /\ y \in D /\ C \ {x} = D \ {y}
      BY <2>3, <2>5
    <3> HIDE DEF y, C, D
    <3>4. Sum(t, C) = t[x] + Sum(t, C \ {x}) /\ Sum(t, D) = t[y] + Sum(t, D \ {y})
      BY <3>1, <3>2, <3>3
    <3>5. IsFiniteSet(C \ {x}) /\ C \ {x} \in SUBSET A
      BY <3>1, FS_Subset
    <3>6. Sum(t, C \ {x}) \in Nat /\ t[x] \in Nat /\ t[y] \in Nat
      BY <2>3, <3>5, SumType
    <3>7. Sum(t, D) = t[y] + Sum(t, C \ {x})
      BY <3>3, <3>4
    <3>8. Sum(t, B) = t[y] + (t[x] + Sum(t, C \ {x}))
      BY <2>3, <3>4
    <3>9. Sum(t, B) = t[x] + Sum(t, D)
      BY <3>6, <3>7, <3>8
    <3>10. QED BY <3>9 DEF D
  <2>6. QED BY <2>4, <2>5
<1>3. N = Nat
  <2> HIDE DEF N
  <2>1. N \in SUBSET Nat
    BY DEF N
  <2>2. QED BY <1>1, <1>2, <2>1, Induction
<1>4. Cardinality(A) \in Nat
  BY FS_CardinalityType
<1>5. QED BY <1>3, <1>4

\* more samples, with more in each, have no smaller sum
LEMMA SumGrows ==
  ASSUME NEW A, IsFiniteSet(A), NEW t, \A x \in A : t[x] \in Nat,
         NEW B \in SUBSET A, NEW u, \A x \in B : u[x] \in Nat /\ u[x] <= t[x]
  PROVE  Sum(u, B) <= Sum(t, A)
<1> DEFINE N == {n \in Nat : \A C \in SUBSET A : Cardinality(C) = n => Sum(u, C \intersect B) <= Sum(t, C)}
<1>1. 0 \in N
  <2>1. SUFFICES ASSUME NEW C \in SUBSET A, Cardinality(C) = 0
                 PROVE  Sum(u, C \intersect B) <= Sum(t, C)
    OBVIOUS
  <2>2. C = {} /\ IsFiniteSet({})
    BY <2>1, FS_Subset, FS_EmptySet
  <2>3. C \intersect B = {} /\ Sum(u, {}) = 0 /\ Sum(t, {}) = 0
    BY <2>2, SumStep
  <2>4. QED BY <2>2, <2>3
<1>2. ASSUME NEW n \in N
      PROVE  n + 1 \in N
  <2>1. SUFFICES ASSUME NEW C \in SUBSET A, Cardinality(C) = n + 1
                 PROVE  Sum(u, C \intersect B) <= Sum(t, C)
    OBVIOUS
  <2> DEFINE y == Pick(C)
             D == C \ {y}
  <2>2. IsFiniteSet(C) /\ C # {}
    BY <2>1, FS_Subset, FS_EmptySet
  <2>3. y \in C /\ Sum(t, C) = t[y] + Sum(t, D)
    BY <2>2, SumStep
  <2>4. D \in SUBSET A /\ IsFiniteSet(D) /\ Cardinality(D) = Cardinality(C) - 1
    BY <2>3, LessOne
  <2>5. Cardinality(D) = n
    BY <2>1, <2>4
  <2> HIDE DEF D, y
  <2>6. Sum(u, D \intersect B) <= Sum(t, D)
    BY <2>4, <2>5
  <2>7. /\ t[y] \in Nat /\ Sum(t, D) \in Nat
        /\ IsFiniteSet(D \intersect B) /\ Sum(u, D \intersect B) \in Nat
        /\ IsFiniteSet(C \intersect B)
    <3>1. IsFiniteSet(D \intersect B) /\ IsFiniteSet(C \intersect B)
      BY <2>2, <2>4, FS_Subset
    <3>2. Sum(t, D) \in Nat
      BY <2>4, SumType
    <3>3. Sum(u, D \intersect B) \in Nat
      BY <3>1, SumType
    <3>4. QED BY <2>3, <3>1, <3>2, <3>3
  <2>8. CASE y \in B
    <3>1. y \in C \intersect B /\ (C \intersect B) \ {y} = D \intersect B
      BY <2>3, <2>8 DEF D
    <3>2. Sum(u, C \intersect B) = u[y] + Sum(u, (C \intersect B) \ {y})
      BY <2>7, <3>1, SumOut
    <3>3. u[y] \in Nat /\ u[y] <= t[y]
      BY <2>8
    <3>4. Sum(u, C \intersect B) = u[y] + Sum(u, D \intersect B)
      BY <3>1, <3>2
    <3>5. \A a, b, c, d \in Nat : a <= b /\ c <= d => a + c <= b + d
      OBVIOUS
    <3>6. u[y] + Sum(u, D \intersect B) <= t[y] + Sum(t, D)
      BY <2>6, <2>7, <3>3, <3>5
    <3>7. QED BY <2>3, <3>4, <3>6
  <2>9. CASE y \notin B
    <3>1. Sum(u, C \intersect B) = Sum(u, D \intersect B)
      <4>1. C \intersect B = D \intersect B
        BY <2>9 DEF D
      <4>2. QED BY <4>1
    <3>2. \A a, b, c \in Nat : a <= c => a <= b + c
      OBVIOUS
    <3>3. Sum(u, D \intersect B) <= t[y] + Sum(t, D)
      BY <2>6, <2>7, <3>2
    <3>4. QED BY <2>3, <3>1, <3>3
  <2>10. QED BY <2>8, <2>9
<1>3. N = Nat
  <2> HIDE DEF N
  <2>1. N \in SUBSET Nat
    BY DEF N
  <2>2. QED BY <1>1, <1>2, <2>1, Induction
<1>4. Cardinality(A) \in Nat /\ A \intersect B = B
  BY FS_CardinalityType
<1>5. QED BY <1>3, <1>4

-----------------------------------------------------------------------------
(* What exporters add up never shrinks.                                    *)

IsExporter(x) ==
  /\ x = [f \in DOMAIN x |-> x[f]] /\ {"total", "last", "custom"} \subseteq DOMAIN x
  /\ IsFiniteSet(DOMAIN x.total) /\ x.total \in [DOMAIN x.total -> Nat]

Grows(x, y) == IsExporter(y) /\ \A name : Exported(x, name) <= Exported(y, name)

Of(x, name) == {s \in DOMAIN x.total : s.name = name}

LEMMA ExportedIs ==
  ASSUME NEW x, IsExporter(x), NEW name
  PROVE  /\ Exported(x, name) = Sum(x.total, Of(x, name)) /\ Exported(x, name) \in Nat
         /\ IsFiniteSet(Of(x, name)) /\ \A s \in Of(x, name) : x.total[s] \in Nat
<1>1. Exported(x, name) = Sum(x.total, Of(x, name))
  BY DEF Exported, Sum, Of
<1>2. IsFiniteSet(Of(x, name)) /\ \A s \in Of(x, name) : x.total[s] \in Nat
  BY FS_Subset DEF IsExporter, Of
<1>3. QED BY <1>1, <1>2, SumType

LEMMA SameTotal ==
  ASSUME NEW x, IsExporter(x), NEW y, y = [f \in DOMAIN x |-> y[f]], y.total = x.total
  PROVE  Grows(x, y)
<1>1. DOMAIN y = DOMAIN x
  OBVIOUS
<1>2. IsExporter(y)
  BY <1>1 DEF IsExporter
<1>3. \A name : Exported(y, name) = Exported(x, name) /\ Exported(x, name) \in Nat
  BY ExportedIs DEF Exported
<1>4. QED BY <1>2, <1>3 DEF Grows

LEMMA GrowsOn ==
  ASSUME NEW x, IsExporter(x), NEW y, Grows(x, y), NEW z, Grows(y, z)
  PROVE  Grows(x, z)
<1>1. IsExporter(y) /\ IsExporter(z)
  BY DEF Grows
<1>2. ASSUME NEW name
      PROVE  Exported(x, name) <= Exported(z, name)
  <2>1. Exported(x, name) \in Nat /\ Exported(y, name) \in Nat /\ Exported(z, name) \in Nat
    BY <1>1, ExportedIs
  <2>2. QED BY <2>1 DEF Grows
<1>3. QED BY <1>1, <1>2 DEF Grows

LEMMA AddFacts ==
  ASSUME NEW x, IsExporter(x), NEW s, NEW n \in Nat
  PROVE  Grows(x, Add(x, s, n)) /\ n <= Exported(Add(x, s, n), s.name)
<1> DEFINE y == Add(x, s, n)
           t == x.total
           u == y.total
<1>1. /\ y = [f \in DOMAIN x |-> y[f]]
      /\ u = [e \in DOMAIN t \union {s} |-> (IF e \in DOMAIN t THEN t[e] ELSE 0) + (IF e = s THEN n ELSE 0)]
  BY DEF Add, IsExporter
<1>2. IsFiniteSet(DOMAIN t) /\ \A e \in DOMAIN t : t[e] \in Nat
  BY DEF IsExporter
<1>3. IsFiniteSet(DOMAIN u) /\ DOMAIN u = DOMAIN t \union {s}
  BY <1>1, <1>2, FS_AddElement
<1> HIDE DEF t
<1>4. /\ \A e \in DOMAIN u : u[e] \in Nat
      /\ \A e \in DOMAIN t : t[e] <= u[e]
      /\ u[s] >= n
  BY <1>1, <1>2
<1>5. IsExporter(y)
  BY <1>1, <1>3, <1>4 DEF IsExporter
<1>6. ASSUME NEW name
      PROVE  Exported(x, name) <= Exported(y, name)
  <2>1. Of(x, name) \in SUBSET Of(y, name)
    BY <1>3 DEF Of, t
  <2>2. \A e \in Of(x, name) : t[e] \in Nat /\ t[e] <= u[e]
    BY <1>2, <1>4 DEF Of, t
  <2>3. /\ Exported(x, name) = Sum(t, Of(x, name)) /\ Exported(y, name) = Sum(u, Of(y, name))
        /\ IsFiniteSet(Of(y, name)) /\ \A e \in Of(y, name) : u[e] \in Nat
    BY <1>5, ExportedIs DEF t
  <2> HIDE DEF u, y
  <2>4. Sum(t, Of(x, name)) <= Sum(u, Of(y, name))
    BY <2>1, <2>2, <2>3, SumGrows
  <2>5. QED BY <2>3, <2>4
<1>7. n <= Exported(y, s.name)
  <2>1. s \in Of(y, s.name)
    BY <1>3 DEF Of
  <2>2. /\ Exported(y, s.name) = Sum(u, Of(y, s.name))
        /\ IsFiniteSet(Of(y, s.name)) /\ \A e \in Of(y, s.name) : u[e] \in Nat
    BY <1>5, ExportedIs
  <2> HIDE DEF u, y
  <2>3. Sum(u, Of(y, s.name)) = u[s] + Sum(u, Of(y, s.name) \ {s})
    BY <2>1, <2>2, SumOut
  <2>4. Sum(u, Of(y, s.name) \ {s}) \in Nat
    <3>1. IsFiniteSet(Of(y, s.name) \ {s})
      BY <2>2, FS_Subset
    <3>2. QED BY <2>2, <3>1, SumType
  <2>5. u[s] \in Nat
    BY <2>1, <2>2
  <2>6. QED BY <1>4, <2>2, <2>3, <2>4, <2>5
<1>8. QED BY <1>5, <1>6, <1>7 DEF Grows

LEMMA SetToFacts ==
  ASSUME NEW x, IsExporter(x), NEW s, NEW n
  PROVE  Grows(x, SetTo(x, s, n))
<1>1. SetTo(x, s, n) = [f \in DOMAIN x |-> SetTo(x, s, n)[f]] /\ SetTo(x, s, n).total = x.total
  BY DEF SetTo, IsExporter
<1>2. QED BY <1>1, SameTotal

LEMMA ExportFacts ==
  ASSUME NEW x, IsExporter(x), NEW name, NEW n \in Nat, NEW labels
  PROVE  /\ Grows(x, Export(x, name, n, labels))
         /\ name \notin Range(Gauges) => n <= Exported(Export(x, name, n, labels), name)
<1>1. \A l : Sample(name, l).name = name
  BY DEF Sample
<1>2. \/ name \in Range(Gauges) /\ \E l : Export(x, name, n, labels) = SetTo(x, Sample(name, l), n)
      \/ name \notin Range(Gauges) /\ \E l : Export(x, name, n, labels) = Add(x, Sample(name, l), n)
  BY DEF Export, PrometheusExport, OpenTelemetryExport
<1>3. QED BY <1>1, <1>2, AddFacts, SetToFacts

LEMMA TimedFacts ==
  ASSUME NEW x, IsExporter(x), NEW labels
  PROVE  Grows(x, Timed(x, labels))
<1>1. x = [f \in DOMAIN x |-> x[f]]
  BY DEF IsExporter
<1>2. QED BY <1>1, AddFacts, SameTotal DEF Timed

LEMMA RecordFacts ==
  ASSUME NEW x, IsExporter(x), NEW op, NEW labels
  PROVE  Grows(x, Record(x, op, labels))
<1>1. \/ \E l : Record(x, op, labels) = Timed(x, l)
      \/ \E s, l : Record(x, op, labels) = Timed(Add(x, s, 1), l)
  BY DEF Record, PrometheusRecord, OpenTelemetryRecord
<1>2. \A s : Grows(x, Add(x, s, 1)) /\ IsExporter(Add(x, s, 1))
  BY AddFacts DEF Grows
<1>3. QED BY <1>1, <1>2, TimedFacts, GrowsOn

LEMMA CustomFacts ==
  ASSUME NEW x, IsExporter(x), NEW reg, NEW kind, NEW name, NEW labels
  PROVE  Grows(x, Custom(reg, x, kind, name, labels, 1).x)
<1>1. ASSUME NEW y, IsExporter(y), NEW s
      PROVE  Grows(y, Apply(y, kind, s, 1))
  BY <1>1, AddFacts, SetToFacts DEF Apply
<1>2. Grows(x, x)
  <2>1. x = [f \in DOMAIN x |-> x[f]]
    BY DEF IsExporter
  <2>2. QED BY <2>1, SameTotal
<1>3. ASSUME NEW c
      PROVE  Grows(x, [x EXCEPT !.custom = c])
  <2>1. [x EXCEPT !.custom = c] = [f \in DOMAIN x |-> [x EXCEPT !.custom = c][f]]
        /\ [x EXCEPT !.custom = c].total = x.total
    BY DEF IsExporter
  <2>2. QED BY <2>1, SameTotal
<1> DEFINE id == <<kind, name>>
           y == IF id \in DOMAIN x.custom THEN x
                ELSE [x EXCEPT !.custom = [n \in DOMAIN @ \union {id} |->
                                             IF n = id THEN DOMAIN labels ELSE @[n]]]
<1>4. Grows(x, y) /\ IsExporter(y)
  BY <1>2, <1>3 DEF Grows
<1>5. \/ Custom(reg, x, kind, name, labels, 1).x = x
      \/ Custom(reg, x, kind, name, labels, 1).x = y
      \/ \E s : Custom(reg, x, kind, name, labels, 1).x = Apply(y, kind, s, 1)
      \/ \E s : Custom(reg, x, kind, name, labels, 1).x = Apply(x, kind, s, 1)
  BY DEF Custom, PrometheusCustom, OpenTelemetryCustom
<1> HIDE DEF y
<1>6. QED BY <1>1, <1>2, <1>4, <1>5, GrowsOn

-----------------------------------------------------------------------------
(* What an exporter has been given only grows.                             *)

LEMMA GrowsSelf ==
  ASSUME NEW x, IsExporter(x)
  PROVE  Grows(x, x)
<1>1. x = [f \in DOMAIN x |-> x[f]]
  BY DEF IsExporter
<1>2. QED BY <1>1, SameTotal

AllExporters == \A i \in DOMAIN exporters : IsExporter(exporters[i])

\* the statistics that the reporter exports are numbers
LEMMA StatOfType ==
  ASSUME IInv, NEW p \in Procs, ExportStat(p)
  PROVE  /\ todo[p] # <<>> /\ It(p) = todo[p][1] /\ StatOf(It(p).name) \in Nat
         /\ It(p).name \in DOMAIN Zero => /\ StatOf(It(p).name) = stats[It(p).name]
                                          /\ It(p).name \notin Range(Gauges)
<1>1. todo[p] # <<>> /\ It(p) = todo[p][1] /\ It(p).step = "export" /\ It(p) \in ExportSteps
  BY AtFacts, HeadFacts DEF ExportStat, ExportStep
<1>2. It(p).name \in {"hits", "misses", "evictions", "invalidations", "keys", "inFlight", "hitRate"}
  BY <1>1 DEF ExportSteps
<1>3. stats \in [DOMAIN Zero -> Nat] /\ keyCount \in Nat
  BY HeldFacts, CapacityPositive
<1>4. stats \in [{"hits", "misses", "evictions", "invalidations"} -> Nat]
  BY <1>3 DEF Zero
<1>5. StatOf(It(p).name) \in Nat
  BY <1>2, <1>3, <1>4 DEF StatOf
<1>6. Range(Gauges) = {"keys", "inFlight", "hitRate"}
  BY DEF Range, Gauges
<1>7. QED BY <1>1, <1>4, <1>5, <1>6 DEF Zero, StatOf

LEMMA ExportersGrow ==
  ASSUME IInv, [Next]_vars, AllExporters
  PROVE  /\ DOMAIN exporters' = DOMAIN exporters
         /\ \A i \in DOMAIN exporters : Grows(exporters[i], exporters'[i])
<1> DEFINE Goal == /\ DOMAIN exporters' = DOMAIN exporters
                   /\ \A i \in DOMAIN exporters : Grows(exporters[i], exporters'[i])
<1>1. exporters' = exporters => Goal
  BY GrowsSelf DEF AllExporters
<1>2. ASSUME NEW i, NEW x, exporters' = [exporters EXCEPT ![i] = x],
             i \in DOMAIN exporters => Grows(exporters[i], x)
      PROVE  Goal
  <2>1. DOMAIN exporters' = DOMAIN exporters
    BY <1>2
  <2>2. ASSUME NEW j \in DOMAIN exporters
        PROVE  Grows(exporters[j], exporters'[j])
    <3>1. CASE j = i
      BY <1>2, <3>1
    <3>2. CASE j # i
      BY <1>2, <3>2, GrowsSelf DEF AllExporters
    <3>3. QED BY <3>1, <3>2
  <2>3. QED BY <2>1, <2>2
<1>3. ASSUME NEW p \in Procs, HookCounts(p)
      PROVE  Goal
  <2> DEFINE i == It(p).i
             a == It(p).atom
             of == It(p).of
             x == Custom(registry, exporters[i], a.kind, a.name, LabelsOf(a, of), 1).x
  <2>1. exporters' = exporters \/ (i \in DOMAIN exporters /\ exporters' = [exporters EXCEPT ![i] = x])
    BY <1>3 DEF HookCounts, exports
  <2>2. i \in DOMAIN exporters => Grows(exporters[i], x)
    BY CustomFacts DEF AllExporters
  <2> HIDE DEF i, x, Goal
  <2>3. QED BY <1>1, <1>2, <2>1, <2>2
<1>4. ASSUME NEW p \in Procs, ExportStat(p)
      PROVE  Goal
  <2> DEFINE i == It(p).i
             x == Export(exporters[i], It(p).name, StatOf(It(p).name), S.labels)
  <2>1. exporters' = [exporters EXCEPT ![i] = x]
    BY <1>4 DEF ExportStat
  <2>2. i \in DOMAIN exporters => Grows(exporters[i], x)
    BY <1>4, StatOfType, ExportFacts DEF AllExporters
  <2> HIDE DEF i, x, Goal
  <2>3. QED BY <1>2, <2>1, <2>2
<1>5. ASSUME NEW p \in Procs, RecordOperation(p)
      PROVE  Goal
  <2> DEFINE i == It(p).i
             x == Record(exporters[i], It(p).op, S.labels)
  <2>1. exporters' = exporters \/ exporters' = [exporters EXCEPT ![i] = x]
    BY <1>5 DEF RecordOperation
  <2>2. i \in DOMAIN exporters => Grows(exporters[i], x)
    BY RecordFacts DEF AllExporters
  <2> HIDE DEF i, x, Goal
  <2>3. QED BY <1>1, <1>2, <2>1, <2>2
<1>6. SUFFICES Goal
  OBVIOUS
<1> HIDE DEF Goal
<1>7. ASSUME NEW p \in Procs, Step(p)
      PROVE  Goal
  <2>1. CASE LockStep(p) \/ HookLogs(p) \/ HookCalls(p) \/ HookPanics(p)
    BY <1>1, <2>1 DEF LockStep, HookLogs, HookCalls, HookPanics, exports
  <2>2. CASE \/ Find(p) \/ Peek(p) \/ Add1(p) \/ Remove1(p) \/ Collect(p) \/ Purge(p) \/ ListKeys(p)
             \/ NotifyEvicted(p) \/ NotifyInvalidated(p) \/ CountKeys(p) \/ DebugKeys(p)
    BY <1>1, <2>2 DEF Find, Peek, Add1, Remove1, Collect, Purge, ListKeys, NotifyEvicted,
                      NotifyInvalidated, CountKeys, DebugKeys, StoreStep, exports
  <2>3. CASE Stop(p) \/ Wait(p) \/ CloseExporter(p) \/ CloseStore(p) \/ ReadStat(p)
    BY <1>1, <2>3 DEF Stop, Wait, CloseExporter, CloseStore, ReadStat, exports
  <2>4. CASE ResetStat(p)
    BY <1>1, <2>4 DEF ResetStat, exports
  <2>5. QED BY <1>3, <1>4, <1>5, <1>7, <2>1, <2>2, <2>3, <2>4 DEF Step
<1>8. CASE ReporterStop \/ ReporterTick \/ ReporterDone
  BY <1>1, <1>8 DEF ReporterStop, ReporterTick, ReporterDone, ExportStep, exports
<1>9. CASE \/ \E c \in Callers, k \in Keys, op \in S.ops : Call(c, op, k)
           \/ DebugRequest \/ JanitorTick \/ \E k \in Keys : Expire(k)
  BY <1>1, <1>9 DEF Call, DebugRequest, JanitorTick, Launch, Expire, exports
<1>10. CASE UNCHANGED vars
  BY <1>1, <1>10 DEF vars, exports
<1>11. QED BY <1>7, <1>8, <1>9, <1>10 DEF Next

\* a counter that is exported has been given all that was counted
LEMMA ExportAdds ==
  ASSUME IInv, AllExporters, NEW p \in Procs, ExportStat(p), NEW i \in DOMAIN exporters,
         NEW f \in DOMAIN Zero, todo[p][1] = [step |-> "export", i |-> i, name |-> f]
  PROVE  stats[f] <= Exported(exporters'[i], f)
<1>1. It(p).i = i /\ It(p).name = f /\ StatOf(f) \in Nat /\ StatOf(f) = stats[f] /\ f \notin Range(Gauges)
  BY StatOfType
<1>2. exporters'[i] = Export(exporters[i], f, StatOf(f), S.labels)
  BY <1>1 DEF ExportStat
<1>3. QED BY <1>1, <1>2, ExportFacts DEF AllExporters

-----------------------------------------------------------------------------
(* The reporter's last plan has every statistic of every exporter.         *)

LEMMA FlattenHas ==
  ASSUME NEW T, NEW s \in Seq(Seq(T)), NEW m \in 1..Len(s), NEW j \in 1..Len(s[m])
  PROVE  \E k \in 1..Len(FlattenSeq(s)) : FlattenSeq(s)[k] = s[m][j]
<1> DEFINE e == s[m][j]
<1>1. Len(s) \in Nat \ {0} /\ \A n \in 1..Len(s) : s[n] \in Seq(T)
  BY LenProperties, ElementOfSeq
<1>2. PICK f : Flat(s, Len(s), f) /\ FlattenSeq(s) = f[Len(s)]
  BY <1>1, FlattenIs
<1>3. \A n \in 1..Len(s) : f[n] \in Seq(T)
  BY <1>2, FlatType
<1> DEFINE N == {n \in Nat : n \in m..Len(s) => \E k \in 1..Len(f[n]) : f[n][k] = e}
<1>4. 0 \in N
  OBVIOUS
<1>5. ASSUME NEW n \in N
      PROVE  n + 1 \in N
  <2>1. SUFFICES ASSUME n + 1 \in m..Len(s)
                 PROVE  \E k \in 1..Len(f[n + 1]) : f[n + 1][k] = e
    OBVIOUS
  <2>2. n \in Nat /\ n + 1 \in 1..Len(s)
    BY <1>1, <2>1
  <2>3. f[n + 1] = IF n = 0 THEN s[n + 1] ELSE f[n] \o s[n + 1]
    <3>1. f[n + 1] = IF n + 1 = 1 THEN s[n + 1] ELSE f[(n + 1) - 1] \o s[n + 1]
      BY <1>2, <2>2, Zenon DEF Flat
    <3>2. (n + 1) - 1 = n /\ (n + 1 = 1 <=> n = 0)
      BY <2>2
    <3>3. QED BY <3>1, <3>2
  <2>4. CASE n = 0
    <3>1. m = n + 1
      BY <2>1, <2>2, <2>4
    <3>2. QED BY <2>3, <2>4, <3>1
  <2>5. CASE n # 0
    <3>1. n \in 1..Len(s) /\ f[n] \in Seq(T) /\ s[n + 1] \in Seq(T)
      BY <1>1, <1>3, <2>2, <2>5
    <3> DEFINE a == f[n]
               b == s[n + 1]
               c == f[n + 1]
    <3>2. a \in Seq(T) /\ b \in Seq(T) /\ c = a \o b
      BY <2>3, <2>5, <3>1
    <3> HIDE DEF a, b, c
    <3>3. /\ Len(a) \in Nat /\ Len(b) \in Nat /\ Len(c) = Len(a) + Len(b)
          /\ \A k \in 1..Len(a) : c[k] = a[k]
          /\ \A k \in 1..Len(b) : c[k + Len(a)] = b[k]
      BY <3>2, Places2
    <3>4. SUFFICES \E k \in 1..Len(c) : c[k] = e
      BY DEF c
    <3>5. CASE m = n + 1
      <4>1. j \in 1..Len(b) /\ b[j] = e
        BY <3>5 DEF b
      <4>2. c[j + Len(a)] = e
        BY <3>3, <4>1
      <4>3. j + Len(a) \in 1..Len(c)
        BY <3>3, <4>1, SMTT(15)
      <4>4. QED BY <4>2, <4>3
    <3>6. CASE m # n + 1
      <4>1. n \in m..Len(s)
        BY <1>1, <2>1, <2>2, <3>6
      <4>2. PICK k \in 1..Len(a) : a[k] = e
        BY <4>1 DEF a
      <4>3. k \in 1..Len(c) /\ c[k] = e
        BY <3>3, <4>2
      <4>4. QED BY <4>3
    <3>7. QED BY <3>5, <3>6
  <2>6. QED BY <2>4, <2>5
<1>6. N = Nat
  <2> HIDE DEF N
  <2>1. N \in SUBSET Nat
    BY DEF N
  <2>2. QED BY <1>4, <1>5, <2>1, Induction
<1>7. Len(s) \in m..Len(s)
  BY <1>1
<1>8. QED BY <1>1, <1>2, <1>6, <1>7

ExportOf(i, f) == [step |-> "export", i |-> i, name |-> f]

LEMMA PlanHas ==
  ASSUME IInv, NEW i \in DOMAIN exporters, NEW f \in DOMAIN Zero
  PROVE  \E k \in 1..Len(ExportPlan) : ExportPlan[k] = ExportOf(i, f)
<1>1. PICK n \in Nat : DOMAIN exporters = 1..n
  BY DEF IInv, StateInv
<1> DEFINE order(m) == ExportOrder(exporters[m])
           plan(m) == [j \in DOMAIN order(m) |-> [step |-> "export", i |-> m, name |-> order(m)[j]]]
           g == [m \in DOMAIN exporters |-> plan(m)]
<1>2. \A x : Len(ExportOrder(x)) = 7 /\ DOMAIN ExportOrder(x) = 1..7
             /\ \E j \in 1..7 : ExportOrder(x)[j] = f
  BY DEF ExportOrder, Gauges, Zero
<1> DEFINE T == {ExportOf(m, order(m)[j]) : m \in 1..n, j \in 1..7}
<1>3. ASSUME NEW m \in 1..n
      PROVE  plan(m) \in Seq(T) /\ Len(plan(m)) = 7
  <2>1. DOMAIN order(m) = 1..7
    BY <1>2
  <2> HIDE DEF order
  <2>2. plan(m) \in [1..7 -> T]
    BY <2>1, SMTT(15) DEF ExportOf
  <2> HIDE DEF plan, T
  <2>3. QED BY <2>2, IndexedIsSeq
<1>4. PICK j \in 1..7 : order(i)[j] = f
  BY <1>2
<1>5. plan(i)[j] = ExportOf(i, f) /\ j \in 1..Len(plan(i))
  <2>1. DOMAIN order(i) = 1..7
    BY <1>2
  <2> HIDE DEF order
  <2>2. plan(i)[j] = ExportOf(i, f)
    BY <1>4, <2>1 DEF ExportOf
  <2> HIDE DEF plan, T
  <2>3. Len(plan(i)) = 7
    BY <1>1, <1>3
  <2>4. QED BY <2>2, <2>3
<1> HIDE DEF order, plan, T
<1>6. g \in Seq(Seq(T)) /\ Len(g) = n
  <2>1. g \in [1..n -> Seq(T)]
    BY <1>1, <1>3
  <2> HIDE DEF g
  <2>2. QED BY <1>1, <2>1, IndexedIsSeq
<1>7. i \in 1..Len(g) /\ g[i] = plan(i)
  BY <1>1, <1>6
<1>8. ExportPlan = FlattenSeq(g)
  BY DEF ExportPlan, plan, order
<1> HIDE DEF g
<1>9. QED BY <1>5, <1>6, <1>7, <1>8, FlattenHas

-----------------------------------------------------------------------------
(* What Close leaves to the reporter.                                      *)

Ending == \/ reporter = "done"
          \/ \E j \in 1..Len(todo[Reporter]) : todo[Reporter][j].step = "reporterDone"
Pending(i, f) == \E j \in 1..Len(todo[Reporter]) : todo[Reporter][j] = ExportOf(i, f)
Given(i, f) == atClose[f] <= Exported(exporters[i], f)

\* a Close between the lock and the closing of the exporter, and after it has
\* told the reporter to stop
AtLinked(p) == todo[p] # <<>> /\ todo[p][1].step \in Linking
Closer(p) == todo[p] # <<>> /\ todo[p][1].step \in {"wait", "closeExporter"}

\* From where a Close tells the reporter to stop to where it closes the exporter
\* it has c.mu, and no other call replaces the statistics it found; the reporter
\* begins its last export after that, and what an exporter has not been given
\* by then it still has to be given.
LastInv ==
  /\ atClose \in [DOMAIN Zero -> Nat] /\ \A f \in DOMAIN Zero : atClose[f] <= stats[f]
  /\ S.reporting => reporter # "none"
  /\ AllExporters
  /\ \A p \in Procs : AtLinked(p) => writer = p
  /\ metricsStop /\ ~exporterClosed /\ ~crashed => \E p \in Procs : Closer(p)
  /\ Ending => metricsStop
  /\ Ending => \A i \in DOMAIN exporters, f \in DOMAIN Zero : Given(i, f) \/ Pending(i, f)

\* what follows a step of Close
LEMMA AfterLinked ==
  ASSUME NEW T, NEW s \in Seq(T), s # <<>>, Linked(s)
  PROVE  /\ Tail(s) # <<>> /\ Tail(s)[1].step \in Linking => s[1].step = Prev[Tail(s)[1].step]
         /\ s[1].step \in {"stop", "wait"} => Tail(s) # <<>> /\ Tail(s)[1].step = Nxt[s[1].step]
<1>1. /\ Tail(s) \in Seq(T) /\ Len(s) \in Nat \ {0} /\ Len(Tail(s)) = Len(s) - 1
      /\ \A i \in 1..Len(Tail(s)) : Tail(s)[i] = s[i + 1]
  BY HeadTail
<1>2. ASSUME Tail(s) # <<>>, Tail(s)[1].step \in Linking
      PROVE  s[1].step = Prev[Tail(s)[1].step]
  <2>1. 1 \in 1..Len(Tail(s))
    BY <1>1, <1>2, EmptySeq
  <2>2. 2 \in 2..Len(s) /\ Tail(s)[1] = s[2]
    BY <1>1, <2>1
  <2>3. s[2].step \in Linking => s[2 - 1].step = Prev[s[2].step]
    BY <2>2 DEF Linked
  <2>4. QED BY <1>2, <2>2, <2>3
<1>3. ASSUME s[1].step \in {"stop", "wait"}
      PROVE  Tail(s) # <<>> /\ Tail(s)[1].step = Nxt[s[1].step]
  <2>1. 1 \in 1..Len(s)
    BY <1>1
  <2>2. 1 < Len(s) /\ s[1 + 1].step = Nxt[s[1].step]
    BY <1>3, <2>1 DEF Linked
  <2>3. 1 \in 1..Len(Tail(s)) /\ Tail(s)[1] = s[2]
    BY <1>1, <2>2
  <2>4. Tail(s) # <<>>
    <3>1. Len(Tail(s)) # 0
      BY <1>1, <2>2
    <3>2. \A t : t = <<>> => Len(t) = 0
      OBVIOUS
    <3>3. QED BY <3>1, <3>2
  <2>5. QED BY <2>2, <2>3, <2>4
<1>4. QED BY <1>2, <1>3

\* what a step does to what a Close has seen and done
Touched ==
  /\ scenario' = scenario
  /\ exporterClosed => exporterClosed'
  /\ \/ atClose' = atClose
     \/ ~exporterClosed /\ atClose' = stats /\ \E p \in Procs : LockStep(p) /\ At(p, "locked")
     \/ \E p \in Procs : ResetStat(p)
  /\ \/ metricsStop' = metricsStop
     \/ metricsStop' = TRUE /\ \E p \in Procs : At(p, "stop") /\ Continue(p, <<>>)

LEMMA Touches ==
  ASSUME IInv, [Next]_vars
  PROVE  Touched
<1>1. UNCHANGED <<scenario, closing, atClose>> => Touched
  BY DEF Touched, closing
<1>2. ASSUME NEW p \in Procs, LockStep(p)
      PROVE  Touched
  <2>1. UNCHANGED <<scenario, closing>>
    BY <1>2 DEF LockStep
  <2>2. atClose' = atClose \/ (At(p, "locked") /\ ~exporterClosed /\ atClose' = stats)
    BY <1>2 DEF LockStep, Lock, Unlock
  <2>3. QED BY <1>2, <2>1, <2>2 DEF Touched, closing
<1>3. ASSUME NEW p \in Procs, Stop(p)
      PROVE  Touched
  <2>1. /\ At(p, "stop") /\ UNCHANGED <<scenario, exporterClosed, atClose>>
        /\ metricsStop' = (metricsStop \/ S.reporting)
        /\ (S.reporting /\ metricsStop) \/ Continue(p, <<>>)
    BY <1>3 DEF Stop, ExportStep, history
  <2>2. metricsStop \in BOOLEAN /\ S.reporting \in BOOLEAN
    BY HeldFacts, ScenarioFacts
  <2>3. QED BY <2>1, <2>2 DEF Touched
<1>4. ASSUME NEW p \in Procs, CloseExporter(p) \/ CloseStore(p)
      PROVE  Touched
  BY <1>4 DEF CloseExporter, CloseStore, ExportStep, history, Touched
<1>5. SUFFICES Touched
  OBVIOUS
<1> HIDE DEF Touched
<1>6. ASSUME NEW p \in Procs, Step(p)
      PROVE  Touched
  <2>1. CASE HookLogs(p) \/ HookCounts(p) \/ HookCalls(p) \/ HookPanics(p)
    BY <1>1, <2>1 DEF HookLogs, HookCounts, HookCalls, HookPanics, HookStep
  <2>2. CASE \/ Find(p) \/ Peek(p) \/ Add1(p) \/ Remove1(p) \/ Collect(p) \/ Purge(p) \/ ListKeys(p)
             \/ NotifyEvicted(p) \/ NotifyInvalidated(p) \/ CountKeys(p) \/ DebugKeys(p)
    BY <1>1, <2>2 DEF Find, Peek, Add1, Remove1, Collect, Purge, ListKeys, NotifyEvicted,
                      NotifyInvalidated, CountKeys, DebugKeys, StoreStep, history
  <2>3. CASE ExportStat(p) \/ RecordOperation(p) \/ Wait(p) \/ ReadStat(p)
    BY <1>1, <2>3 DEF ExportStat, RecordOperation, Wait, ReadStat, ExportStep, history
  <2>4. CASE ResetStat(p)
    BY <2>4 DEF ResetStat, closing, Touched
  <2>5. QED BY <1>2, <1>3, <1>4, <1>6, <2>1, <2>2, <2>3, <2>4 DEF Step
<1>7. CASE ReporterStop \/ ReporterTick
  BY <1>1, <1>7 DEF ReporterStop, ReporterTick, history
<1>8. CASE ReporterDone
  BY <1>8 DEF ReporterDone, ExportStep, history, Touched
<1>9. CASE \/ \E c \in Callers, k \in Keys, op \in S.ops : Call(c, op, k)
           \/ DebugRequest \/ JanitorTick \/ \E k \in Keys : Expire(k)
  BY <1>1, <1>9 DEF Call, DebugRequest, JanitorTick, Launch, Expire, history
<1>10. CASE UNCHANGED vars
  BY <1>1, <1>10 DEF vars, history
<1>11. QED BY <1>6, <1>7, <1>8, <1>9, <1>10 DEF Next

LEMMA CountsGrow ==
  ASSUME IInv, [Next]_vars, \A p \in Procs : ~ResetStat(p)
  PROVE  StatsGrow
<1>1. CASE \E p \in Procs : ReadStat(p)
  BY <1>1, HeldFacts DEF ReadStat, counts, StatsGrow, Zero
<1>2. QED BY <1>1, ReadsNothing

LEMMA ResetLowers ==
  ASSUME IInv, LastInv, NEW p \in Procs, ResetStat(p)
  PROVE  /\ atClose' \in [DOMAIN Zero -> Nat]
         /\ \A f \in DOMAIN Zero : atClose'[f] <= atClose[f] /\ atClose'[f] <= stats'[f]
<1> DEFINE g == It(p).field
<1>1. /\ atClose \in [DOMAIN Zero -> Nat] /\ stats \in [DOMAIN Zero -> Nat]
      /\ \A f \in DOMAIN Zero : atClose[f] <= stats[f]
  BY HeldFacts DEF LastInv
<1>2. CASE g = "keyCount"
  <2>1. atClose' = atClose /\ stats' = stats
    BY <1>2 DEF ResetStat
  <2>2. QED BY <1>1, <2>1
<1>3. CASE g # "keyCount"
  <2>1. atClose' = [atClose EXCEPT ![g] = 0] /\ stats' = [stats EXCEPT ![g] = 0]
    BY <1>3 DEF ResetStat
  <2> HIDE DEF g
  <2>2. \A f \in DOMAIN Zero : \/ atClose'[f] = atClose[f] /\ stats'[f] = stats[f]
                               \/ atClose'[f] = 0 /\ stats'[f] = 0
    BY <1>1, <2>1
  <2>3. atClose' \in [DOMAIN Zero -> Nat]
    BY <1>1, <2>1
  <2>4. QED BY <1>1, <2>2, <2>3
<1>4. QED BY <1>2, <1>3

\* the steps of Close are under the lock it took
LEMMA OwnerKept ==
  ASSUME IInv, [Next]_vars, \A p \in Procs : AtLinked(p) => writer = p
  PROVE  \A p \in Procs : AtLinked(p)' => writer' = p
<1>1. SUFFICES ASSUME NEW q \in Procs, todo'[q] # <<>>, todo'[q][1].step \in Linking
               PROVE  writer' = q
  BY DEF AtLinked
<1>2. Same(q) /\ AtLinked(q) => writer = q
  OBVIOUS
<1>3. Same(q) => AtLinked(q)
  BY <1>1 DEF Same, AtLinked
<1>4. CASE Shape
  <2>1. writer' = writer
    BY <1>4 DEF Shape, locks
  <2>2. CASE Begins(q) \/ Unwinds(q)
    <3>1. Opens(todo'[q])
      BY <2>2, UnwindsFacts DEF Begins
    <3>2. QED BY <1>1, <3>1 DEF Opens
  <2>3. ASSUME NEW steps, Ahead(q, steps)
        PROVE  AtLinked(q)
    <3> DEFINE s == todo[q]
    <3>1. s # <<>> /\ Sound(steps) /\ todo'[q] = steps \o Tail(s) /\ It(q).step \notin Locking
      BY <2>3 DEF Ahead
    <3>2. s \in Seq(StepsOf(q)) /\ Linked(s) /\ It(q) = s[1]
      BY <3>1, HeadFacts DEF IInv, TodoInv, OrderedAt
    <3> HIDE DEF s
    <3>3. Tail(s) \in Seq(StepsOf(q)) /\ steps \in Seq(CallSteps)
      BY <3>1, <3>2, HeadTail DEF Sound, Whole
    <3>4. CASE steps # <<>>
      <4>1. steps \in Seq(CallSteps \union StepsOf(q)) /\ Tail(s) \in Seq(CallSteps \union StepsOf(q))
        BY <3>3, SeqMonotonic
      <4>2. 1 \in 1..Len(steps)
        BY <3>3, <3>4, EmptySeq, LenProperties
      <4>3. todo'[q][1] = steps[1]
        BY <3>1, <4>1, <4>2, Places2
      <4>4. QED BY <1>1, <3>1, <3>4, <4>3 DEF Sound, Opens
    <3>5. CASE steps = <<>>
      <4>1. todo'[q] = Tail(s)
        BY <3>1, <3>3, <3>5, ConcatEmptySeq
      <4>2. s[1].step = Prev[Tail(s)[1].step] /\ Tail(s)[1].step \in Linking
        BY <1>1, <3>1, <3>2, <4>1, AfterLinked
      <4>3. \A x \in Linking : Prev[x] \in Linking \union Locking
        BY DEF Linking, Prev, Locking
      <4>4. s[1].step \in Linking
        BY <3>1, <3>2, <4>2, <4>3
      <4>5. QED BY <3>1, <4>4 DEF AtLinked, s
    <3>6. QED BY <3>4, <3>5
  <2>4. AtLinked(q) => writer = q
    OBVIOUS
  <2>5. QED BY <1>3, <1>4, <2>1, <2>2, <2>3, <2>4 DEF Shape
<1>5. CASE Crash
  BY <1>1, <1>5 DEF Crash
<1>6. ASSUME NEW p \in Procs, LockStep(p)
      PROVE  Shape \/ writer' = q
  <2> DEFINE x == It(p).step
  <2>1. todo[p] # <<>> /\ It(p) = todo[p][1] /\ Continue(p, <<>>)
    BY <1>6, HeadFacts DEF LockStep, Lock, Unlock, At
  <2>2. CASE x = "locked"
    BY <1>6, <2>2, LockedIs
  <2>3. CASE x # "locked"
    <3>1. x \in Locking \union Unlocking
      BY <1>6, <2>1, <2>3 DEF LockStep, Lock, Unlock, At, Locking, Unlocking
    <3>2. \/ x = "lock" /\ writer = Nobody /\ writer' = p
          \/ x = "unlock" /\ writer = p
          \/ x # "lock" /\ writer' = writer
      BY <1>6, <2>1, <2>3, UnlocksAre DEF LockStep, Lock, Unlock, At, UnlocksHeld
    <3>3. CASE q # p
      <4>1. todo'[q] = todo[q]
        BY <2>1, <3>3 DEF Continue, IInv, TodoInv
      <4>2. AtLinked(q)
        BY <1>1, <4>1 DEF AtLinked
      <4>3. writer = q /\ q # Nobody
        BY <4>2, ProcsApart
      <4>4. QED BY <3>2, <3>3, <4>3
    <3>4. CASE q = p
      <4> DEFINE s == todo[p]
      <4>1. s \in Seq(StepsOf(p)) /\ Linked(s) /\ todo \in [Procs -> Seq(AllSteps)]
        BY <2>1, HeadFacts DEF IInv, TodoInv, OrderedAt
      <4>2. todo'[p] = <<>> \o Tail(s)
        BY <2>1, <4>1 DEF Continue
      <4> HIDE DEF s
      <4>3. Tail(s) \in Seq(StepsOf(p))
        BY <2>1, <4>1, HeadTail DEF s
      <4>4. todo'[p] = Tail(s)
        BY <4>2, <4>3, ConcatEmptySeq
      <4>5. s[1].step = Prev[Tail(s)[1].step] /\ Tail(s)[1].step \in Linking
        BY <1>1, <2>1, <3>4, <4>1, <4>4, AfterLinked DEF s
      <4>6. \A y \in Linking : Prev[y] \in {"lock", "locked", "stop", "wait"}
        BY DEF Linking, Prev
      <4>7. x = "lock"
        BY <2>1, <3>1, <4>5, <4>6 DEF Locking, Unlocking, s
      <4>8. QED BY <3>2, <3>4, <4>7
    <3>5. QED BY <3>3, <3>4
  <2>4. QED BY <2>2, <2>3
<1>7. QED BY <1>4, <1>5, <1>6, NextIs DEF Stepped

\* a Close that has told the reporter to stop goes on to close the exporter
LEMMA CloserKept ==
  ASSUME IInv, LastInv, [Next]_vars, metricsStop', ~exporterClosed', ~crashed'
  PROVE  \E p \in Procs : Closer(p)'
<1>1. Touched /\ ~exporterClosed
  BY Touches DEF Touched
<1>2. todo \in [Procs -> Seq(AllSteps)]
  BY DEF IInv, TodoInv
\* one step further
<1>3. ASSUME NEW p \in Procs, todo[p] # <<>>, It(p).step \in {"stop", "wait"},
             todo'[p] = <<>> \o Tail(todo[p])
      PROVE  Closer(p)'
  <2> DEFINE s == todo[p]
  <2>1. s \in Seq(StepsOf(p)) /\ Linked(s) /\ It(p) = s[1]
    BY <1>3, HeadFacts DEF IInv, TodoInv, OrderedAt
  <2>2. todo'[p] = <<>> \o Tail(s) /\ s # <<>> /\ s[1].step \in {"stop", "wait"}
    BY <1>3, <2>1
  <2> HIDE DEF s
  <2>3. Tail(s) \in Seq(StepsOf(p))
    BY <2>1, <2>2, HeadTail
  <2>4. todo'[p] = Tail(s)
    BY <2>2, <2>3, ConcatEmptySeq
  <2>5. Tail(s) # <<>> /\ Tail(s)[1].step = Nxt[s[1].step]
    BY <2>1, <2>2, AfterLinked
  <2>6. Nxt[s[1].step] \in {"wait", "closeExporter"}
    BY <2>2 DEF Nxt
  <2>7. QED BY <2>4, <2>5, <2>6 DEF Closer
<1>4. CASE ~metricsStop
  <2>1. PICK p \in Procs : At(p, "stop") /\ Continue(p, <<>>)
    BY <1>1, <1>4 DEF Touched
  <2>2. todo[p] # <<>> /\ It(p).step = "stop"
    BY <2>1, AtFacts
  <2>3. todo'[p] = <<>> \o Tail(todo[p])
    BY <1>2, <2>1 DEF Continue
  <2>4. QED BY <1>3, <2>2, <2>3
<1>5. CASE metricsStop
  <2>1. ~crashed
    <3>1. CASE Shape
      BY <3>1 DEF Shape
    <3>2. CASE Crash
      BY <3>2 DEF Crash
    <3>3. ASSUME NEW p \in Procs, LockStep(p)
          PROVE  ~crashed
      BY <3>3 DEF LockStep, fate
    <3>4. QED BY <3>1, <3>2, <3>3, NextIs DEF Stepped
  <2>2. PICK q \in Procs : Closer(q)
    BY <1>1, <1>5, <2>1 DEF LastInv
  <2>3. todo[q] # <<>> /\ It(q) = todo[q][1] /\ It(q).step \in {"wait", "closeExporter"}
    BY <2>2, HeadFacts DEF Closer
  <2>4. CASE Shape
    <3>1. CASE Same(q)
      BY <2>2, <3>1 DEF Same, Closer
    <3>2. ~Begins(q) /\ ~Unwinds(q)
      BY <2>3 DEF Begins, Unwinds
    <3>3. ASSUME NEW steps, Ahead(q, steps)
          PROVE  Closer(q)'
      <4>1. It(q).step # "closeExporter"
        BY <3>3 DEF Ahead
      <4>2. steps = <<>> /\ todo'[q] = steps \o Tail(todo[q])
        BY <2>3, <3>3, <4>1 DEF Ahead
      <4>3. QED BY <1>3, <2>3, <4>1, <4>2
    <3>4. QED BY <2>4, <3>1, <3>2, <3>3 DEF Shape
  <2>5. CASE Crash
    BY <2>5 DEF Crash
  <2>6. ASSUME NEW p \in Procs, LockStep(p)
        PROVE  Closer(q)'
    <3>1. todo[p] # <<>> /\ It(p) = todo[p][1] /\ Continue(p, <<>>)
          /\ It(p).step \notin {"wait", "closeExporter"}
      BY <2>6, HeadFacts DEF LockStep, Lock, Unlock, At
    <3>2. p # q
      BY <2>3, <3>1
    <3>3. todo'[q] = todo[q]
      BY <1>2, <3>1, <3>2 DEF Continue
    <3>4. QED BY <2>2, <3>3 DEF Closer
  <2>7. QED BY <2>4, <2>5, <2>6, NextIs DEF Stepped
<1>6. QED BY <1>4, <1>5

\* how the reporter moves
LEMMA ReporterMoves ==
  ASSUME IInv, [Next]_vars
  PROVE  \/ todo'[Reporter] = todo[Reporter] /\ reporter' = reporter
         \/ todo'[Reporter] = <<>> /\ reporter' = reporter
         \/ todo'[Reporter] = ExportPlan /\ reporter' = "running"
         \/ todo'[Reporter] = ExportPlan \o Do("reporterDone") /\ metricsStop
         \/ /\ todo[Reporter] # <<>> /\ todo'[Reporter] = Tail(todo[Reporter])
            /\ todo[Reporter][1].step = "export" => ExportStat(Reporter)
            /\ \/ reporter' = reporter
               \/ reporter' = "done" /\ todo[Reporter][1].step = "reporterDone"
<1>1. Reporter \in Procs /\ Reporter \notin Callers
  BY ProcsApart DEF Procs
<1>2. CASE Shape
  <2>1. \/ reporter' = reporter
        \/ reporter' = "done" /\ todo'[Reporter] = <<>> /\ todo[Reporter] # <<>>
           /\ todo[Reporter][1].step = "reporterDone"
    BY <1>2 DEF Shape, At
  <2>2. CASE Same(Reporter)
    BY <2>1, <2>2 DEF Same
  <2>3. CASE Begins(Reporter)
    BY <2>3 DEF Begins
  <2>4. ASSUME NEW steps, Ahead(Reporter, steps)
        PROVE  /\ todo[Reporter] # <<>> /\ todo'[Reporter] = Tail(todo[Reporter])
               /\ todo[Reporter][1].step = "export" => ExportStat(Reporter)
    <3>1. todo'[Reporter] = Tail(todo[Reporter])
      BY <1>1, <2>4, AheadFacts
    <3>2. todo[Reporter] # <<>> /\ (It(Reporter).step = "export" => ExportStat(Reporter))
      BY <2>4 DEF Ahead
    <3>3. QED BY <1>1, <3>1, <3>2, HeadFacts
  <2>5. ~Unwinds(Reporter)
    BY <1>1 DEF Unwinds
  <2>6. QED BY <1>1, <1>2, <2>1, <2>2, <2>3, <2>4, <2>5 DEF Shape
<1>3. CASE Crash
  BY <1>1, <1>3 DEF Crash
<1>4. ASSUME NEW p \in Procs, LockStep(p)
      PROVE  todo'[Reporter] = todo[Reporter] /\ reporter' = reporter
  <2>1. todo[p] # <<>> /\ It(p) = todo[p][1] /\ Continue(p, <<>>)
        /\ It(p).step \notin {"export", "reporterDone"}
    BY <1>4, HeadFacts DEF LockStep, Lock, Unlock, At
  <2>2. p # Reporter
    BY <2>1, HeadFacts
  <2>3. todo'[Reporter] = todo[Reporter]
    BY <1>1, <2>1, <2>2 DEF Continue, IInv, TodoInv
  <2>4. QED BY <1>4, <2>3 DEF LockStep, closing
<1>5. QED BY <1>2, <1>3, <1>4, NextIs DEF Stepped

\* the reporter begins its last export when it has been told to stop
LEMMA EndingKept ==
  ASSUME IInv, LastInv, [Next]_vars, Ending'
  PROVE  metricsStop' /\ (Ending \/ todo'[Reporter] = ExportPlan \o Do("reporterDone"))
<1> DEFINE s == todo[Reporter]
           t == todo'[Reporter]
<1>1. metricsStop => metricsStop'
  BY Touches DEF Touched
<1>2. s \in Seq(StepsOf(Reporter))
  BY DEF IInv, TodoInv, Procs
<1>3. reporter' = "done" \/ \E j \in 1..Len(t) : t[j].step = "reporterDone"
  BY DEF Ending
<1>4. CASE t = s /\ reporter' = reporter
  <2>1. Ending
    BY <1>3, <1>4 DEF Ending
  <2>2. QED BY <1>1, <2>1 DEF LastInv
<1>5. CASE t = <<>> /\ reporter' = reporter
  <2>1. Ending
    <3>1. \A j \in 1..Len(<<>>) : FALSE
      OBVIOUS
    <3>2. QED BY <1>3, <1>5, <3>1 DEF Ending
  <2>2. QED BY <1>1, <2>1 DEF LastInv
<1>6. CASE t = ExportPlan /\ reporter' = "running"
  <2>1. ExportPlan \in Seq(ExportOnly)
    BY ExportPlanType
  <2>2. \A j \in 1..Len(ExportPlan) : ExportPlan[j].step = "export"
    BY <2>1, ElementOfSeq DEF ExportOnly
  <2>3. QED BY <1>3, <1>6, <2>2
<1>7. CASE t = ExportPlan \o Do("reporterDone") /\ metricsStop
  BY <1>1, <1>7
<1>8. CASE /\ s # <<>> /\ t = Tail(s)
           /\ reporter' = reporter \/ (reporter' = "done" /\ s[1].step = "reporterDone")
  <2>1. /\ Len(s) \in Nat \ {0} /\ Len(Tail(s)) = Len(s) - 1
        /\ \A i \in 1..Len(Tail(s)) : Tail(s)[i] = s[i + 1]
    BY <1>2, <1>8, HeadTail
  <2> HIDE DEF s, t
  <2>2. reporter = "done" \/ \E j \in 1..Len(s) : s[j].step = "reporterDone"
    <3>1. CASE reporter' = "done"
      <4>1. 1 \in 1..Len(s)
        BY <2>1
      <4>2. QED BY <1>8, <3>1, <4>1
    <3>2. CASE \E j \in 1..Len(t) : t[j].step = "reporterDone"
      <4>1. PICK j \in 1..Len(Tail(s)) : Tail(s)[j].step = "reporterDone"
        BY <1>8, <3>2
      <4>2. j + 1 \in 1..Len(s)
        BY <2>1
      <4>3. QED BY <2>1, <4>1, <4>2
    <3>3. QED BY <1>3, <3>1, <3>2
  <2>3. Ending
    BY <2>2 DEF Ending, s
  <2>4. QED BY <1>1, <2>3 DEF LastInv
<1>9. QED BY <1>4, <1>5, <1>6, <1>7, <1>8, ReporterMoves

\* what a Close found stays, once it has told the reporter to stop, but for what
\* is wiped
LEMMA FoundKept ==
  ASSUME IInv, LastInv, [Next]_vars, Ending'
  PROVE  \A f \in DOMAIN Zero : atClose'[f] \in Nat /\ atClose'[f] <= atClose[f]
<1>0. (\E p \in Procs : ResetStat(p)) \/ atClose' = atClose =>
        \A f \in DOMAIN Zero : atClose'[f] \in Nat /\ atClose'[f] <= atClose[f]
  BY ResetLowers DEF LastInv
<1>1. SUFFICES ASSUME atClose' # atClose, \A p \in Procs : ~ResetStat(p) PROVE FALSE
  BY <1>0
<1>2. PICK p \in Procs : ~exporterClosed /\ LockStep(p) /\ At(p, "locked")
  BY <1>1, Touches DEF Touched
<1>3. todo[p] # <<>> /\ It(p) = todo[p][1] /\ todo[p][1].step = "locked" /\ ~crashed
  BY <1>2, AtFacts, HeadFacts
<1>4. metricsStop
  <2>1. UNCHANGED metricsStop
    BY <1>2 DEF LockStep, closing
  <2>2. QED BY <2>1, EndingKept
<1>5. PICK q \in Procs : Closer(q)
  BY <1>2, <1>3, <1>4 DEF LastInv
<1>6. AtLinked(p) /\ AtLinked(q)
  BY <1>3, <1>5 DEF AtLinked, Closer, Linking
<1>7. p = q
  BY <1>6 DEF LastInv
<1>8. QED BY <1>3, <1>5, <1>7 DEF Closer

LEMMA GivenKept ==
  ASSUME IInv, LastInv, [Next]_vars, NEW i \in DOMAIN exporters, NEW f \in DOMAIN Zero,
         atClose'[f] \in Nat, atClose'[f] <= atClose[f]
  PROVE  /\ Given(i, f)' <=> atClose'[f] <= Exported(exporters'[i], f)
         /\ Given(i, f) => Given(i, f)'
<1>1. Given(i, f)' <=> atClose'[f] <= Exported(exporters'[i], f)
  <2>1. (atClose[f] <= Exported(exporters[i], f))' <=> Given(i, f)'
    BY DEF Given
  <2>2. Exported(exporters[i], f)' = Exported(exporters'[i], f)
    BY DEF Exported, FoldFunctionOnSet, MapThenFoldSet
  <2>3. QED BY <2>1, <2>2
<1>2. Grows(exporters[i], exporters'[i]) /\ IsExporter(exporters[i])
  BY ExportersGrow DEF LastInv, AllExporters
<1>3. Exported(exporters[i], f) <= Exported(exporters'[i], f) /\ Exported(exporters[i], f) \in Nat
      /\ Exported(exporters'[i], f) \in Nat /\ atClose[f] \in Nat
  BY <1>2, ExportedIs DEF Grows, LastInv
<1>4. Given(i, f) => atClose[f] <= Exported(exporters[i], f)
  BY DEF Given
<1>5. QED BY <1>1, <1>3, <1>4

\* what is left to give is given before it is taken off the plan
LEMMA CompleteKept ==
  ASSUME IInv, LastInv, [Next]_vars, Ending', NEW i \in DOMAIN exporters, NEW f \in DOMAIN Zero
  PROVE  (Given(i, f) \/ Pending(i, f))'
<1> DEFINE s == todo[Reporter]
           t == todo'[Reporter]
<1>1. atClose'[f] \in Nat /\ atClose'[f] <= atClose[f]
  BY FoundKept
<1>2. Given(i, f) => Given(i, f)'
  BY <1>1, GivenKept
<1>3. Pending(i, f)' <=> \E j \in 1..Len(t) : t[j] = ExportOf(i, f)
  BY DEF Pending, ExportOf
<1>4. Reporter \in Procs /\ s \in Seq(StepsOf(Reporter))
  BY DEF IInv, TodoInv, Procs
<1>5. CASE t = ExportPlan \o Do("reporterDone")
  <2>1. PICK k \in 1..Len(ExportPlan) : ExportPlan[k] = ExportOf(i, f)
    BY PlanHas
  <2>2. /\ ExportPlan \in Seq(ExportSteps) /\ Do("reporterDone") \in Seq(ExportSteps)
    <3>1. ExportPlan \in Seq(ExportSteps)
      BY ExportPlanType, SeqMonotonic DEF ExportOnly
    <3>2. [step |-> "reporterDone"] \in ExportSteps
      BY DEF ExportSteps
    <3>3. QED BY <3>1, <3>2 DEF Do
  <2> DEFINE plan == ExportPlan
             last == Do("reporterDone")
  <2>3. t = plan \o last /\ plan \in Seq(ExportSteps) /\ last \in Seq(ExportSteps)
        /\ k \in 1..Len(plan) /\ plan[k] = ExportOf(i, f)
    BY <1>5, <2>1, <2>2
  <2> HIDE DEF plan, last, t
  <2>4. /\ Len(plan) \in Nat /\ Len(last) \in Nat /\ Len(t) = Len(plan) + Len(last)
        /\ t[k] = plan[k]
    BY <2>3, Places2
  <2>5. k \in 1..Len(t)
    BY <2>3, <2>4
  <2>6. QED BY <1>3, <2>3, <2>4, <2>5
<1>6. CASE t # ExportPlan \o Do("reporterDone")
  <2>1. Ending /\ (Given(i, f) \/ Pending(i, f))
    BY <1>6, EndingKept DEF LastInv
  <2>2. SUFFICES ASSUME Pending(i, f) PROVE Given(i, f)' \/ Pending(i, f)'
    BY <1>2, <2>1
  <2>3. s # <<>> /\ reporter = "running"
    <3>1. \A j \in 1..Len(<<>>) : FALSE
      OBVIOUS
    <3>2. s # <<>>
      BY <2>2, <3>1 DEF Pending
    <3>3. QED BY <3>2 DEF IInv, CloseInv
  <2>4. CASE t = s
    BY <1>3, <2>2, <2>4 DEF Pending
  <2>5. CASE t = <<>> /\ reporter' = reporter
    <3>1. \A j \in 1..Len(<<>>) : FALSE
      OBVIOUS
    <3>2. QED BY <2>3, <2>5, <3>1 DEF Ending
  <2>6. CASE t = ExportPlan /\ reporter' = "running"
    <3>1. ExportPlan \in Seq(ExportOnly)
      BY ExportPlanType
    <3>2. \A j \in 1..Len(ExportPlan) : ExportPlan[j].step = "export"
      BY <3>1, ElementOfSeq DEF ExportOnly
    <3>3. QED BY <2>6, <3>2 DEF Ending
  <2>7. CASE t = Tail(s) /\ (s[1].step = "export" => ExportStat(Reporter))
    <3>1. PICK j \in 1..Len(s) : s[j] = ExportOf(i, f)
      BY <2>2 DEF Pending
    <3>2. CASE j = 1
      <4>1. s[1] = [step |-> "export", i |-> i, name |-> f]
        BY <3>1, <3>2 DEF ExportOf
      <4>2. s[1].step = "export"
        BY <4>1
      <4>3. ExportStat(Reporter)
        BY <2>7, <4>2
      <4>4. stats[f] <= Exported(exporters'[i], f)
        BY <1>4, <4>1, <4>3, ExportAdds DEF LastInv
      <4>5. atClose[f] <= stats[f] /\ atClose[f] \in Nat /\ stats[f] \in Nat
        BY HeldFacts DEF LastInv
      <4>6. Exported(exporters'[i], f) \in Nat
        BY ExportersGrow, ExportedIs DEF LastInv, Grows
      <4>7. atClose'[f] <= Exported(exporters'[i], f)
        BY <1>1, <4>4, <4>5, <4>6
      <4>8. QED BY <1>1, <4>7, GivenKept
    <3>3. CASE j # 1
      <4> HIDE DEF s, t
      <4>1. /\ Len(s) \in Nat \ {0} /\ Len(Tail(s)) = Len(s) - 1
            /\ \A k \in 1..Len(Tail(s)) : Tail(s)[k] = s[k + 1]
        BY <1>4, <2>3, HeadTail
      <4>2. j - 1 \in 1..Len(Tail(s)) /\ (j - 1) + 1 = j
        BY <3>1, <3>3, <4>1
      <4>3. Tail(s)[j - 1] = ExportOf(i, f)
        BY <3>1, <4>1, <4>2
      <4>4. QED BY <1>3, <2>7, <4>2, <4>3
    <3>4. QED BY <3>2, <3>3
  <2>8. QED BY <1>6, <2>4, <2>5, <2>6, <2>7, ReporterMoves
<1>7. QED BY <1>5, <1>6

LEMMA LastInductive ==
  ASSUME IInv, LastInv, [Next]_vars
  PROVE  LastInv'
<1>1. DOMAIN exporters' = DOMAIN exporters
      /\ \A i \in DOMAIN exporters : Grows(exporters[i], exporters'[i])
  BY ExportersGrow DEF LastInv
<1>2. AllExporters'
  <2>1. \A i \in DOMAIN exporters' : IsExporter(exporters'[i])
    BY <1>1 DEF Grows
  <2>2. QED BY <2>1 DEF AllExporters, IsExporter
<1>3. atClose' \in [DOMAIN Zero -> Nat] /\ \A f \in DOMAIN Zero : atClose'[f] <= stats'[f]
  <2>1. stats \in [DOMAIN Zero -> Nat] /\ IInv'
    BY HeldFacts, Inductive
  <2>2. stats' \in [DOMAIN Zero -> Nat]
    BY <2>1 DEF IInv, StateInv, TypeOK, Zero
  <2>3. CASE atClose' = atClose /\ \A p \in Procs : ~ResetStat(p)
    <3>1. ASSUME NEW f \in DOMAIN Zero
          PROVE  atClose[f] <= stats'[f]
      <4>1. atClose[f] <= stats[f] /\ stats[f] <= stats'[f]
        BY <2>3, CountsGrow DEF LastInv, StatsGrow
      <4>2. atClose[f] \in Nat /\ stats[f] \in Nat /\ stats'[f] \in Nat
        BY <2>1, <2>2 DEF LastInv
      <4>3. QED BY <4>1, <4>2
    <3>2. QED BY <2>3, <3>1 DEF LastInv
  <2>4. CASE atClose' = stats /\ \A p \in Procs : ~ResetStat(p)
    BY <2>1, <2>4, CountsGrow DEF StatsGrow
  <2>5. CASE \E p \in Procs : ResetStat(p)
    BY <2>5, ResetLowers
  <2>6. QED BY <2>3, <2>4, <2>5, Touches DEF Touched
<1>4. (S.reporting => reporter # "none")'
  <2>1. S' = S
    BY Touches DEF Touched, S
  <2>2. reporter' = reporter \/ reporter' = "done"
    <3>1. ASSUME NEW p \in Procs, LockStep(p)
          PROVE  reporter' = reporter
      BY <3>1 DEF LockStep, closing
    <3>2. QED BY <3>1, NextIs DEF Stepped, Shape, Crash
  <2>3. QED BY <2>1, <2>2 DEF LastInv
<1>5. \A p \in Procs : AtLinked(p)' => writer' = p
  BY OwnerKept DEF LastInv
<1>6. metricsStop' /\ ~exporterClosed' /\ ~crashed' => \E p \in Procs : Closer(p)'
  BY CloserKept
<1>7. Ending' => metricsStop'
  BY EndingKept
<1>8. Ending' => \A i \in DOMAIN exporters', f \in DOMAIN Zero : (Given(i, f) \/ Pending(i, f))'
  BY <1>1, CompleteKept
<1>9. QED
  <2>1. DOMAIN Zero' = DOMAIN Zero
    BY DEF Zero
  <2>2. QED BY <1>2, <1>3, <1>4, <1>5, <1>6, <1>7, <1>8, <2>1 DEF LastInv

LEMMA LastInitially == ASSUME Init PROVE LastInv
<1>1. IInv
  BY Initially
<1>2. \A p \in Procs : todo[p] = <<>>
  BY DEF Init
<1>3. Reporter \in Procs
  BY DEF Procs
<1>4. ~Ending
  <2>1. \A j \in 1..Len(<<>>) : FALSE
    OBVIOUS
  <2>2. QED BY <1>2, <1>3, <2>1 DEF Init, Ending
<1>5. AllExporters
  <2>1. SUFFICES ASSUME NEW i \in DOMAIN exporters PROVE IsExporter(exporters[i])
    BY DEF AllExporters
  <2>2. exporters[i] \in Range(S.exporters)
    BY DEF Init, Range
  <2>3. PICK kind, config : exporters[i] = New(kind, config)
    BY <2>2, ScenariosKnown DEF Init, S
  <2>4. IsFiniteSet({})
    BY FS_EmptySet
  <2>5. QED BY <2>3, <2>4 DEF New, IsExporter
<1>6. atClose \in [DOMAIN Zero -> Nat] /\ \A f \in DOMAIN Zero : atClose[f] <= stats[f]
  BY DEF Init, Zero
<1>7. S.reporting => reporter # "none"
  BY DEF Init
<1>8. ~metricsStop /\ \A p \in Procs : ~AtLinked(p)
  BY <1>2 DEF Init, AtLinked
<1>9. QED BY <1>4, <1>5, <1>6, <1>7, <1>8 DEF LastInv

-----------------------------------------------------------------------------
(* What of A a sequence has: nothing, or one thing, and then before what it *)
(* has of B.                                                                *)

None(s, A) == \A i \in 1..Len(s) : s[i] \notin A
Sole(s, A) == \E i \in 1..Len(s) : s[i] \in A /\ \A j \in 1..Len(s) : j # i => s[j] \notin A
InOrder(s, A, B) == \A i, j \in 1..Len(s) : s[i] \in A /\ s[j] \in B => i < j

LEMMA EitherPart ==
  ASSUME NEW T, NEW s \in Seq(T), NEW t \in Seq(T), NEW u, u = s \o t
  PROVE  \A n \in 1..Len(u) : \/ n \in 1..Len(s) /\ u[n] = s[n]
                              \/ n - Len(s) \in 1..Len(t) /\ u[n] = t[n - Len(s)]
BY Places2

LEMMA ConcatParts ==
  ASSUME NEW T, NEW s \in Seq(T), NEW t \in Seq(T), NEW A, NEW B
  PROVE  /\ None(s, A) /\ None(t, A) => None(s \o t, A)
         /\ Sole(s, A) /\ None(t, A) => Sole(s \o t, A)
         /\ None(s, A) /\ Sole(t, A) => Sole(s \o t, A)
         /\ InOrder(s, A, B) /\ InOrder(t, A, B) /\ (None(s, B) \/ None(t, A)) =>
              InOrder(s \o t, A, B)
<1> DEFINE u == s \o t
<1>1. /\ Len(s) \in Nat /\ Len(t) \in Nat /\ Len(u) = Len(s) + Len(t)
      /\ \A i \in 1..Len(s) : u[i] = s[i]
      /\ \A i \in 1..Len(t) : u[i + Len(s)] = t[i]
      /\ \A j \in 1..Len(u) : j \in 1..Len(s) \/ (j - Len(s) \in 1..Len(t)
                                                 /\ u[j] = t[j - Len(s)])
  BY Places2
<1> HIDE DEF u
<1>2. None(s, A) /\ None(t, A) => None(u, A)
  BY <1>1 DEF None
<1>3. ASSUME Sole(s, A), None(t, A)
      PROVE  Sole(u, A)
  <2>1. PICK i \in 1..Len(s) : s[i] \in A /\ \A j \in 1..Len(s) : j # i => s[j] \notin A
    BY <1>3 DEF Sole
  <2>2. i \in 1..Len(u) /\ u[i] \in A
    BY <1>1, <2>1
  <2>3. \A j \in 1..Len(u) : j # i => u[j] \notin A
    BY <1>1, <1>3, <2>1 DEF None
  <2>4. QED BY <2>2, <2>3 DEF Sole
<1>4. ASSUME None(s, A), Sole(t, A)
      PROVE  Sole(u, A)
  <2>1. PICK i \in 1..Len(t) : t[i] \in A /\ \A j \in 1..Len(t) : j # i => t[j] \notin A
    BY <1>4 DEF Sole
  <2>2. i + Len(s) \in 1..Len(u) /\ u[i + Len(s)] \in A
    BY <1>1, <2>1
  <2>3. ASSUME NEW j \in 1..Len(u), j # i + Len(s)
        PROVE  u[j] \notin A
    <3>1. CASE j \in 1..Len(s)
      BY <1>1, <1>4, <3>1 DEF None
    <3>2. CASE j \notin 1..Len(s)
      <4>1. j - Len(s) \in 1..Len(t) /\ u[j] = t[j - Len(s)] /\ j - Len(s) # i
        BY <1>1, <2>3, <3>2
      <4>2. QED BY <2>1, <4>1
    <3>3. QED BY <3>1, <3>2
  <2>4. QED BY <2>2, <2>3 DEF Sole
<1>5. ASSUME InOrder(s, A, B), InOrder(t, A, B), None(s, B) \/ None(t, A)
      PROVE  InOrder(u, A, B)
  <2>1. SUFFICES ASSUME NEW i \in 1..Len(u), NEW j \in 1..Len(u), u[i] \in A, u[j] \in B
                 PROVE  i < j
    BY DEF InOrder
  <2>2. CASE i \in 1..Len(s) /\ j \in 1..Len(s)
    BY <1>1, <1>5, <2>1, <2>2 DEF InOrder
  <2>3. CASE i \in 1..Len(s) /\ j \notin 1..Len(s)
    BY <1>1, <2>3
  <2>4. CASE i \notin 1..Len(s) /\ j \in 1..Len(s)
    <3>1. i - Len(s) \in 1..Len(t) /\ t[i - Len(s)] \in A /\ s[j] \in B
      BY <1>1, <2>1, <2>4
    <3>2. QED BY <1>5, <2>4, <3>1 DEF None
  <2>5. CASE i \notin 1..Len(s) /\ j \notin 1..Len(s)
    <3>1. /\ i - Len(s) \in 1..Len(t) /\ t[i - Len(s)] \in A
          /\ j - Len(s) \in 1..Len(t) /\ t[j - Len(s)] \in B
      BY <1>1, <2>1, <2>5
    <3>2. i - Len(s) < j - Len(s)
      BY <1>5, <3>1 DEF InOrder
    <3>3. QED BY <1>1, <3>2
  <2>6. QED BY <2>2, <2>3, <2>4, <2>5
<1>6. QED BY <1>2, <1>3, <1>4, <1>5 DEF u

\* and what it has when it is flattened
NoneIn(s, n, A) == \A i \in 1..n : None(s[i], A)
SoleIn(s, n, A) == \E i \in 1..n : Sole(s[i], A) /\ \A j \in 1..n : j # i => None(s[j], A)
OrderIn(s, n, A, B) ==
  /\ \A i \in 1..n : InOrder(s[i], A, B)
  /\ \A i, j \in 1..n : i < j => None(s[i], B) \/ None(s[j], A)

\* the n-th beginning
LEMMA FlatNext ==
  ASSUME NEW T, NEW s \in Seq(Seq(T)), NEW f, Flat(s, Len(s), f), NEW n \in Nat, n + 1 \in 1..Len(s)
  PROVE  /\ s[n + 1] \in Seq(T) /\ f[n + 1] = IF n = 0 THEN s[n + 1] ELSE f[n] \o s[n + 1]
         /\ n # 0 => n \in 1..Len(s) /\ f[n] \in Seq(T)
<1>1. s[n + 1] \in Seq(T) /\ Len(s) \in Nat
  BY ElementOfSeq, LenProperties
<1>2. f[n + 1] = IF n + 1 = 1 THEN s[n + 1] ELSE f[(n + 1) - 1] \o s[n + 1]
  BY Zenon DEF Flat
<1>3. (n + 1) - 1 = n /\ (n + 1 = 1 <=> n = 0)
  OBVIOUS
<1>4. n # 0 => n \in 1..Len(s)
  BY <1>1
<1>5. n # 0 => f[n] \in Seq(T)
  BY <1>4, FlatType
<1>6. QED BY <1>1, <1>2, <1>3, <1>4, <1>5

LEMMA FlatParts ==
  ASSUME NEW T, NEW s \in Seq(Seq(T)), NEW f, Flat(s, Len(s), f), NEW A
  PROVE  \A n \in 1..Len(s) : /\ NoneIn(s, n, A) => None(f[n], A)
                              /\ SoleIn(s, n, A) => Sole(f[n], A)
<1> DEFINE P(n) == /\ NoneIn(s, n, A) => None(f[n], A)
                   /\ SoleIn(s, n, A) => Sole(f[n], A)
           N == {n \in Nat : n \in 1..Len(s) => P(n)}
<1> HIDE DEF P
<1>1. 0 \in N
  OBVIOUS
<1>2. ASSUME NEW n \in N
      PROVE  n + 1 \in N
  <2>1. SUFFICES ASSUME n + 1 \in 1..Len(s)
                 PROVE  P(n + 1)
    OBVIOUS
  <2>0. n \in Nat
    OBVIOUS
  <2>2. /\ n \in Nat /\ s[n + 1] \in Seq(T)
        /\ f[n + 1] = IF n = 0 THEN s[n + 1] ELSE f[n] \o s[n + 1]
        /\ n # 0 => n \in 1..Len(s) /\ f[n] \in Seq(T)
    <3> HIDE DEF N
    <3>1. QED BY <2>0, <2>1, FlatNext
  <2>3. n # 0 => /\ NoneIn(s, n, A) => None(f[n], A)
                 /\ SoleIn(s, n, A) => Sole(f[n], A)
    <3>1. n # 0 => n \in 1..Len(s)
      BY <2>2
    <3>2. n # 0 => P(n)
      BY <3>1
    <3>3. QED BY <3>2 DEF P
  <2> HIDE DEF N
  <2>4. NoneIn(s, n + 1, A) => NoneIn(s, n, A) /\ None(s[n + 1], A)
    BY <2>2 DEF NoneIn
  <2>5. SoleIn(s, n + 1, A) => \/ NoneIn(s, n, A) /\ Sole(s[n + 1], A)
                               \/ SoleIn(s, n, A) /\ None(s[n + 1], A) /\ n # 0
    <3>1. SUFFICES ASSUME NEW i \in 1..(n + 1), Sole(s[i], A),
                          \A j \in 1..(n + 1) : j # i => None(s[j], A)
                   PROVE  \/ NoneIn(s, n, A) /\ Sole(s[n + 1], A)
                          \/ SoleIn(s, n, A) /\ None(s[n + 1], A) /\ n # 0
      BY DEF SoleIn
    <3>2. CASE i = n + 1
      BY <2>2, <3>1, <3>2 DEF NoneIn
    <3>3. CASE i # n + 1
      <4>1. i \in 1..n /\ n # 0 /\ n + 1 \in 1..(n + 1)
        BY <2>2, <3>3
      <4>2. \A j \in 1..n : j # i => None(s[j], A)
        BY <2>2, <3>1
      <4>3. None(s[n + 1], A)
        BY <3>1, <3>3, <4>1
      <4>4. QED BY <3>1, <4>1, <4>2, <4>3 DEF SoleIn
    <3>4. QED BY <3>2, <3>3
  <2>6. CASE n = 0
    BY <2>2, <2>4, <2>5, <2>6 DEF P
  <2>7. CASE n # 0
    <3>1. f[n] \in Seq(T) /\ f[n + 1] = f[n] \o s[n + 1]
      BY <2>2, <2>7
    <3>2. QED BY <2>2, <2>3, <2>4, <2>5, <2>7, <3>1, ConcatParts DEF P
  <2>8. QED BY <2>6, <2>7
<1>3. N = Nat
  <2> HIDE DEF N
  <2>1. N \in SUBSET Nat
    BY DEF N
  <2>2. QED BY <1>1, <1>2, <2>1, Induction
<1>4. ASSUME NEW n \in 1..Len(s)
      PROVE  n \in N
  <2> HIDE DEF N
  <2>1. QED BY <1>3, LenProperties
<1>5. QED BY <1>4 DEF P

LEMMA FlatInOrder ==
  ASSUME NEW T, NEW s \in Seq(Seq(T)), NEW f, Flat(s, Len(s), f), NEW A, NEW B
  PROVE  \A n \in 1..Len(s) : OrderIn(s, n, A, B) => InOrder(f[n], A, B)
<1> DEFINE N == {n \in Nat : n \in 1..Len(s) => (OrderIn(s, n, A, B) => InOrder(f[n], A, B))}
<1>1. 0 \in N
  OBVIOUS
<1>2. ASSUME NEW n \in N
      PROVE  n + 1 \in N
  <2>1. SUFFICES ASSUME n + 1 \in 1..Len(s), OrderIn(s, n + 1, A, B)
                 PROVE  InOrder(f[n + 1], A, B)
    OBVIOUS
  <2>0. n \in Nat
    OBVIOUS
  <2>2. /\ n \in Nat /\ s[n + 1] \in Seq(T)
        /\ f[n + 1] = IF n = 0 THEN s[n + 1] ELSE f[n] \o s[n + 1]
        /\ n # 0 => n \in 1..Len(s) /\ f[n] \in Seq(T)
    <3> HIDE DEF N
    <3>1. QED BY <2>0, <2>1, FlatNext
  <2>3. OrderIn(s, n, A, B) /\ InOrder(s[n + 1], A, B)
        /\ \A i \in 1..n : None(s[i], B) \/ None(s[n + 1], A)
    <3>1. \A i \in 1..n : i \in 1..(n + 1) /\ i < n + 1
      BY <2>2
    <3>2. n + 1 \in 1..(n + 1)
      BY <2>2
    <3>3. QED BY <2>1, <3>1, <3>2 DEF OrderIn
  <2>4. n # 0 => InOrder(f[n], A, B)
    <3>1. n # 0 => n \in 1..Len(s)
      BY <2>2
    <3>2. QED BY <2>3, <3>1
  <2> HIDE DEF N
  <2>5. CASE n = 0
    BY <2>2, <2>3, <2>5
  <2>6. CASE n # 0
    <3>1. f[n] \in Seq(T) /\ f[n + 1] = f[n] \o s[n + 1] /\ n \in 1..Len(s)
      BY <2>2, <2>6
    <3>2. None(f[n], B) \/ None(s[n + 1], A)
      <4>1. NoneIn(s, n, B) \/ None(s[n + 1], A)
        BY <2>3 DEF NoneIn
      <4>2. NoneIn(s, n, B) => None(f[n], B)
        BY <3>1, FlatParts
      <4>3. QED BY <4>1, <4>2
    <3>3. QED BY <2>2, <2>3, <2>4, <2>6, <3>1, <3>2, ConcatParts
  <2>7. QED BY <2>5, <2>6
<1>3. N = Nat
  <2> HIDE DEF N
  <2>1. N \in SUBSET Nat
    BY DEF N
  <2>2. QED BY <1>1, <1>2, <2>1, Induction
<1>4. ASSUME NEW n \in 1..Len(s)
      PROVE  n \in N
  <2> HIDE DEF N
  <2>1. QED BY <1>3, LenProperties
<1>5. QED BY <1>4

LEMMA FlattenParts ==
  ASSUME NEW T, NEW s \in Seq(Seq(T)), NEW A, NEW B
  PROVE  /\ NoneIn(s, Len(s), A) => None(FlattenSeq(s), A)
         /\ SoleIn(s, Len(s), A) => Sole(FlattenSeq(s), A)
         /\ OrderIn(s, Len(s), A, B) => InOrder(FlattenSeq(s), A, B)
<1>1. Len(s) \in Nat
  BY LenProperties
<1>2. CASE Len(s) = 0
  <2>1. s = <<>>
    BY <1>2, EmptySeq
  <2>2. FlattenSeq(s) = <<>>
    BY <1>2, <2>1 DEF FlattenSeq
  <2>3. None(<<>>, A) /\ InOrder(<<>>, A, B) /\ ~SoleIn(s, 0, A)
    BY DEF None, InOrder, SoleIn
  <2>4. QED BY <1>2, <2>2, <2>3
<1>3. CASE Len(s) # 0
  <2>1. PICK f : Flat(s, Len(s), f) /\ FlattenSeq(s) = f[Len(s)]
    BY <1>1, <1>3, FlattenIs
  <2>2. Len(s) \in 1..Len(s)
    BY <1>1, <1>3
  <2>3. QED BY <2>1, <2>2, FlatParts, FlatInOrder
<1>4. QED BY <1>2, <1>3

-----------------------------------------------------------------------------
(* What the hooks of an event do of A.                                     *)

Busy(F, A) == {hook \in HooksDoing(F) : ~Idle(hook, A)}

LEMMA HookIs ==
  ASSUME NEW F, NEW hook \in HooksDoing(F), hook # NilHook
  PROVE  /\ hook \in Seq([on : SUBSET Occasions, do : F])
         /\ Len(hook) \in Nat /\ DOMAIN hook = 1..Len(hook)
         /\ \A i \in DOMAIN hook : hook[i].do \in F
<1>1. hook \in Seq([on : SUBSET Occasions, do : F])
  BY DEF HooksDoing
<1>2. /\ Len(hook) \in Nat /\ DOMAIN hook = 1..Len(hook)
      /\ hook \in [1..Len(hook) -> [on : SUBSET Occasions, do : F]]
  BY <1>1, LenProperties
<1>3. QED BY <1>1, <1>2

LEMMA EffectsParts ==
  ASSUME NEW F, NEW hook \in HooksDoing(F), NEW A, NEW o
  PROVE  /\ Idle(hook, A) => None(Effects(hook, o), A)
         /\ Once(hook, A) /\ (\E k \in Keys : o = FromCache(k)) => Sole(Effects(hook, o), A)
<1>1. CASE hook = NilHook
  <2>1. Effects(hook, o) = <<>> /\ ~Once(hook, A)
    BY <1>1 DEF Effects, Once
  <2>2. QED BY <2>1 DEF None
<1>2. CASE hook # NilHook
  <2> DEFINE p == [i \in DOMAIN hook |-> IF o \in hook[i].on THEN <<hook[i].do>> ELSE <<>>]
  <2>1. /\ Len(hook) \in Nat /\ DOMAIN hook = 1..Len(hook)
        /\ \A i \in DOMAIN hook : hook[i].do \in F
    BY <1>2, HookIs
  <2>2. Effects(hook, o) = FlattenSeq(p)
    BY <1>2 DEF Effects
  <2>3. p \in [1..Len(hook) -> Seq(F)]
    BY <2>1
  <2>4. \A i \in 1..Len(hook) : /\ hook[i].do \notin A => None(p[i], A)
                                /\ hook[i].do \in A /\ o \in hook[i].on => Sole(p[i], A)
    <3>1. SUFFICES ASSUME NEW i \in 1..Len(hook)
                   PROVE  /\ hook[i].do \notin A => None(p[i], A)
                          /\ hook[i].do \in A /\ o \in hook[i].on => Sole(p[i], A)
      OBVIOUS
    <3>2. p[i] = IF o \in hook[i].on THEN <<hook[i].do>> ELSE <<>>
      BY <2>1
    <3>3. QED BY <3>2 DEF None, Sole
  <2> HIDE DEF p
  <2>5. p \in Seq(Seq(F)) /\ Len(p) = Len(hook)
    BY <2>1, <2>3, IndexedIsSeq
  <2>6. Idle(hook, A) => NoneIn(p, Len(p), A)
    BY <1>2, <2>1, <2>4, <2>5 DEF Idle, NoneIn
  <2>7. ASSUME Once(hook, A), NEW k \in Keys, o = FromCache(k)
        PROVE  SoleIn(p, Len(p), A)
    <3>1. PICK i \in DOMAIN hook : /\ hook[i].do \in A /\ FromCache(k) \in hook[i].on
                                   /\ \A j \in DOMAIN hook \ {i} : hook[j].do \notin A
      BY <2>7 DEF Once
    <3>2. Sole(p[i], A) /\ \A j \in 1..Len(p) : j # i => None(p[j], A)
      BY <2>1, <2>4, <2>5, <2>7, <3>1
    <3>3. QED BY <2>1, <2>5, <3>2 DEF SoleIn
  <2>8. QED BY <2>2, <2>5, <2>6, <2>7, FlattenParts
<1>3. QED BY <1>1, <1>2

LEMMA EffectsOfAllParts ==
  ASSUME NEW F, NEW hooks \in Seq(HooksDoing(F)), NEW A, NEW B, NEW k \in Keys
  PROVE  LET o == FromCache(k) IN
         /\ None(hooks, Busy(F, A)) => None(EffectsOfAll(hooks, o), A)
         /\ Sole(hooks, Busy(F, A)) /\ (\A i \in 1..Len(hooks) : hooks[i] \in Busy(F, A) => Once(hooks[i], A)) =>
              Sole(EffectsOfAll(hooks, o), A)
         /\ InOrder(hooks, Busy(F, A), Busy(F, B)) => InOrder(EffectsOfAll(hooks, o), A, B)
<1> DEFINE o == FromCache(k)
           p == [i \in DOMAIN hooks |-> Effects(hooks[i], o)]
<1>1. Len(hooks) \in Nat /\ DOMAIN hooks = 1..Len(hooks) /\ \A i \in 1..Len(hooks) : hooks[i] \in HooksDoing(F)
  BY LenProperties
<1>2. p \in [1..Len(hooks) -> Seq(F)] /\ \A i \in 1..Len(hooks) : p[i] = Effects(hooks[i], o)
  BY <1>1, EffectsType
<1>3. EffectsOfAll(hooks, o) = FlattenSeq(p)
  BY DEF EffectsOfAll
<1> HIDE DEF p
<1>4. p \in Seq(Seq(F)) /\ Len(p) = Len(hooks)
  BY <1>1, <1>2, IndexedIsSeq
<1>5. ASSUME NEW C, NEW i \in 1..Len(hooks)
      PROVE  /\ hooks[i] \notin Busy(F, C) => None(p[i], C)
             /\ Once(hooks[i], C) => Sole(p[i], C)
  <2>1. p[i] = Effects(hooks[i], o) /\ hooks[i] \in HooksDoing(F)
    BY <1>1, <1>2
  <2>2. hooks[i] \notin Busy(F, C) => Idle(hooks[i], C)
    BY <2>1 DEF Busy
  <2>3. \E n \in Keys : o = FromCache(n)
    OBVIOUS
  <2> HIDE DEF o
  <2>4. QED BY <2>1, <2>2, <2>3, EffectsParts
<1> HIDE DEF o
<1>6. None(hooks, Busy(F, A)) => NoneIn(p, Len(p), A)
  BY <1>4, <1>5 DEF None, NoneIn
<1>7. ASSUME Sole(hooks, Busy(F, A)),
             \A i \in 1..Len(hooks) : hooks[i] \in Busy(F, A) => Once(hooks[i], A)
      PROVE  SoleIn(p, Len(p), A)
  <2>1. PICK i \in 1..Len(hooks) : /\ hooks[i] \in Busy(F, A)
                                   /\ \A j \in 1..Len(hooks) : j # i => hooks[j] \notin Busy(F, A)
    BY <1>7 DEF Sole
  <2>2. Sole(p[i], A) /\ \A j \in 1..Len(hooks) : j # i => None(p[j], A)
    BY <1>5, <1>7, <2>1
  <2>3. QED BY <1>4, <2>2 DEF SoleIn
<1>8. ASSUME InOrder(hooks, Busy(F, A), Busy(F, B))
      PROVE  OrderIn(p, Len(p), A, B)
  <2>1. \A i, j \in 1..Len(hooks) : ~(i < j) => hooks[i] \notin Busy(F, A) \/ hooks[j] \notin Busy(F, B)
    BY <1>8 DEF InOrder
  <2>2. \A i, j \in 1..Len(hooks) : ~(i < j) => None(p[i], A) \/ None(p[j], B)
    BY <1>5, <2>1
  <2>3. \A i \in 1..Len(hooks) : InOrder(p[i], A, B)
    <3>1. \A i \in 1..Len(hooks) : None(p[i], A) \/ None(p[i], B)
      BY <1>1, <2>2
    <3>2. QED BY <3>1 DEF None, InOrder
  <2>4. \A i, j \in 1..Len(hooks) : i < j => None(p[i], B) \/ None(p[j], A)
    <3>1. \A i, j \in 1..Len(hooks) : i < j => ~(j < i)
      BY <1>1
    <3>2. QED BY <2>2, <3>1
  <2>5. QED BY <1>4, <2>3, <2>4 DEF OrderIn
<1>9. QED BY <1>3, <1>4, <1>6, <1>7, <1>8, FlattenParts DEF o

LEMMA ByPriorityParts ==
  ASSUME NEW F, NEW s \in Seq([hook : HooksDoing(F), priority : Int]), NEW p \in ByPriority(s),
         NEW A, NEW B
  PROVE  /\ (\A j \in DOMAIN s : Idle(s[j].hook, A)) => None(p, Busy(F, A))
         /\ \A i \in DOMAIN s :
              (\A j \in DOMAIN s \ {i} : Idle(s[j].hook, A)) =>
                /\ \A n \in 1..Len(p) : p[n] \in Busy(F, A) => p[n] = s[i].hook
                /\ ~Idle(s[i].hook, A) => Sole(p, Busy(F, A))
                /\ \A m \in DOMAIN s :
                     (\A j \in DOMAIN s \ {m} : Idle(s[j].hook, B)) /\ s[i].priority > s[m].priority =>
                        InOrder(p, Busy(F, A), Busy(F, B))
<1>1. PICK f \in Bijection(DOMAIN s, DOMAIN s) :
        /\ p = [i \in DOMAIN s |-> s[f[i]].hook]
        /\ \A i, j \in DOMAIN s : i < j => s[f[i]].priority >= s[f[j]].priority
  BY DEF ByPriority
<1>2. /\ f \in [DOMAIN s -> DOMAIN s]
      /\ \A a, b \in DOMAIN s : f[a] = f[b] => a = b
      /\ \A j \in DOMAIN s : \E i \in DOMAIN s : f[i] = j
  BY DEF Bijection, Injection, Surjection, IsInjective
<1>3. /\ Len(s) \in Nat /\ DOMAIN s = 1..Len(s)
      /\ \A j \in DOMAIN s : s[j].hook \in HooksDoing(F) /\ s[j].priority \in Int
  <2>1. /\ Len(s) \in Nat /\ DOMAIN s = 1..Len(s)
        /\ s \in [1..Len(s) -> [hook : HooksDoing(F), priority : Int]]
    BY LenProperties
  <2>2. QED BY <2>1
<1>4. Len(p) = Len(s) /\ \A n \in 1..Len(s) : p[n] = s[f[n]].hook
  <2>1. p \in [1..Len(s) -> HooksDoing(F)]
    BY <1>1, <1>2, <1>3
  <2>2. Len(p) = Len(s)
    BY <1>3, <2>1, IndexedIsSeq
  <2>3. QED BY <1>1, <1>3, <2>2
<1>5. ASSUME NEW C, NEW i, \A j \in DOMAIN s \ {i} : Idle(s[j].hook, C)
      PROVE  \A n \in 1..Len(p) : p[n] \in Busy(F, C) => f[n] = i
  BY <1>2, <1>3, <1>4, <1>5 DEF Busy
<1>6. ASSUME \A j \in DOMAIN s : Idle(s[j].hook, A)
      PROVE  None(p, Busy(F, A))
  BY <1>2, <1>3, <1>4, <1>6 DEF Busy, None
<1>7. ASSUME NEW i \in DOMAIN s, \A j \in DOMAIN s \ {i} : Idle(s[j].hook, A)
      PROVE  /\ \A n \in 1..Len(p) : p[n] \in Busy(F, A) => p[n] = s[i].hook
             /\ ~Idle(s[i].hook, A) => Sole(p, Busy(F, A))
             /\ \A m \in DOMAIN s :
                  (\A j \in DOMAIN s \ {m} : Idle(s[j].hook, B)) /\ s[i].priority > s[m].priority =>
                     InOrder(p, Busy(F, A), Busy(F, B))
  <2>1. \A n \in 1..Len(p) : p[n] \in Busy(F, A) => f[n] = i
    BY <1>5, <1>7
  <2>2. \A n \in 1..Len(p) : p[n] \in Busy(F, A) => p[n] = s[i].hook
    BY <1>4, <2>1
  <2>3. ASSUME ~Idle(s[i].hook, A)
        PROVE  Sole(p, Busy(F, A))
    <3>1. PICK n \in DOMAIN s : f[n] = i
      BY <1>2
    <3>2. n \in 1..Len(p) /\ p[n] \in Busy(F, A)
      BY <1>3, <1>4, <2>3, <3>1 DEF Busy
    <3>3. \A j \in 1..Len(p) : j # n => p[j] \notin Busy(F, A)
      BY <1>2, <1>3, <1>4, <2>1, <3>1
    <3>4. QED BY <3>2, <3>3 DEF Sole
  <2>4. ASSUME NEW m \in DOMAIN s, \A j \in DOMAIN s \ {m} : Idle(s[j].hook, B),
               s[i].priority > s[m].priority
        PROVE  InOrder(p, Busy(F, A), Busy(F, B))
    <3>1. SUFFICES ASSUME NEW a \in 1..Len(p), NEW b \in 1..Len(p), p[a] \in Busy(F, A), p[b] \in Busy(F, B)
                   PROVE  a < b
      BY DEF InOrder
    <3>2. f[a] = i /\ f[b] = m
      BY <1>5, <2>1, <2>4, <3>1
    <3>3. s[i].priority \in Int /\ s[m].priority \in Int
      BY <1>3
    <3>4. a # b
      BY <2>4, <3>2, <3>3
    <3>5. ~(b < a)
      <4>1. a \in DOMAIN s /\ b \in DOMAIN s
        BY <1>3, <1>4
      <4>2. b < a => s[m].priority >= s[i].priority
        BY <1>1, <3>2, <4>1
      <4>3. QED BY <2>4, <3>3, <4>2
    <3>6. a \in Nat /\ b \in Nat
      BY <1>3, <1>4
    <3>7. QED BY <3>4, <3>5, <3>6
  <2>5. QED BY <2>2, <2>3, <2>4
<1>8. QED BY <1>6, <1>7

LEMMA MetParts ==
  ASSUME NEW F, NEW s \in Seq([hook : HooksDoing(F), cond : {NilCond} \union SUBSET Occasions]),
         NEW o, NEW A, \A j \in DOMAIN s : Idle(s[j].hook, A)
  PROVE  None(Met(s, o), Busy(F, A))
<1> DEFINE p == [i \in DOMAIN s |->
                   IF s[i].cond # NilCond /\ o \in s[i].cond THEN <<s[i].hook>> ELSE <<>>]
<1>1. Len(s) \in Nat /\ DOMAIN s = 1..Len(s) /\ \A i \in DOMAIN s : s[i].hook \in HooksDoing(F)
  <2>1. /\ Len(s) \in Nat /\ DOMAIN s = 1..Len(s)
        /\ s \in [1..Len(s) -> [hook : HooksDoing(F), cond : {NilCond} \union SUBSET Occasions]]
    BY LenProperties
  <2>2. QED BY <2>1
<1>2. p \in [1..Len(s) -> Seq(HooksDoing(F))]
  BY <1>1
<1>3. \A i \in 1..Len(s) : None(p[i], Busy(F, A))
  <2>1. SUFFICES ASSUME NEW i \in 1..Len(s) PROVE None(p[i], Busy(F, A))
    OBVIOUS
  <2>2. p[i] = <<s[i].hook>> \/ p[i] = <<>>
    BY <1>1
  <2>3. s[i].hook \notin Busy(F, A)
    BY <1>1 DEF Busy
  <2> HIDE DEF p
  <2>4. \A x : x \notin Busy(F, A) => None(<<x>>, Busy(F, A)) /\ None(<<>>, Busy(F, A))
    BY DEF None
  <2>5. QED BY <2>2, <2>3, <2>4
<1>4. Met(s, o) = FlattenSeq(p)
  BY DEF Met
<1> HIDE DEF p
<1>5. p \in Seq(Seq(HooksDoing(F))) /\ Len(p) = Len(s)
  BY <1>1, <1>2, IndexedIsSeq
<1>6. QED BY <1>3, <1>4, <1>5, FlattenParts DEF NoneIn

LEMMA InvokeParts ==
  ASSUME NEW F, NEW h \in HooksOf(F), NEW e \in Events, NEW k \in Keys,
         NEW atoms \in Invoke(h, e, FromCache(k)), NEW A, NEW B
  PROVE  /\ IdleBut(h[e], 0, A) => None(atoms, A)
         /\ \A i : Does(h[e], i, A) => Sole(atoms, A)
         /\ \A i, j : /\ Does(h[e], i, A) /\ Does(h[e], j, B)
                      /\ h[e].ctxPriority[i].priority > h[e].ctxPriority[j].priority
                      => InOrder(atoms, A, B)
<1> DEFINE l == h[e]
           o == FromCache(k)
           H == HooksDoing(F)
<1>1. /\ l.plain \in Seq(H) /\ l.ctx \in Seq(H)
      /\ l.priority \in Seq([hook : H, priority : Int])
      /\ l.ctxPriority \in Seq([hook : H, priority : Int])
      /\ l.conditional \in Seq([hook : H, cond : {NilCond} \union SUBSET Occasions])
  BY DEF HooksOf
<1>2. PICK p \in ByPriority(l.priority), cp \in ByPriority(l.ctxPriority) :
        atoms = EffectsOfAll(l.plain \o l.ctx \o p \o cp \o Met(l.conditional, o), o)
  BY DEF Invoke
<1> HIDE DEF l
<1> DEFINE a == l.plain \o l.ctx
           b == a \o p
           c == b \o cp
           m == Met(l.conditional, o)
           d == c \o m
<1>3. p \in Seq(H) /\ cp \in Seq(H) /\ m \in Seq(H)
  BY <1>1, ByPriorityType, MetType
<1> HIDE DEF H, m
<1>4. a \in Seq(H) /\ b \in Seq(H) /\ c \in Seq(H) /\ d \in Seq(H)
  BY <1>1, <1>3, ConcatProperties
<1>5. atoms = EffectsOfAll(d, o)
  BY <1>2 DEF m
<1>10. b = a \o p /\ c = b \o cp /\ d = c \o m
  OBVIOUS
<1>11. /\ \A n \in 1..Len(c) : \/ n \in 1..Len(b) /\ c[n] = b[n]
                               \/ n - Len(b) \in 1..Len(cp) /\ c[n] = cp[n - Len(b)]
       /\ \A n \in 1..Len(d) : \/ n \in 1..Len(c) /\ d[n] = c[n]
                               \/ n - Len(c) \in 1..Len(m) /\ d[n] = m[n - Len(c)]
  <2> HIDE DEF a, b, c, d
  <2>2. \A n \in 1..Len(c) : \/ n \in 1..Len(b) /\ c[n] = b[n]
                             \/ n - Len(b) \in 1..Len(cp) /\ c[n] = cp[n - Len(b)]
    <3>1. b \in Seq(H) /\ cp \in Seq(H) /\ c = b \o cp
      BY <1>3, <1>4, <1>10
    <3>2. QED BY <3>1, EitherPart
  <2>3. \A n \in 1..Len(d) : \/ n \in 1..Len(c) /\ d[n] = c[n]
                             \/ n - Len(c) \in 1..Len(m) /\ d[n] = m[n - Len(c)]
    <3>1. c \in Seq(H) /\ m \in Seq(H) /\ d = c \o m
      BY <1>3, <1>4, <1>10
    <3>2. QED BY <3>1, EitherPart
  <2>4. QED BY <2>2, <2>3
<1>6. ASSUME NEW C, NEW i, IdleBut(l, i, C)
      PROVE  None(b, Busy(F, C)) /\ None(m, Busy(F, C))
  <2>1. None(l.plain, Busy(F, C)) /\ None(l.ctx, Busy(F, C))
    BY <1>1, <1>6, LenProperties DEF IdleBut, None, Busy
  <2>2. None(p, Busy(F, C))
    BY <1>1, <1>6, ByPriorityParts DEF IdleBut, H
  <2>3. None(a, Busy(F, C))
    BY <1>1, <2>1, ConcatParts
  <2>4. None(b, Busy(F, C))
    BY <1>3, <1>4, <2>2, <2>3, ConcatParts
  <2>5. None(m, Busy(F, C))
    BY <1>1, <1>6, MetParts DEF IdleBut, H, m
  <2>6. QED BY <2>4, <2>5
<1>7. ASSUME IdleBut(l, 0, A)
      PROVE  None(atoms, A)
  <2>1. Len(l.ctxPriority) \in Nat /\ DOMAIN l.ctxPriority = 1..Len(l.ctxPriority)
    BY <1>1, LenProperties
  <2>2. \A j \in DOMAIN l.ctxPriority : Idle(l.ctxPriority[j].hook, A)
    BY <1>7, <2>1 DEF IdleBut
  <2>3. None(cp, Busy(F, A))
    BY <1>1, <2>2, ByPriorityParts DEF H
  <2>4. None(b, Busy(F, A)) /\ None(m, Busy(F, A))
    BY <1>6, <1>7
  <2>5. None(c, Busy(F, A))
    BY <1>3, <1>4, <2>3, <2>4, ConcatParts
  <2>6. None(d, Busy(F, A))
    BY <1>3, <1>4, <2>4, <2>5, ConcatParts
  <2> HIDE DEF d
  <2>7. QED BY <1>4, <1>5, <2>6, EffectsOfAllParts DEF H
<1>8. ASSUME NEW i, Does(l, i, A)
      PROVE  Sole(atoms, A)
  <2>1. i \in DOMAIN l.ctxPriority /\ Once(l.ctxPriority[i].hook, A) /\ IdleBut(l, i, A)
    BY <1>8 DEF Does
  <2>2. ~Idle(l.ctxPriority[i].hook, A)
    BY <2>1 DEF Once, Idle
  <2>3. \A j \in DOMAIN l.ctxPriority \ {i} : Idle(l.ctxPriority[j].hook, A)
    BY <2>1 DEF IdleBut
  <2>4. /\ Sole(cp, Busy(F, A))
        /\ \A n \in 1..Len(cp) : cp[n] \in Busy(F, A) => cp[n] = l.ctxPriority[i].hook
    <3> DEFINE s == l.ctxPriority
    <3>1. s \in Seq([hook : HooksDoing(F), priority : Int]) /\ cp \in ByPriority(s)
      BY <1>1 DEF H
    <3>2. i \in DOMAIN s /\ ~Idle(s[i].hook, A) /\ \A j \in DOMAIN s \ {i} : Idle(s[j].hook, A)
      BY <2>1, <2>2, <2>3
    <3> HIDE DEF s
    <3>3. /\ Sole(cp, Busy(F, A))
          /\ \A n \in 1..Len(cp) : cp[n] \in Busy(F, A) => cp[n] = s[i].hook
      <4>1. \A n \in DOMAIN s :
              (\A j \in DOMAIN s \ {n} : Idle(s[j].hook, A)) =>
                /\ \A x \in 1..Len(cp) : cp[x] \in Busy(F, A) => cp[x] = s[n].hook
                /\ ~Idle(s[n].hook, A) => Sole(cp, Busy(F, A))
                /\ \A m1 \in DOMAIN s :
                     (\A j \in DOMAIN s \ {m1} : Idle(s[j].hook, A)) /\ s[n].priority > s[m1].priority =>
                        InOrder(cp, Busy(F, A), Busy(F, A))
        BY <3>1, ByPriorityParts
      <4>2. QED BY <3>2, <4>1
    <3>4. QED BY <3>3 DEF s
  <2>5. None(b, Busy(F, A)) /\ None(m, Busy(F, A))
    BY <1>6, <2>1
  <2>6. Sole(c, Busy(F, A))
    BY <1>3, <1>4, <2>4, <2>5, ConcatParts
  <2>7. Sole(d, Busy(F, A))
    BY <1>3, <1>4, <2>5, <2>6, ConcatParts
  <2>8. \A n \in 1..Len(c) : c[n] \in Busy(F, A) => Once(c[n], A)
    <3>1. \A n \in 1..Len(c) : c[n] \in Busy(F, A) => \E j \in 1..Len(cp) : c[n] = cp[j]
      <4> HIDE DEF b, c, d
      <4>1. QED BY <1>11, <2>5 DEF None
    <3>2. QED BY <2>1, <2>4, <3>1
  <2>9. \A n \in 1..Len(d) : d[n] \in Busy(F, A) => Once(d[n], A)
    <3> HIDE DEF b, c, d
    <3>1. QED BY <1>11, <2>5, <2>8 DEF None
  <2> HIDE DEF d
  <2>10. QED BY <1>4, <1>5, <2>7, <2>9, EffectsOfAllParts DEF H
<1>9. ASSUME NEW i, NEW j, Does(l, i, A), Does(l, j, B),
             l.ctxPriority[i].priority > l.ctxPriority[j].priority
      PROVE  InOrder(atoms, A, B)
  <2>1. /\ i \in DOMAIN l.ctxPriority /\ IdleBut(l, i, A)
        /\ j \in DOMAIN l.ctxPriority /\ IdleBut(l, j, B)
    BY <1>9 DEF Does
  <2>2. /\ \A n \in DOMAIN l.ctxPriority \ {i} : Idle(l.ctxPriority[n].hook, A)
        /\ \A n \in DOMAIN l.ctxPriority \ {j} : Idle(l.ctxPriority[n].hook, B)
    BY <2>1 DEF IdleBut
  <2>3. InOrder(cp, Busy(F, A), Busy(F, B))
    BY <1>1, <1>9, <2>1, <2>2, ByPriorityParts DEF H
  <2>4. /\ None(b, Busy(F, A)) /\ None(m, Busy(F, A))
        /\ None(b, Busy(F, B)) /\ None(m, Busy(F, B))
    BY <1>6, <2>1
  <2>5. \A s : None(s, Busy(F, A)) => InOrder(s, Busy(F, A), Busy(F, B))
    BY DEF None, InOrder
  <2>6. InOrder(c, Busy(F, A), Busy(F, B))
    BY <1>3, <1>4, <2>3, <2>4, <2>5, ConcatParts
  <2>7. InOrder(d, Busy(F, A), Busy(F, B))
    BY <1>3, <1>4, <2>4, <2>5, <2>6, ConcatParts
  <2> HIDE DEF d
  <2>8. QED BY <1>4, <1>5, <2>7, EffectsOfAllParts DEF H
<1>12. QED BY <1>7, <1>8, <1>9 DEF l

-----------------------------------------------------------------------------
(* How many steps of A a sequence has from its n-th on.                     *)

TallyOf(s, n, A) == {i \in n..Len(s) : s[i] \in A}
Tally(s, n, A) == Cardinality(TallyOf(s, n, A))

\* from each place on, what is of C is no more than what is of L
Covers(s, L, C) == \A n \in Nat \ {0} : Tally(s, n, C) <= Tally(s, n, L)

LEMMA TallyType ==
  ASSUME NEW T, NEW s \in Seq(T), NEW A, NEW n \in Nat \ {0}
  PROVE  /\ IsFiniteSet(TallyOf(s, n, A)) /\ Tally(s, n, A) \in Nat
         /\ TallyOf(s, n, A) \in SUBSET (1..Len(s))
         /\ None(s, A) => Tally(s, n, A) = 0
         /\ n > Len(s) => Tally(s, n, A) = 0
<1>1. Len(s) \in Nat
  BY LenProperties
<1>2. TallyOf(s, n, A) \in SUBSET (1..Len(s)) /\ IsFiniteSet(1..Len(s))
  BY <1>1, FS_Interval DEF TallyOf
<1>3. IsFiniteSet(TallyOf(s, n, A)) /\ Tally(s, n, A) \in Nat
  BY <1>2, FS_Subset, FS_CardinalityType DEF Tally
<1>4. None(s, A) => TallyOf(s, n, A) = {}
  BY <1>1 DEF None, TallyOf
<1>5. n > Len(s) => TallyOf(s, n, A) = {}
  BY <1>1 DEF TallyOf
<1>6. QED BY <1>2, <1>3, <1>4, <1>5, FS_EmptySet DEF Tally

\* the same steps, moved
LEMMA TallyMoved ==
  ASSUME NEW T, NEW s \in Seq(T), NEW U, NEW t \in Seq(U), NEW A,
         NEW n \in Nat \ {0}, NEW m \in Nat \ {0}, NEW d \in Nat, m = n + d, Len(t) = Len(s) + d,
         \A i \in n..Len(s) : t[i + d] = s[i]
  PROVE  Tally(t, m, A) = Tally(s, n, A)
<1> DEFINE f == [i \in TallyOf(s, n, A) |-> i + d]
<1>1. Len(s) \in Nat /\ Len(t) \in Nat
  BY LenProperties
<1>2. f \in [TallyOf(s, n, A) -> TallyOf(t, m, A)]
      /\ \A a, b \in TallyOf(s, n, A) : f[a] = f[b] => a = b
  BY <1>1, SMTT(15) DEF TallyOf
<1>3. \A j \in TallyOf(t, m, A) : \E i \in TallyOf(s, n, A) : f[i] = j
  <2>1. SUFFICES ASSUME NEW j \in TallyOf(t, m, A)
                 PROVE  \E i \in TallyOf(s, n, A) : f[i] = j
    OBVIOUS
  <2>2. j - d \in n..Len(s) /\ (j - d) + d = j
    BY <1>1 DEF TallyOf
  <2>3. j - d \in TallyOf(s, n, A)
    BY <2>2 DEF TallyOf
  <2>4. f[j - d] = j
    BY <2>2, <2>3
  <2>5. QED BY <2>3, <2>4
<1>4. f \in Bijection(TallyOf(s, n, A), TallyOf(t, m, A))
  BY <1>2, <1>3 DEF Bijection, Injection, Surjection, IsInjective
<1>5. IsFiniteSet(TallyOf(s, n, A))
  BY TallyType
<1>6. QED BY <1>4, <1>5, FS_Bijection DEF ExistsBijection, Tally

LEMMA TallyConcat ==
  ASSUME NEW T, NEW s \in Seq(T), NEW t \in Seq(T), NEW A, NEW n \in Nat \ {0}
  PROVE  /\ n <= Len(s) => Tally(s \o t, n, A) = Tally(s, n, A) + Tally(t, 1, A)
         /\ n > Len(s) => Tally(s \o t, n, A) = Tally(t, n - Len(s), A)
<1> DEFINE u == s \o t
<1>1. /\ u \in Seq(T) /\ Len(s) \in Nat /\ Len(t) \in Nat /\ Len(u) = Len(s) + Len(t)
      /\ \A i \in 1..Len(s) : u[i] = s[i]
      /\ \A i \in 1..Len(t) : u[i + Len(s)] = t[i]
  BY Places2
<1> HIDE DEF u
<1>2. ASSUME n > Len(s)
      PROVE  Tally(u, n, A) = Tally(t, n - Len(s), A)
  <2>1. n - Len(s) \in Nat \ {0} /\ n = (n - Len(s)) + Len(s) /\ Len(u) = Len(t) + Len(s)
    BY <1>1, <1>2
  <2>2. \A i \in (n - Len(s))..Len(t) : u[i + Len(s)] = t[i]
    BY <1>1, <2>1
  <2>3. QED BY <1>1, <2>1, <2>2, TallyMoved
<1>3. ASSUME n <= Len(s)
      PROVE  Tally(u, n, A) = Tally(s, n, A) + Tally(t, 1, A)
  <2> DEFINE m == Len(s) + 1
  <2>1. Tally(u, m, A) = Tally(t, 1, A)
    <3> DEFINE d == Len(s)
               l == 1
    <3>1. m \in Nat \ {0} /\ l \in Nat \ {0} /\ d \in Nat /\ m = l + d /\ Len(u) = Len(t) + d
      BY <1>1
    <3>2. \A i \in l..Len(t) : u[i + d] = t[i]
      BY <1>1
    <3>3. u \in Seq(T)
      BY <1>1
    <3> HIDE DEF m, d, l
    <3>4. Tally(u, m, A) = Tally(t, l, A)
      BY <3>1, <3>2, <3>3, TallyMoved
    <3>5. QED BY <3>4 DEF l
  <2>2. TallyOf(u, n, A) = TallyOf(s, n, A) \union TallyOf(u, m, A)
    BY <1>1, <1>3 DEF TallyOf
  <2>3. TallyOf(s, n, A) \intersect TallyOf(u, m, A) = {}
    BY <1>1 DEF TallyOf
  <2>4. IsFiniteSet(TallyOf(s, n, A)) /\ IsFiniteSet(TallyOf(u, m, A))
        /\ Tally(s, n, A) \in Nat /\ Tally(u, m, A) \in Nat
    <3>1. m \in Nat \ {0}
      BY <1>1
    <3> HIDE DEF m
    <3>2. QED BY <1>1, <3>1, TallyType
  <2> HIDE DEF m
  <2>5. Cardinality(TallyOf(s, n, A) \union TallyOf(u, m, A))
          = Cardinality(TallyOf(s, n, A)) + Cardinality(TallyOf(u, m, A))
            - Cardinality(TallyOf(s, n, A) \intersect TallyOf(u, m, A))
    BY <2>4, FS_Union
  <2>6. Cardinality(TallyOf(s, n, A) \intersect TallyOf(u, m, A)) = 0
    BY <2>3, FS_EmptySet
  <2>7. Tally(u, n, A) = Tally(s, n, A) + Tally(u, m, A) - 0
    BY <2>2, <2>5, <2>6 DEF Tally
  <2>8. QED BY <2>1, <2>4, <2>7
<1>4. QED BY <1>2, <1>3 DEF u

LEMMA TallyTail ==
  ASSUME NEW T, NEW s \in Seq(T), s # <<>>, NEW A
  PROVE  /\ \A n \in Nat \ {0} : Tally(Tail(s), n, A) = Tally(s, n + 1, A)
         /\ s[1] \in A => Tally(s, 1, A) = Tally(Tail(s), 1, A) + 1
         /\ s[1] \notin A => Tally(s, 1, A) = Tally(Tail(s), 1, A)
         /\ Tally(s, 1, A) \in Nat /\ Tally(Tail(s), 1, A) \in Nat
<1>1. /\ Tail(s) \in Seq(T) /\ Len(s) \in Nat \ {0} /\ Len(Tail(s)) = Len(s) - 1
      /\ \A i \in 1..Len(Tail(s)) : Tail(s)[i] = s[i + 1]
  BY HeadTail
<1>2. ASSUME NEW n \in Nat \ {0}
      PROVE  Tally(Tail(s), n, A) = Tally(s, n + 1, A)
  <2>1. /\ n + 1 \in Nat \ {0} /\ 1 \in Nat /\ Len(s) = Len(Tail(s)) + 1
        /\ \A i \in n..Len(Tail(s)) : s[i + 1] = Tail(s)[i]
    BY <1>1
  <2> DEFINE t == Tail(s)
             m == n + 1
  <2>2. t \in Seq(T) /\ m \in Nat \ {0} /\ m = n + 1 /\ \A i \in n..Len(t) : s[i + 1] = t[i]
    BY <1>1, <2>1
  <2>3. Len(s) = Len(t) + 1
    BY <2>1
  <2> HIDE DEF t, m
  <2>4. Tally(s, m, A) = Tally(t, n, A)
    BY <2>1, <2>2, <2>3, TallyMoved, SMTT(15)
  <2>5. QED BY <2>4 DEF t, m
<1>3. Tally(Tail(s), 1, A) = Tally(s, 2, A) /\ Tally(s, 2, A) \in Nat
      /\ IsFiniteSet(TallyOf(s, 2, A)) /\ Tally(s, 1, A) \in Nat
  <2>1. 1 \in Nat \ {0} /\ 2 \in Nat \ {0} /\ 1 + 1 = 2
    OBVIOUS
  <2>2. QED BY <1>2, <2>1, TallyType
<1>4. s[1] \in A => TallyOf(s, 1, A) = TallyOf(s, 2, A) \union {1} /\ 1 \notin TallyOf(s, 2, A)
  BY <1>1 DEF TallyOf
<1>5. s[1] \notin A => TallyOf(s, 1, A) = TallyOf(s, 2, A)
  BY <1>1 DEF TallyOf
<1>6. s[1] \in A => Tally(s, 1, A) = Tally(s, 2, A) + 1
  BY <1>3, <1>4, FS_AddElement DEF Tally
<1>7. s[1] \notin A => Tally(s, 1, A) = Tally(s, 2, A)
  BY <1>5 DEF Tally
<1>8. QED BY <1>2, <1>3, <1>6, <1>7

LEMMA TallySole ==
  ASSUME NEW T, NEW s \in Seq(T), NEW A, NEW i \in 1..Len(s), s[i] \in A,
         \A j \in 1..Len(s) : j # i => s[j] \notin A, NEW n \in Nat \ {0}
  PROVE  Tally(s, n, A) = IF n <= i THEN 1 ELSE 0
<1>1. Len(s) \in Nat
  BY LenProperties
<1>2. TallyOf(s, n, A) = IF n <= i THEN {i} ELSE {}
  BY <1>1 DEF TallyOf
<1>3. QED BY <1>2, FS_EmptySet, FS_Singleton DEF Tally

LEMMA SoleTally ==
  ASSUME NEW T, NEW s \in Seq(T), NEW A, Sole(s, A)
  PROVE  Tally(s, 1, A) = 1
<1>1. PICK i \in 1..Len(s) : s[i] \in A /\ \A j \in 1..Len(s) : j # i => s[j] \notin A
  BY DEF Sole
<1>2. 1 <= i /\ 1 \in Nat \ {0}
  BY LenProperties
<1>3. QED BY <1>1, <1>2, TallySole

-----------------------------------------------------------------------------
(* What covers what.                                                       *)

LEMMA CoversNone ==
  ASSUME NEW T, NEW s \in Seq(T), NEW L, NEW C, None(s, C)
  PROVE  Covers(s, L, C)
<1>1. ASSUME NEW n \in Nat \ {0}
      PROVE  Tally(s, n, C) <= Tally(s, n, L)
  <2>1. Tally(s, n, C) = 0 /\ Tally(s, n, L) \in Nat
    BY TallyType
  <2>2. QED BY <2>1
<1>2. QED BY <1>1 DEF Covers

LEMMA CoversSole ==
  ASSUME NEW T, NEW s \in Seq(T), NEW L, NEW C, Sole(s, L), Sole(s, C), InOrder(s, C, L)
  PROVE  Covers(s, L, C)
<1>1. PICK i \in 1..Len(s) : s[i] \in C /\ \A j \in 1..Len(s) : j # i => s[j] \notin C
  BY DEF Sole
<1>2. PICK j \in 1..Len(s) : s[j] \in L /\ \A m \in 1..Len(s) : m # j => s[m] \notin L
  BY DEF Sole
<1>3. i < j /\ i \in Nat /\ j \in Nat
  BY <1>1, <1>2, LenProperties DEF InOrder
<1>4. ASSUME NEW n \in Nat \ {0}
      PROVE  Tally(s, n, C) <= Tally(s, n, L)
  <2>1. Tally(s, n, C) = IF n <= i THEN 1 ELSE 0
    BY <1>1, TallySole
  <2>2. Tally(s, n, L) = IF n <= j THEN 1 ELSE 0
    BY <1>2, TallySole
  <2>3. QED BY <1>3, <2>1, <2>2
<1>5. QED BY <1>4 DEF Covers

LEMMA CoversConcat ==
  ASSUME NEW T, NEW s \in Seq(T), NEW t \in Seq(T), NEW L, NEW C,
         Covers(s, L, C), Covers(t, L, C)
  PROVE  Covers(s \o t, L, C)
<1>1. Len(s) \in Nat
  BY LenProperties
<1>2. ASSUME NEW n \in Nat \ {0}
      PROVE  Tally(s \o t, n, C) <= Tally(s \o t, n, L)
  <2>1. CASE n <= Len(s)
    <3>1. /\ Tally(s \o t, n, C) = Tally(s, n, C) + Tally(t, 1, C)
          /\ Tally(s \o t, n, L) = Tally(s, n, L) + Tally(t, 1, L)
      BY <2>1, TallyConcat
    <3>2. 1 \in Nat \ {0}
      OBVIOUS
    <3>3. Tally(s, n, C) <= Tally(s, n, L) /\ Tally(t, 1, C) <= Tally(t, 1, L)
      BY <3>2 DEF Covers
    <3>4. /\ Tally(s, n, C) \in Nat /\ Tally(s, n, L) \in Nat
          /\ Tally(t, 1, C) \in Nat /\ Tally(t, 1, L) \in Nat
      BY <3>2, TallyType
    <3>5. QED BY <3>1, <3>3, <3>4
  <2>2. CASE n > Len(s)
    <3>1. n - Len(s) \in Nat \ {0}
      BY <1>1, <2>2
    <3>2. /\ Tally(s \o t, n, C) = Tally(t, n - Len(s), C)
          /\ Tally(s \o t, n, L) = Tally(t, n - Len(s), L)
      BY <2>2, TallyConcat
    <3>3. QED BY <3>1, <3>2 DEF Covers
  <2>3. QED BY <1>1, <2>1, <2>2
<1>3. QED BY <1>2 DEF Covers

LEMMA CoversTail ==
  ASSUME NEW T, NEW s \in Seq(T), s # <<>>, NEW L, NEW C, Covers(s, L, C)
  PROVE  Covers(Tail(s), L, C)
<1>1. ASSUME NEW n \in Nat \ {0}
      PROVE  Tally(Tail(s), n, C) <= Tally(Tail(s), n, L)
  <2>1. n + 1 \in Nat \ {0}
    OBVIOUS
  <2>2. Tally(Tail(s), n, C) = Tally(s, n + 1, C) /\ Tally(Tail(s), n, L) = Tally(s, n + 1, L)
    BY TallyTail
  <2>3. QED BY <2>1, <2>2 DEF Covers
<1>2. QED BY <1>1 DEF Covers

-----------------------------------------------------------------------------
(* Sums that change in one place, and what exporters have of each name.    *)

LEMMA SumSame ==
  ASSUME NEW A, IsFiniteSet(A), NEW t, NEW u, \A x \in A : t[x] \in Nat /\ u[x] = t[x]
  PROVE  Sum(u, A) = Sum(t, A)
<1>1. A \in SUBSET A
      /\ \A x \in A : t[x] \in Nat /\ u[x] \in Nat /\ u[x] <= t[x] /\ t[x] <= u[x]
  OBVIOUS
<1>2. Sum(u, A) <= Sum(t, A) /\ Sum(t, A) <= Sum(u, A)
  BY <1>1, SumGrows
<1>3. Sum(u, A) \in Nat /\ Sum(t, A) \in Nat
  BY <1>1, SumType
<1>4. QED BY <1>2, <1>3

LEMMA SumChange ==
  ASSUME NEW A, IsFiniteSet(A), NEW t, NEW u, NEW a \in A,
         \A x \in A : t[x] \in Nat /\ u[x] \in Nat, \A x \in A \ {a} : u[x] = t[x]
  PROVE  Sum(u, A) + t[a] = Sum(t, A) + u[a]
<1>1. Sum(u, A) = u[a] + Sum(u, A \ {a}) /\ Sum(t, A) = t[a] + Sum(t, A \ {a})
  BY SumOut
<1>2. IsFiniteSet(A \ {a}) /\ \A x \in A \ {a} : t[x] \in Nat /\ u[x] = t[x]
  BY FS_Subset
<1>3. Sum(u, A \ {a}) = Sum(t, A \ {a})
  BY <1>2, SumSame
<1>4. Sum(t, A \ {a}) \in Nat
  BY <1>2, SumType
<1>5. QED BY <1>1, <1>3, <1>4

LEMMA AddExact ==
  ASSUME NEW x, IsExporter(x), NEW s, NEW n \in Nat
  PROVE  /\ Exported(Add(x, s, n), s.name) = Exported(x, s.name) + n
         /\ \A name : name # s.name => Exported(Add(x, s, n), name) = Exported(x, name)
<1> DEFINE y == Add(x, s, n)
           t == x.total
           u == y.total
<1>1. u = [e \in DOMAIN t \union {s} |-> (IF e \in DOMAIN t THEN t[e] ELSE 0) + (IF e = s THEN n ELSE 0)]
  BY DEF Add, IsExporter
<1>2. IsExporter(y)
  BY AddFacts DEF Grows
<1>3. \A e \in DOMAIN t : t[e] \in Nat
  BY DEF IsExporter
<1>4. DOMAIN u = DOMAIN t \union {s} /\ u[s] \in Nat /\ \A e \in DOMAIN t \ {s} : u[e] = t[e]
  BY <1>1, <1>3
<1>5. /\ s \in DOMAIN t => u[s] = t[s] + n
      /\ s \notin DOMAIN t => u[s] = n
  BY <1>1, <1>3
<1>6. /\ \A name : /\ Exported(x, name) = Sum(t, Of(x, name)) /\ Exported(x, name) \in Nat
                   /\ IsFiniteSet(Of(x, name)) /\ \A e \in Of(x, name) : t[e] \in Nat
      /\ \A name : /\ Exported(y, name) = Sum(u, Of(y, name)) /\ Exported(y, name) \in Nat
                   /\ IsFiniteSet(Of(y, name)) /\ \A e \in Of(y, name) : u[e] \in Nat
  BY <1>2, ExportedIs
<1>7. \A name : Of(x, name) \subseteq DOMAIN t
  BY DEF Of
<1>8. \A name : Of(y, name) = IF name = s.name THEN Of(x, name) \union {s} ELSE Of(x, name)
  BY <1>4 DEF Of
<1>9. s \in Of(x, s.name) <=> s \in DOMAIN t
  BY DEF Of
<1>10. \A name : name # s.name => s \notin Of(x, name)
  BY DEF Of
<1> HIDE DEF y, t, u
<1>11. ASSUME NEW name, name # s.name
       PROVE  Exported(y, name) = Exported(x, name)
  <2>1. \A e \in Of(x, name) : t[e] \in Nat /\ u[e] = t[e]
    BY <1>4, <1>6, <1>7, <1>10, <1>11
  <2>2. Sum(u, Of(x, name)) = Sum(t, Of(x, name))
    BY <1>6, <2>1, SumSame
  <2>3. Of(y, name) = Of(x, name)
    BY <1>8, <1>11
  <2>4. QED BY <1>6, <2>2, <2>3
<1>12. Exported(y, s.name) = Exported(x, s.name) + n
  <2> DEFINE A == Of(x, s.name)
             B == Of(y, s.name)
  <2>1. /\ B = A \union {s} /\ IsFiniteSet(A) /\ IsFiniteSet(B) /\ A \subseteq DOMAIN t
        /\ \A e \in A : t[e] \in Nat
        /\ \A e \in B : u[e] \in Nat
        /\ Exported(x, s.name) = Sum(t, A) /\ Exported(y, s.name) = Sum(u, B)
        /\ Sum(t, A) \in Nat
    BY <1>6, <1>7, <1>8
  <2>2. CASE s \in A
    <3>1. A = B /\ u[s] = t[s] + n
      BY <1>5, <1>9, <2>1, <2>2
    <3>2. \A e \in A \ {s} : u[e] = t[e]
      BY <1>4, <2>1
    <3> HIDE DEF A, B
    <3>3. Sum(u, A) + t[s] = Sum(t, A) + u[s]
      BY <2>1, <2>2, <3>1, <3>2, SumChange
    <3>4. Sum(u, A) \in Nat /\ t[s] \in Nat
      BY <2>1, <2>2, <3>1, SumType
    <3>5. Exported(y, s.name) = Sum(u, A) /\ Exported(x, s.name) = Sum(t, A) /\ u[s] = t[s] + n
          /\ Sum(t, A) \in Nat
      BY <2>1, <3>1
    <3>6. \A a, b, c, d \in Nat : a + c = b + (c + d) => a = b + d
      OBVIOUS
    <3>7. Sum(u, A) + t[s] = Sum(t, A) + (t[s] + n)
      BY <3>3, <3>5
    <3>8. Sum(u, A) = Sum(t, A) + n
      BY <3>4, <3>5, <3>6, <3>7
    <3>9. QED BY <3>5, <3>8
  <2>3. CASE s \notin A
    <3>1. B \ {s} = A /\ s \in B /\ u[s] = n
      BY <1>5, <1>9, <2>1, <2>3
    <3>2. \A e \in A : t[e] \in Nat /\ u[e] = t[e]
      BY <1>4, <2>1, <2>3
    <3> HIDE DEF A, B
    <3>3. Sum(u, B) = u[s] + Sum(u, B \ {s})
      BY <2>1, <3>1, SumOut
    <3>4. Sum(u, A) = Sum(t, A)
      BY <2>1, <3>2, SumSame
    <3>5. Exported(y, s.name) = n + Sum(t, A) /\ Exported(x, s.name) = Sum(t, A)
          /\ Sum(t, A) \in Nat
      BY <2>1, <3>1, <3>3, <3>4
    <3>6. \A a \in Nat : n + a = a + n
      OBVIOUS
    <3>7. QED BY <3>5, <3>6
  <2>4. QED BY <2>2, <2>3
<1>13. QED BY <1>11, <1>12 DEF y

-----------------------------------------------------------------------------
(* The steps that are no hook's.                                           *)

SilentSteps == {s \in AllSteps : s.step # "hook"}

LEMMA DoSilent ==
  \A x \in BareKinds \union Locking \union Unlocking \union Linking : Do(x) \in Seq(SilentSteps)
<1>1. \A x \in BareKinds \union Locking \union Unlocking \union Linking :
        x # "hook" /\ [step |-> x] \in AllSteps
  BY DEF AllSteps, CallSteps, BareSteps, BareKinds, Locking, Unlocking, Linking
<1>2. \A x \in BareKinds \union Locking \union Unlocking \union Linking : [step |-> x] \in SilentSteps
  BY <1>1 DEF SilentSteps
<1>3. \A x : [step |-> x] \in SilentSteps => <<[step |-> x]>> \in Seq(SilentSteps)
  OBVIOUS
<1>4. QED BY <1>2, <1>3 DEF Do

LEMMA SilentFacts ==
  ASSUME NEW k \in Keys
  PROVE  /\ \A x \in {"find", "add", "remove", "peek"} : With1(x, k) \in Seq(SilentSteps)
         /\ \A r \in EvictReasons : Evicted(k, r) \in Seq(SilentSteps)
         /\ \A n \in {<<>>, Do("count")} : Invalidated(k, n) \in Seq(SilentSteps)
         /\ Callback(k) \in Seq(SilentSteps)
         /\ \A op \in {"get", "set"} : Recorded(op) \in Seq(SilentSteps)
         /\ ResetPlan \in Seq(SilentSteps)
<1>1. \A x \in {"find", "add", "remove", "peek"} : With1(x, k) \in Seq(SilentSteps)
  <2>1. \A x \in {"find", "add", "remove", "peek"} : [step |-> x, key |-> k] \in SilentSteps
    BY DEF KeySteps, BareSteps, CallSteps, AllSteps, SilentSteps
  <2>2. QED BY <2>1 DEF With1
<1>2. \A r \in EvictReasons : Evicted(k, r) \in Seq(SilentSteps)
  <2>1. \A r \in EvictReasons : [step |-> "evicted", key |-> k, reason |-> r] \in SilentSteps
    BY DEF EvictedSteps, BareSteps, CallSteps, AllSteps, SilentSteps
  <2>2. QED BY <2>1 DEF Evicted
<1>3. \A n \in {<<>>, Do("count")} : Invalidated(k, n) \in Seq(SilentSteps)
  <2>1. \A n \in {<<>>, Do("count")} :
          [step |-> "invalidated", key |-> k, next |-> n] \in SilentSteps
    BY DEF InvalidatedSteps, BareSteps, CallSteps, AllSteps, SilentSteps
  <2>2. QED BY <2>1 DEF Invalidated
<1>4. Callback(k) \in Seq(SilentSteps)
  BY <1>2 DEF Callback, EvictReasons
<1>5. \A op \in {"get", "set"} : Recorded(op) \in Seq(SilentSteps)
  <2>1. \A op \in {"get", "set"} : [step |-> "record", op |-> op, i |-> 1] \in SilentSteps
    BY DEF RecordSteps, BareSteps, CallSteps, AllSteps, SilentSteps
  <2>2. QED BY <2>1 DEF Recorded
<1>6. ResetPlan \in Seq(SilentSteps)
  <2>1. \A i \in 1..5 : [step |-> "reset", field |-> ResetOrder[i]] \in SilentSteps
    <3>1. \A i \in 1..5 : ResetOrder[i] \in DOMAIN Zero \union {"keyCount"}
      BY DEF ResetOrder, Zero
    <3>2. QED BY <3>1 DEF ResetSteps, BareSteps, CallSteps, AllSteps, SilentSteps
  <2>2. DOMAIN ResetOrder = 1..5
    BY DEF ResetOrder
  <2>3. QED BY <2>1, <2>2, IndexedIsSeq DEF ResetPlan
<1>7. QED BY <1>1, <1>2, <1>3, <1>4, <1>5, <1>6

LEMMA UnderSilent ==
  ASSUME NEW s \in Seq(SilentSteps)
  PROVE  /\ UnderRead(s) \in Seq(SilentSteps) /\ UnderStore(s) \in Seq(SilentSteps)
         /\ UnderWrite(s) \in Seq(SilentSteps)
<1>1. \A x \in Locking \union Unlocking \union Linking : Do(x) \in Seq(SilentSteps)
  BY DoSilent
<1>2. \A t, u \in Seq(SilentSteps) : t \o u \in Seq(SilentSteps)
  BY ConcatProperties
<1>3. QED BY <1>1, <1>2 DEF UnderRead, UnderStore, UnderWrite, Locking, Unlocking, Linking

LEMMA PlanSilent ==
  ASSUME NEW op \in Operations, NEW k \in Keys
  PROVE  Plan(op, k) \in Seq(SilentSteps)
<1>1. /\ \A x \in BareKinds \union Linking : Do(x) \in Seq(SilentSteps)
      /\ \A x \in {"find", "add", "remove", "peek"} : With1(x, k) \in Seq(SilentSteps)
      /\ Invalidated(k, Do("count")) \in Seq(SilentSteps)
      /\ \A x \in {"get", "set"} : Recorded(x) \in Seq(SilentSteps)
      /\ ResetPlan \in Seq(SilentSteps)
  BY DoSilent, SilentFacts
<1>2. \A t, u \in Seq(SilentSteps) : t \o u \in Seq(SilentSteps)
  BY ConcatProperties
<1>3. \A t \in Seq(SilentSteps) :
        /\ UnderRead(t) \in Seq(SilentSteps) /\ UnderStore(t) \in Seq(SilentSteps)
        /\ UnderWrite(t) \in Seq(SilentSteps)
  BY UnderSilent
<1>4. CASE op = "Get"
  BY <1>1, <1>2, <1>3, <1>4 DEF Plan
<1>5. CASE op = "Set"
  BY <1>1, <1>2, <1>3, <1>5 DEF Plan, BareKinds
<1>6. CASE op = "Delete"
  <2>1. UnderStore(With1("remove", k)) \in Seq(SilentSteps)
    BY <1>1, <1>3
  <2>2. UnderStore(With1("remove", k)) \o Invalidated(k, Do("count")) \in Seq(SilentSteps)
    BY <1>1, <1>2, <2>1
  <2>3. UnderWrite(UnderStore(With1("remove", k)) \o Invalidated(k, Do("count"))) \in Seq(SilentSteps)
    BY <1>3, <2>2
  <2>4. QED BY <1>6, <2>3 DEF Plan
<1>7. CASE op = "Clear" \/ op = "Cleanup"
  <2>1. Do("keys") \in Seq(SilentSteps) /\ Do("collect") \in Seq(SilentSteps)
        /\ Do("count") \in Seq(SilentSteps)
    BY <1>1 DEF BareKinds
  <2>2. UnderStore(Do("collect")) \in Seq(SilentSteps)
    BY <1>3, <2>1
  <2>3. UnderStore(Do("collect")) \o Do("count") \in Seq(SilentSteps)
    BY <1>2, <2>1, <2>2
  <2>4. UnderWrite(Do("keys")) \in Seq(SilentSteps)
        /\ UnderWrite(UnderStore(Do("collect")) \o Do("count")) \in Seq(SilentSteps)
    BY <1>3, <2>1, <2>3
  <2>5. Plan("Clear", k) = UnderWrite(Do("keys"))
        /\ Plan("Cleanup", k) = UnderWrite(UnderStore(Do("collect")) \o Do("count"))
    BY DEF Plan
  <2>6. QED BY <1>7, <2>4, <2>5
<1>8. CASE op = "Close"
  <2>1. /\ Do("stop") \in Seq(SilentSteps) /\ Do("wait") \in Seq(SilentSteps)
        /\ Do("closeExporter") \in Seq(SilentSteps) /\ Do("closeStore") \in Seq(SilentSteps)
    BY <1>1 DEF BareKinds, Linking
  <2>2. Do("stop") \o Do("wait") \o Do("closeExporter") \o Do("closeStore") \in Seq(SilentSteps)
    BY <1>2, <2>1
  <2>3. QED BY <1>3, <1>8, <2>2 DEF Plan
<1>9. CASE op = "Has" \/ op = "Len" \/ op = "Stats"
  <2>1. Do("len") \in Seq(SilentSteps) /\ Do("count") \in Seq(SilentSteps)
        /\ With1("peek", k) \in Seq(SilentSteps)
    BY <1>1 DEF BareKinds
  <2>2. UnderRead(Do("len")) \in Seq(SilentSteps) /\ UnderRead(With1("peek", k)) \in Seq(SilentSteps)
    BY <1>3, <2>1
  <2>3. Plan("Has", k) = UnderRead(With1("peek", k)) /\ Plan("Len", k) = UnderRead(Do("len"))
        /\ Plan("Stats", k) = Do("count")
    BY DEF Plan, StatsPlan
  <2>4. QED BY <1>9, <2>1, <2>2, <2>3
<1>10. CASE op = "Reset"
  BY <1>1, <1>10 DEF Plan
<1>11. QED BY <1>4, <1>5, <1>6, <1>7, <1>8, <1>9, <1>10 DEF Operations

-----------------------------------------------------------------------------
(* What is counted and logged, and how the processes move.                 *)

\* of the hooks, those that count an event with the first exporter, or log it
CountingSteps(e) == {h \in HookSteps : h.atom \in CountersOf(e) /\ h.i = 1}
LoggingSteps(e) == {h \in HookSteps : h.atom \in LoggersOf(e)}
Watched == {LoggingSteps(e) : e \in S.logged} \union {CountingSteps(e) : e \in S.counted}

\* the first exporter has a counter of the name
Known(name) ==
  exporters[1].kind = "prometheus" => <<"counter", name>> \in DOMAIN exporters[1].custom

\* one that has been counted there can be counted again
FitStep(s) ==
  s.step = "hook" =>
    /\ Fits(S, s.atom) /\ s.i # 0
    /\ s.atom.does = "count" /\ s.atom.name \in S.counted /\ s.i # 1 => Known(s.atom.name)
FreshSteps == {s \in AllSteps : s \notin UNION Watched /\ FitStep(s)}

LEMMA SilentFresh ==
  /\ \A s \in SilentSteps : s \notin UNION Watched
  /\ SilentSteps \subseteq FreshSteps /\ SilentSteps \subseteq FreshSteps'
<1>1. ASSUME NEW s \in SilentSteps
      PROVE  s \in AllSteps /\ s \notin HookSteps /\ s.step # "hook"
  BY DEF SilentSteps, HookSteps
<1>2. \A s \in SilentSteps : s \notin UNION Watched /\ ~(s \in UNION Watched)'
  BY <1>1 DEF Watched, LoggingSteps, CountingSteps
<1>3. QED BY <1>1, <1>2 DEF FreshSteps, FitStep

\* goes on, or begins
Rests(q) == Same(q) \/ (todo[q] = <<>> /\ todo'[q] \in Seq(FreshSteps'))
OthersRest(p) == \A q \in Procs \ {p} : Rests(q)

\* a step of p that is seen, if it is one of A, in what x was and y is
Seen(p, A, x, y) == (It(p) \in A => y = x + 1) /\ (It(p) \notin A => y = x)

\* what has been counted, wiped or not
Ever == [f \in DOMAIN Zero |-> Counted(f)]
Counts(e) == Ever' = [Ever EXCEPT ![Field[e]] = @ + 1]

LEMMA EverKept == UNCHANGED <<stats, wiped>> => UNCHANGED Ever
BY DEF Ever, Counted

LEMMA EverType == ASSUME IInv PROVE Ever \in [DOMAIN Zero -> Nat]
BY HeldFacts DEF Ever, Counted

LEMMA EverCounts ==
  ASSUME IInv, NEW e \in Events, Count(e), UNCHANGED wiped
  PROVE  Counts(e)
<1>1. stats \in [DOMAIN Zero -> Nat] /\ wiped \in [DOMAIN Zero -> Nat]
  BY HeldFacts
<1>2. Field[e] \in DOMAIN Zero
  BY DEF Events, Field, Zero
<1>3. /\ \A f \in DOMAIN Zero : stats'[f] = IF f = Field[e] THEN stats[f] + 1 ELSE stats[f]
      /\ wiped' = wiped
  BY <1>1, <1>2 DEF Count
<1>4. \A f \in DOMAIN Zero :
        stats'[f] + wiped'[f] =
          IF f = Field[e] THEN (stats[f] + wiped[f]) + 1 ELSE stats[f] + wiped[f]
  BY <1>1, <1>3
<1>5. /\ Ever = [f \in DOMAIN Zero |-> stats[f] + wiped[f]]
      /\ Ever' = [f \in DOMAIN Zero |-> stats'[f] + wiped'[f]]
  BY DEF Ever, Counted, Zero
<1>6. QED BY <1>2, <1>4, <1>5 DEF Counts

Waits == (\A q \in Procs : Rests(q)) /\ UNCHANGED <<Ever, panicked, lines, exporters>>

Acts(p) ==
  /\ todo[p] # <<>> /\ \E steps \in Seq(FreshSteps') : todo'[p] = steps \o Tail(todo[p])
  /\ OthersRest(p)
  /\ UNCHANGED <<Ever, panicked>>
  /\ \A e \in S.logged : Seen(p, LoggingSteps(e), lines[e], lines'[e])
  /\ \A e \in S.counted :
       Seen(p, CountingSteps(e), Exported(exporters[1], e), Exported(exporters'[1], e))

\* the hooks of an event
HooksOn(atoms, of) == [i \in DOMAIN atoms |-> [step |-> "hook", atom |-> atoms[i], of |-> of, i |-> 1]]

Tells(p) ==
  /\ todo[p] # <<>> /\ It(p) \notin UNION Watched
  /\ \E e \in Events, of \in Happenings, before \in Seq(SilentSteps) :
       /\ \E atoms \in Invoke(S.hooks, e, FromCache(of.key)) :
            todo'[p] = (before \o HooksOn(atoms, of)) \o Tail(todo[p])
       /\ Counts(e)
  /\ OthersRest(p)
  /\ UNCHANGED <<panicked, lines, exporters>>

Panics(p) ==
  /\ \/ /\ todo[p] # <<>> /\ todo'[p] = Deferred(Tail(todo[p]))
        /\ \A q \in Procs \ {p} : Same(q)
     \/ \A q \in Procs : todo'[q] = <<>>
  /\ panicked' = TRUE /\ UNCHANGED <<Ever, lines>>

Moves == Waits \/ \E p \in Procs : Acts(p) \/ Tells(p) \/ Panics(p)

\* a step of p that no hook takes
LEMMA ActsIs ==
  ASSUME IInv, NEW p \in Procs, todo[p] # <<>>, It(p).step # "hook",
         NEW steps \in Seq(SilentSteps), todo'[p] = steps \o Tail(todo[p]), OthersRest(p),
         UNCHANGED <<Ever, panicked, lines>>,
         \A e \in S.counted : Exported(exporters'[1], e) = Exported(exporters[1], e)
  PROVE  Acts(p)
<1>1. steps \in Seq(FreshSteps')
  BY SilentFresh, SeqMonotonic
<1>2. \A A \in Watched : It(p) \notin A
  BY DEF Watched, LoggingSteps, CountingSteps, HookSteps
<1>3. \A e \in S.logged : It(p) \notin LoggingSteps(e)
  BY <1>2 DEF Watched
<1>4. \A e \in S.counted : It(p) \notin CountingSteps(e)
  BY <1>2 DEF Watched
<1>5. QED BY <1>1, <1>3, <1>4 DEF Acts, Seen

LEMMA ContinueIs ==
  ASSUME IInv, NEW p \in Procs, NEW steps, Continue(p, steps)
  PROVE  todo'[p] = steps \o Tail(todo[p]) /\ OthersRest(p)
<1>1. todo \in [Procs -> Seq(AllSteps)]
  BY DEF IInv, TodoInv
<1>2. QED BY <1>1 DEF Continue, OthersRest, Rests, Same

LEMMA StartRests ==
  ASSUME IInv, NEW p \in Procs, todo[p] # <<>>, NEW steps, NEW k \in Keys,
         StartRemover(k, Then(p, steps))
  PROVE  todo'[p] = steps \o Tail(todo[p]) /\ OthersRest(p)
<1> DEFINE removal == UnderStore(With1("remove", k)) \o Evicted(k, "TTL")
<1>1. PICK r \in Removers : todo[r] = <<>> /\ todo' = [Then(p, steps) EXCEPT ![r] = removal]
  BY DEF StartRemover
<1>2. todo \in [Procs -> Seq(AllSteps)] /\ r \in Procs /\ r # p
  BY <1>1 DEF IInv, TodoInv, Procs
<1>3. removal \in Seq(FreshSteps')
  <2>1. With1("remove", k) \in Seq(SilentSteps) /\ Evicted(k, "TTL") \in Seq(SilentSteps)
    BY SilentFacts DEF EvictReasons
  <2>2. UnderStore(With1("remove", k)) \in Seq(SilentSteps)
    BY <2>1, UnderSilent
  <2>3. removal \in Seq(SilentSteps)
    BY <2>1, <2>2, ConcatProperties
  <2>4. QED BY <2>3, SilentFresh, SeqMonotonic
<1> HIDE DEF removal
<1>4. /\ todo'[p] = steps \o Tail(todo[p]) /\ todo'[r] = removal
      /\ \A q \in Procs \ {p, r} : Same(q)
  BY <1>1, <1>2 DEF Then, Same
<1>5. QED BY <1>1, <1>3, <1>4 DEF OthersRest, Rests

LEMMA PanicsIs ==
  ASSUME IInv, NEW p \in Procs, todo[p] # <<>>, Panic(p), UNCHANGED <<Ever, lines>>
  PROVE  Panics(p)
<1>1. todo \in [Procs -> Seq(AllSteps)]
  BY DEF IInv, TodoInv
<1>2. QED BY <1>1 DEF Panic, Unwind, Panics, Same

-----------------------------------------------------------------------------
(* What is left as it was of the exporter that events are counted with.    *)

Alike(x, y) ==
  /\ IsExporter(y) /\ {"kind", "config"} \subseteq DOMAIN y
  /\ y.kind = x.kind /\ y.config = x.config
Unchanged(x, y) ==
  Alike(x, y) /\ y.custom = x.custom /\ \A e \in Events : Exported(y, e) = Exported(x, e)

LEMMA ExportedSame ==
  ASSUME NEW x, NEW y, y.total = x.total
  PROVE  \A e : Exported(y, e) = Exported(x, e)
BY DEF Exported

LEMMA AddUnchanged ==
  ASSUME NEW x, IsExporter(x), {"kind", "config"} \subseteq DOMAIN x, NEW s, NEW n \in Nat
  PROVE  /\ Alike(x, Add(x, s, n)) /\ Add(x, s, n).custom = x.custom
         /\ s.name \notin Events => Unchanged(x, Add(x, s, n))
<1> DEFINE y == Add(x, s, n)
<1>1. IsExporter(y)
  BY AddFacts DEF Grows
<1>2. {"kind", "config"} \subseteq DOMAIN y /\ y.kind = x.kind /\ y.config = x.config
      /\ y.custom = x.custom
  BY DEF Add, IsExporter
<1>3. s.name \notin Events => \A e \in Events : Exported(y, e) = Exported(x, e)
  BY AddExact
<1> HIDE DEF y
<1>4. QED BY <1>1, <1>2, <1>3 DEF Alike, Unchanged, y

LEMMA SetToUnchanged ==
  ASSUME NEW x, IsExporter(x), {"kind", "config"} \subseteq DOMAIN x, NEW s, NEW n
  PROVE  Unchanged(x, SetTo(x, s, n)) /\ SetTo(x, s, n).total = x.total
<1> DEFINE y == SetTo(x, s, n)
<1>1. IsExporter(y)
  BY SetToFacts DEF Grows
<1>2. {"kind", "config"} \subseteq DOMAIN y /\ y.kind = x.kind /\ y.config = x.config
      /\ y.custom = x.custom /\ y.total = x.total
  BY DEF SetTo, IsExporter
<1> HIDE DEF y
<1>3. \A e \in Events : Exported(y, e) = Exported(x, e)
  BY <1>2, ExportedSame
<1>4. QED BY <1>1, <1>2, <1>3 DEF Alike, Unchanged, y

LEMMA UnchangedOn ==
  ASSUME NEW x, NEW y, NEW z, Unchanged(x, y), Unchanged(y, z)
  PROVE  Unchanged(x, z)
BY DEF Unchanged, Alike

LEMMA ExportUnchanged ==
  ASSUME NEW x, IsExporter(x), {"kind", "config"} \subseteq DOMAIN x,
         NEW name, name \notin Events, NEW n \in Nat, NEW labels
  PROVE  Unchanged(x, Export(x, name, n, labels))
<1>1. \A l : Sample(name, l).name \notin Events
  BY DEF Sample
<1>2. \/ \E l : Export(x, name, n, labels) = SetTo(x, Sample(name, l), n)
      \/ \E l : Export(x, name, n, labels) = Add(x, Sample(name, l), n)
  BY DEF Export, PrometheusExport, OpenTelemetryExport
<1>3. QED BY <1>1, <1>2, AddUnchanged, SetToUnchanged

LEMMA RecordUnchanged ==
  ASSUME NEW x, IsExporter(x), {"kind", "config"} \subseteq DOMAIN x, NEW op, NEW labels
  PROVE  Unchanged(x, Record(x, op, labels))
<1>1. \A l : Sample("duration", l).name \notin Events /\ Sample("operations", l).name \notin Events
  BY DEF Sample, Events
<1>2. ASSUME NEW y, IsExporter(y), {"kind", "config"} \subseteq DOMAIN y, NEW l
      PROVE  Unchanged(y, Timed(y, l))
  <2>1. Unchanged(y, y)
    BY <1>2 DEF Unchanged, Alike
  <2>2. Unchanged(y, Add(y, Sample("duration", l), 1))
    BY <1>1, <1>2, AddUnchanged
  <2>3. QED BY <2>1, <2>2 DEF Timed
<1>3. \/ \E l : Record(x, op, labels) = Timed(x, l)
      \/ \E l, m : Record(x, op, labels) = Timed(Add(x, Sample("operations", m), 1), l)
  BY DEF Record, PrometheusRecord, OpenTelemetryRecord
<1>4. ASSUME NEW m
      PROVE  Unchanged(x, Add(x, Sample("operations", m), 1))
  BY <1>1, AddUnchanged
<1>5. ASSUME NEW l, NEW m
      PROVE  Unchanged(x, Timed(Add(x, Sample("operations", m), 1), l))
  <2> DEFINE y == Add(x, Sample("operations", m), 1)
  <2>1. Unchanged(x, y)
    BY <1>4
  <2> HIDE DEF y
  <2>2. IsExporter(y) /\ {"kind", "config"} \subseteq DOMAIN y
    BY <2>1 DEF Unchanged, Alike
  <2>3. Unchanged(y, Timed(y, l))
    BY <1>2, <2>2
  <2>4. Unchanged(x, Timed(y, l))
    BY <2>1, <2>3, UnchangedOn
  <2>5. QED BY <2>4 DEF y
<1>6. QED BY <1>2, <1>3, <1>5

\* what a custom metric is answered, if it has to do with the events that are counted
CustomAnswers(r, reg, x, kind, name, names) ==
  /\ Alike(x, r.x) /\ DOMAIN x.custom \subseteq DOMAIN r.x.custom
  /\ r.ends \in {"ok", "error", "panic"}
  /\ \A d \in r.reg : d \in reg \/ (d.name = name /\ <<kind, name>> \in DOMAIN r.x.custom)
  /\ \A e : e # name => Exported(r.x, e) = Exported(x, e)
  /\ r.ends = "ok" =>
       /\ kind = "counter" => Exported(r.x, name) = Exported(x, name) + 1
       /\ x.kind = "prometheus" => <<kind, name>> \in DOMAIN r.x.custom
  /\ r.ends = "error" =>
       /\ x.kind = "prometheus" /\ <<kind, name>> \notin DOMAIN x.custom
       /\ r.x = x
       /\ ~Registrable(reg, [name |-> name, help |-> kind, const |-> x.config.labels,
                             names |-> names])

LEMMA ApplyFacts ==
  ASSUME NEW x, IsExporter(x), {"kind", "config"} \subseteq DOMAIN x, NEW kind, NEW name, NEW l
  PROVE  LET y == Apply(x, kind, Sample(name, l), 1) IN
         /\ Alike(x, y) /\ y.custom = x.custom
         /\ \A e : e # name => Exported(y, e) = Exported(x, e)
         /\ kind = "counter" => Exported(y, name) = Exported(x, name) + 1
<1>1. Sample(name, l).name = name
  BY DEF Sample
<1>2. CASE kind = "gauge"
  <2> DEFINE y == SetTo(x, Sample(name, l), 1)
  <2>1. Unchanged(x, y) /\ y.total = x.total
    BY SetToUnchanged
  <2> HIDE DEF y
  <2>2. \A e : Exported(y, e) = Exported(x, e)
    BY <2>1, ExportedSame
  <2>3. QED BY <1>2, <2>1, <2>2 DEF Apply, Unchanged, y
<1>3. CASE kind # "gauge"
  <2> DEFINE y == Add(x, Sample(name, l), 1)
             s == Sample(name, l)
  <2>1. Alike(x, y) /\ y.custom = x.custom
    BY AddUnchanged
  <2>2. /\ Exported(Add(x, s, 1), s.name) = Exported(x, s.name) + 1
        /\ \A e : e # s.name => Exported(Add(x, s, 1), e) = Exported(x, e)
    <3> HIDE DEF s
    <3>1. QED BY AddExact
  <2>3. Apply(x, kind, Sample(name, l), 1) = y
    BY <1>3 DEF Apply
  <2> HIDE DEF y
  <2>4. QED BY <1>1, <2>1, <2>2, <2>3 DEF y
<1>4. QED BY <1>2, <1>3

\* What a custom metric adds to the registry bears its name.
LEMMA CustomRegisters ==
  ASSUME NEW reg, NEW x, NEW kind, NEW name, NEW labels
  PROVE  \A d \in Custom(reg, x, kind, name, labels, 1).reg : d \in reg \/ d.name = name
<1> DEFINE known == <<kind, name>> \in DOMAIN x.custom
           desc == [name |-> name, help |-> kind, const |-> x.config.labels, names |-> DOMAIN labels]
           y == IF known THEN x
                ELSE [x EXCEPT !.custom = [n \in DOMAIN @ \union {<<kind, name>>} |->
                                             IF n = <<kind, name>> THEN DOMAIN labels ELSE @[n]]]
           z == Apply(y, kind, Sample(name, labels), 1)
           w == Apply(x, kind, Sample(name, Attributes(x, labels)), 1)
           s == IF known THEN reg ELSE reg \union {desc}
           r == Custom(reg, x, kind, name, labels, 1)
<1>1. \/ r = [reg |-> reg, x |-> w, ends |-> "ok"]
      \/ r = [reg |-> reg, x |-> x, ends |-> "error"]
      \/ r = [reg |-> s, x |-> y, ends |-> "panic"]
      \/ r = [reg |-> s, x |-> z, ends |-> "ok"]
  <2>1. CASE x.kind # "prometheus"
    BY <2>1 DEF Custom, OpenTelemetryCustom
  <2>2. CASE x.kind = "prometheus"
    BY <2>2 DEF Custom, PrometheusCustom
  <2>3. QED BY <2>1, <2>2
<1>2. \A d \in s : d \in reg \/ d.name = name
  <2>1. desc.name = name
    OBVIOUS
  <2> HIDE DEF desc, known
  <2>2. QED BY <2>1
<1> HIDE DEF r, s, w, y, z
<1>3. r.reg = reg \/ r.reg = s
  BY <1>1
<1>4. \A d \in r.reg : d \in reg \/ d.name = name
  BY <1>2, <1>3
<1>5. QED BY <1>4 DEF r

LEMMA CustomIs ==
  ASSUME NEW x, IsExporter(x), {"kind", "config"} \subseteq DOMAIN x,
         NEW reg, NEW kind, NEW name, NEW labels
  PROVE  CustomAnswers(Custom(reg, x, kind, name, labels, 1), reg, x, kind, name, DOMAIN labels)
<1> DEFINE id == <<kind, name>>
           known == id \in DOMAIN x.custom
           desc == [name |-> name, help |-> kind, const |-> x.config.labels, names |-> DOMAIN labels]
           y == IF known THEN x
                ELSE [x EXCEPT !.custom = [n \in DOMAIN @ \union {id} |->
                                             IF n = id THEN DOMAIN labels ELSE @[n]]]
           z == Apply(y, kind, Sample(name, labels), 1)
           s == IF known THEN reg ELSE reg \union {desc}
           r == Custom(reg, x, kind, name, labels, 1)
<1>1. CASE x.kind # "prometheus"
  <2> DEFINE w == Apply(x, kind, Sample(name, Attributes(x, labels)), 1)
  <2>1. r = [reg |-> reg, x |-> w, ends |-> "ok"]
    BY <1>1 DEF Custom, OpenTelemetryCustom
  <2>2. /\ Alike(x, w) /\ w.custom = x.custom
        /\ \A e : e # name => Exported(w, e) = Exported(x, e)
        /\ kind = "counter" => Exported(w, name) = Exported(x, name) + 1
    BY ApplyFacts
  <2> HIDE DEF w, r
  <2>3. r.reg = reg /\ r.x = w /\ r.ends = "ok"
    BY <2>1
  <2>4. CustomAnswers(r, reg, x, kind, name, DOMAIN labels)
    BY <1>1, <2>2, <2>3 DEF CustomAnswers
  <2>5. QED BY <2>4 DEF r
<1>2. CASE x.kind = "prometheus"
  <2>1. \/ ~known /\ ~Registrable(reg, desc) /\ r = [reg |-> reg, x |-> x, ends |-> "error"]
        \/ r = [reg |-> s, x |-> y, ends |-> "panic"]
        \/ r = [reg |-> s, x |-> z, ends |-> "ok"]
    BY <1>2 DEF Custom, PrometheusCustom
  <2>2. /\ IsExporter(y) /\ {"kind", "config"} \subseteq DOMAIN y
        /\ y.kind = x.kind /\ y.config = x.config /\ y.total = x.total
        /\ DOMAIN y.custom = DOMAIN x.custom \union {id}
    BY DEF IsExporter
  <2>3. \A d \in s : d \in reg \/ d.name = name
    OBVIOUS
  <2> HIDE DEF y
  <2>4. \A e : Exported(y, e) = Exported(x, e)
    BY <2>2, ExportedSame
  <2>5. /\ Alike(y, z) /\ z.custom = y.custom
        /\ \A e : e # name => Exported(z, e) = Exported(y, e)
        /\ kind = "counter" => Exported(z, name) = Exported(y, name) + 1
    BY <2>2, ApplyFacts
  <2>6. Alike(x, y) /\ Alike(x, z)
    BY <2>2, <2>5 DEF Alike
  <2>7. Alike(x, x) /\ IsExporter(x)
    BY DEF Alike
  <2> HIDE DEF r, s, z, desc
  <2>8. CASE ~known /\ ~Registrable(reg, desc) /\ r = [reg |-> reg, x |-> x, ends |-> "error"]
    <3>1. r.reg = reg /\ r.x = x /\ r.ends = "error"
      BY <2>8
    <3>2. CustomAnswers(r, reg, x, kind, name, DOMAIN labels)
      BY <1>2, <2>7, <2>8, <3>1 DEF CustomAnswers, desc
    <3>3. QED BY <3>2 DEF r
  <2>9. CASE r = [reg |-> s, x |-> y, ends |-> "panic"]
    <3>1. r.reg = s /\ r.x = y /\ r.ends = "panic"
      BY <2>9
    <3>2. CustomAnswers(r, reg, x, kind, name, DOMAIN labels)
      BY <1>2, <2>2, <2>3, <2>4, <2>6, <3>1 DEF CustomAnswers
    <3>3. QED BY <3>2 DEF r
  <2>10. CASE r = [reg |-> s, x |-> z, ends |-> "ok"]
    <3>1. r.reg = s /\ r.x = z /\ r.ends = "ok"
      BY <2>10
    <3>2. CustomAnswers(r, reg, x, kind, name, DOMAIN labels)
      BY <1>2, <2>2, <2>3, <2>4, <2>5, <2>6, <3>1 DEF CustomAnswers
    <3>3. QED BY <3>2 DEF r
  <2>11. QED BY <2>1, <2>8, <2>9, <2>10
<1>3. QED BY <1>1, <1>2

-----------------------------------------------------------------------------
(* The exporter and the hooks fit what the scenario has counted.           *)

ExportsFit ==
  /\ S.counted # {} =>
       /\ 1 \in DOMAIN exporters /\ {"kind", "config"} \subseteq DOMAIN exporters[1]
       /\ exporters[1].kind = S.exporters[1].kind /\ exporters[1].config = S.exporters[1].config
  /\ \A d \in registry : d.name \in S.counted => Known(d.name)

FitInv == ExportsFit /\ \A q \in Procs : \A j \in 1..Len(todo[q]) : FitStep(todo[q][j])

KnownKept == \A e \in S.counted : Known(e) => Known(e)'

LEMMA ExportsStay ==
  ASSUME ExportsFit, scenario' = scenario, UNCHANGED exports
  PROVE  ExportsFit' /\ KnownKept
BY DEF ExportsFit, KnownKept, Known, exports, S

\* an exporter is given something else
LEMMA ExportsChange ==
  ASSUME IInv, ExportsFit, scenario' = scenario, NEW i, NEW x,
         exporters' = [exporters EXCEPT ![i] = x],
         S.counted # {} /\ i = 1 => Alike(exporters[1], x) /\ DOMAIN exporters[1].custom \subseteq DOMAIN x.custom,
         \A d \in registry' : d \in registry \/ (d.name \in S.counted => Known(d.name)')
  PROVE  ExportsFit' /\ KnownKept
<1>1. S' = S
  BY DEF S
<1>2. DOMAIN exporters' = DOMAIN exporters
  OBVIOUS
<1>3. CASE S.counted = {}
  BY <1>1, <1>3 DEF ExportsFit, KnownKept
<1>4. CASE S.counted # {}
  <2>1. /\ 1 \in DOMAIN exporters /\ {"kind", "config"} \subseteq DOMAIN exporters[1]
        /\ exporters[1].kind = S.exporters[1].kind /\ exporters[1].config = S.exporters[1].config
    BY <1>4 DEF ExportsFit
  <2>2. CASE i = 1
    <3>1. exporters'[1] = x /\ Alike(exporters[1], x)
          /\ DOMAIN exporters[1].custom \subseteq DOMAIN x.custom
      BY <1>4, <2>1, <2>2
    <3>2. exporters'[1].kind = exporters[1].kind
          /\ DOMAIN exporters[1].custom \subseteq DOMAIN exporters'[1].custom
      BY <3>1 DEF Alike
    <3>3. \A e : Known(e) => Known(e)'
      BY <3>2 DEF Known
    <3>4. /\ {"kind", "config"} \subseteq DOMAIN exporters'[1]
          /\ exporters'[1].kind = S.exporters[1].kind /\ exporters'[1].config = S.exporters[1].config
      BY <2>1, <3>1 DEF Alike
    <3>5. QED BY <1>1, <1>2, <2>1, <3>3, <3>4 DEF ExportsFit, KnownKept
  <2>3. CASE i # 1
    <3>1. exporters'[1] = exporters[1]
      BY <2>1, <2>3
    <3>2. \A e : Known(e) => Known(e)'
      BY <3>1 DEF Known
    <3>3. QED BY <1>1, <1>2, <2>1, <3>1, <3>2 DEF ExportsFit, KnownKept
  <2>4. QED BY <2>2, <2>3
<1>5. QED BY <1>3, <1>4

LEMMA HookFacts ==
  ASSUME IInv, FitInv, NEW p \in Procs, HookStep(p)
  PROVE  /\ todo[p] # <<>> /\ It(p).step = "hook" /\ It(p) \in HookSteps /\ FitStep(It(p))
         /\ UNCHANGED <<scenario, Ever>> /\ S' = S /\ It(p).of.key \in Keys
<1>1. todo[p] # <<>> /\ It(p).step = "hook" /\ It(p) \in HookSteps /\ It(p) = todo[p][1]
  BY AtFacts, HeadFacts DEF HookStep
<1>2. todo[p] \in Seq(StepsOf(p))
  BY DEF IInv, TodoInv
<1>3. 1 \in 1..Len(todo[p])
  BY <1>1, <1>2, HeadTail
<1>4. FitStep(It(p))
  BY <1>1, <1>3 DEF FitInv
<1>5. It(p).of.key \in Keys
  <2>1. It(p).of \in Happenings
    BY <1>1 DEF HookSteps
  <2>2. QED BY <2>1 DEF Happenings, EvictedSteps, InvalidatedSteps
<1>6. UNCHANGED Ever
  BY EverKept DEF HookStep, counts
<1>7. QED BY <1>1, <1>4, <1>5, <1>6 DEF HookStep, S

\* one that counts
LEMMA CountsMove ==
  ASSUME IInv, AllExporters, FitInv, NEW p \in Procs, HookCounts(p)
  PROVE  (Acts(p) \/ Panics(p)) /\ ExportsFit' /\ KnownKept
<1>0. PICK h : h = It(p)
  OBVIOUS
<1> DEFINE a == h.atom
           i == h.i
           x == exporters[i]
           labels == LabelsOf(a, h.of)
           r == Custom(registry, x, a.kind, a.name, labels, 1)
           g == [h EXCEPT !.i = i + 1]
<1>1. /\ todo[p] # <<>> /\ h.step = "hook" /\ h \in HookSteps /\ FitStep(h)
      /\ UNCHANGED <<scenario, Ever>> /\ S' = S /\ a.does = "count" /\ UNCHANGED lines
      /\ a \in Atoms /\ i \in Nat /\ i # 0
  <2>1. HookStep(p) /\ a.does = "count" /\ UNCHANGED lines
    BY <1>0 DEF HookCounts
  <2>2. /\ todo[p] # <<>> /\ h.step = "hook" /\ h \in HookSteps /\ FitStep(h)
        /\ UNCHANGED <<scenario, Ever>> /\ S' = S
    BY <1>0, <2>1, HookFacts
  <2>3. QED BY <2>1, <2>2 DEF HookSteps, FitStep
<1>2. Fits(S, a) /\ (a.name \in S.counted /\ i # 1 => Known(a.name))
  BY <1>1 DEF FitStep
<1>3. \A e \in S.logged : h \notin LoggingSteps(e)
  BY <1>1 DEF LoggingSteps, LoggersOf
<1>4. \A e \in S.counted : h \in CountingSteps(e) <=> e = a.name /\ i = 1
  BY <1>1 DEF CountingSteps, CountersOf
<1>5. <<>> \in Seq(FreshSteps')
  OBVIOUS
<1>6. \A steps : Continue(p, steps) => todo'[p] = steps \o Tail(todo[p]) /\ OthersRest(p)
  BY ContinueIs
<1>7. CASE i \notin DOMAIN exporters
  <2>1. Continue(p, <<>>) /\ UNCHANGED <<exports, fate>>
    BY <1>0, <1>7 DEF HookCounts
  <2>2. S.counted # {} => i # 1
    BY <1>7 DEF FitInv, ExportsFit
  <2>3. \A e \in S.counted : h \notin CountingSteps(e)
    BY <1>4, <2>2
  <2>4. Acts(p)
    BY <1>0, <1>1, <1>3, <1>5, <1>6, <2>1, <2>3 DEF Acts, Seen, exports, fate
  <2>5. QED BY <1>1, <2>1, <2>4, ExportsStay DEF FitInv
<1>8. CASE i \in DOMAIN exporters
  <2>1. /\ registry' = r.reg /\ exporters' = [exporters EXCEPT ![i] = r.x]
        /\ \/ r.ends = "panic" /\ Panic(p)
           \/ r.ends = "ok" /\ Continue(p, <<g>>) /\ UNCHANGED fate
           \/ r.ends \notin {"ok", "panic"} /\ Continue(p, <<>>) /\ UNCHANGED fate
    BY <1>0, <1>8 DEF HookCounts
  <2>2. IsExporter(x)
    BY <1>8 DEF AllExporters
  <2>3. DOMAIN labels = LabelNames(a)
    BY DEF LabelsOf
  <2>4. g \in HookSteps /\ g.i = i + 1 /\ g.atom = a /\ g.step = "hook" /\ g.i # 1 /\ g.i # 0
    BY <1>1 DEF HookSteps
  <2>5. \A e : g \notin CountingSteps(e) /\ g \notin LoggingSteps(e)
    BY <1>1, <2>4 DEF CountingSteps, LoggingSteps, LoggersOf
  <2>6. g \in AllSteps /\ g \notin UNION Watched /\ ~(g \in UNION Watched)'
    BY <2>4, <2>5 DEF AllSteps, CallSteps, BareSteps, Watched
  <2> HIDE DEF r, g, labels
  <2>7. (a.name \in S.counted => Known(a.name)') => <<g>> \in Seq(FreshSteps')
    <3>1. SUFFICES ASSUME a.name \in S.counted => Known(a.name)'
                   PROVE  g \in FreshSteps'
      OBVIOUS
    <3>2. FitStep(g)'
      BY <1>1, <1>2, <2>4, <3>1 DEF FitStep
    <3>3. QED BY <2>6, <3>2 DEF FreshSteps
  <2>8. CASE S.counted = {}
    <3>1. ExportsFit' /\ KnownKept
      BY <1>1, <2>8 DEF ExportsFit, KnownKept
    <3>2. Panic(p) => Panics(p)
      BY <1>1, PanicsIs
    <3>3. ASSUME Continue(p, <<g>>) \/ Continue(p, <<>>), UNCHANGED fate
          PROVE  Acts(p)
      <4>1. PICK steps \in {<<g>>, <<>>} : Continue(p, steps)
        BY <3>3
      <4>2. steps \in Seq(FreshSteps')
        BY <1>5, <2>7, <2>8
      <4>3. QED BY <1>0, <1>1, <1>3, <1>6, <2>8, <3>3, <4>1, <4>2 DEF Acts, Seen, fate
    <3>4. QED BY <2>1, <3>1, <3>2, <3>3
  <2>9. CASE S.counted # {}
    <3>1. /\ 1 \in DOMAIN exporters /\ {"kind", "config"} \subseteq DOMAIN exporters[1]
          /\ exporters[1].config = S.exporters[1].config
          /\ \A d \in registry : d.name \in S.counted => Known(d.name)
      BY <2>9 DEF FitInv, ExportsFit
    <3>2. CASE i = 1
      <4>1. CustomAnswers(r, registry, x, a.kind, a.name, DOMAIN labels)
        BY <2>2, <3>1, <3>2, CustomIs DEF r
      <4>2. exporters'[1] = r.x /\ x = exporters[1]
        BY <2>1, <3>1, <3>2
      <4>3. a.name \in S.counted => a.kind = "counter" /\ LabelNames(a) \intersect DOMAIN x.config.labels = {}
        BY <1>1, <1>2, <3>1, <4>2 DEF Fits
      <4>4. a.name \in S.counted => r.ends # "error"
        <5>1. SUFFICES ASSUME a.name \in S.counted, r.ends = "error" PROVE FALSE
          OBVIOUS
        <5> DEFINE desc == [name |-> a.name, help |-> a.kind, const |-> x.config.labels,
                            names |-> LabelNames(a)]
        <5>2. /\ x.kind = "prometheus" /\ <<a.kind, a.name>> \notin DOMAIN x.custom
              /\ ~Registrable(registry, desc)
          BY <2>3, <4>1, <5>1 DEF CustomAnswers
        <5>3. ~Known(a.name)
          BY <4>2, <4>3, <5>1, <5>2 DEF Known
        <5>4. \A d \in registry : d.name # a.name
          BY <3>1, <5>1, <5>3
        <5>5. DOMAIN desc.const \intersect desc.names = {} /\ desc.name = a.name
          BY <4>3, <5>1
        <5> HIDE DEF desc
        <5>6. QED BY <5>2, <5>4, <5>5 DEF Registrable
      <4>5. \A d \in registry' : d \in registry \/ (d.name \in S.counted => Known(d.name)')
        BY <2>1, <4>1, <4>2, <4>3 DEF CustomAnswers, Known
      <4>6. ExportsFit' /\ KnownKept
        <5>1. exporters' = [exporters EXCEPT ![i] = r.x] /\ Alike(exporters[1], r.x)
              /\ DOMAIN exporters[1].custom \subseteq DOMAIN r.x.custom
          BY <2>1, <4>1, <4>2 DEF CustomAnswers
        <5>2. QED BY <1>1, <4>5, <5>1, ExportsChange DEF FitInv
      <4>7. CASE r.ends = "panic"
        <5>1. Panics(p)
          BY <1>1, <2>1, <4>7, PanicsIs
        <5>2. QED BY <4>6, <5>1
      <4>8. CASE r.ends = "ok"
        <5>1. Continue(p, <<g>>) /\ UNCHANGED fate
          BY <2>1, <4>8
        <5>2. a.name \in S.counted => Known(a.name)'
          BY <4>1, <4>2, <4>3, <4>8 DEF CustomAnswers, Known, Alike
        <5>3. \A e \in S.counted : Seen(p, CountingSteps(e), Exported(exporters[1], e),
                                        Exported(exporters'[1], e))
          BY <1>0, <1>4, <3>2, <4>1, <4>2, <4>3, <4>8 DEF CustomAnswers, Seen
        <5>4. Acts(p)
          BY <1>0, <1>1, <1>3, <1>6, <2>7, <5>1, <5>2, <5>3 DEF Acts, Seen, fate
        <5>5. QED BY <4>6, <5>4
      <4>9. CASE r.ends = "error"
        <5>1. Continue(p, <<>>) /\ UNCHANGED fate /\ exporters'[1] = exporters[1]
          BY <2>1, <4>1, <4>2, <4>9 DEF CustomAnswers
        <5>2. \A e \in S.counted : h \notin CountingSteps(e)
          BY <1>4, <4>4, <4>9
        <5>3. Acts(p)
          BY <1>0, <1>1, <1>3, <1>5, <1>6, <5>1, <5>2 DEF Acts, Seen, fate
        <5>4. QED BY <4>6, <5>3
      <4>10. QED BY <4>1, <4>7, <4>8, <4>9 DEF CustomAnswers
    <3>3. CASE i # 1
      <4>1. exporters'[1] = exporters[1]
        BY <2>1, <3>1, <3>3
      <4>2. a.name \in S.counted => Known(a.name)'
        BY <1>2, <3>3, <4>1 DEF Known
      <4>3. \A d \in registry' : d \in registry \/ d.name = a.name
        BY <2>1, CustomRegisters DEF r
      <4>4. \A d \in registry' : d \in registry \/ (d.name \in S.counted => Known(d.name)')
        BY <4>2, <4>3
      <4>5. ExportsFit' /\ KnownKept
        <5>1. exporters' = [exporters EXCEPT ![i] = r.x]
          BY <2>1
        <5>2. QED BY <1>1, <3>3, <4>4, <5>1, ExportsChange DEF FitInv
      <4>6. Panic(p) => Panics(p)
        BY <1>1, PanicsIs
      <4>7. ASSUME Continue(p, <<g>>) \/ Continue(p, <<>>), UNCHANGED fate
            PROVE  Acts(p)
        <5>1. PICK steps \in {<<g>>, <<>>} : Continue(p, steps)
          BY <4>7
        <5>2. steps \in Seq(FreshSteps')
          BY <1>5, <2>7, <4>2
        <5>3. \A e \in S.counted : h \notin CountingSteps(e)
          BY <1>4, <3>3
        <5>4. QED BY <1>0, <1>1, <1>3, <1>6, <4>1, <4>7, <5>1, <5>2, <5>3 DEF Acts, Seen, fate
      <4>8. QED BY <2>1, <4>5, <4>6, <4>7
    <3>4. QED BY <3>2, <3>3
  <2>10. QED BY <2>8, <2>9
<1>9. QED BY <1>7, <1>8

-----------------------------------------------------------------------------
(* Every step is one of these moves.                                       *)

Moved == Moves /\ ExportsFit' /\ KnownKept

LEMMA GoesOn ==
  ASSUME IInv, FitInv, NEW p \in Procs, todo[p] # <<>>, It(p).step # "hook",
         NEW steps \in Seq(SilentSteps),
         Continue(p, steps) \/ (todo'[p] = steps \o Tail(todo[p]) /\ OthersRest(p)),
         UNCHANGED <<scenario, Ever, panicked, lines, exports>>
  PROVE  Moved
<1>1. todo'[p] = steps \o Tail(todo[p]) /\ OthersRest(p)
  BY ContinueIs
<1>2. Acts(p)
  BY <1>1, ActsIs DEF exports
<1>3. QED BY <1>2, ExportsStay DEF Moved, Moves, FitInv

LEMMA GivesUp ==
  ASSUME IInv, FitInv, NEW p \in Procs, todo[p] # <<>>, Panic(p),
         UNCHANGED <<scenario, Ever, lines, exports>>
  PROVE  Moved
BY PanicsIs, ExportsStay DEF Moved, Moves, FitInv

LEMMA StartsAnew ==
  ASSUME IInv, FitInv, NEW p \in Procs, todo[p] = <<>>, NEW steps \in Seq(SilentSteps),
         todo' = [todo EXCEPT ![p] = steps],
         UNCHANGED <<scenario, Ever, panicked, lines, exports>>
  PROVE  Moved
<1>1. todo \in [Procs -> Seq(AllSteps)]
  BY DEF IInv, TodoInv
<1>2. steps \in Seq(FreshSteps')
  BY SilentFresh, SeqMonotonic
<1>3. \A q \in Procs : Rests(q)
  BY <1>1, <1>2 DEF Rests, Same
<1>4. QED BY <1>3, ExportsStay DEF Moved, Moves, Waits, FitInv, exports

LEMMA RestsAll ==
  ASSUME IInv, FitInv, UNCHANGED <<scenario, todo, Ever, panicked, lines, exports>>
  PROVE  Moved
<1>1. \A q \in Procs : Rests(q)
  BY DEF Rests, Same
<1>2. QED BY <1>1, ExportsStay DEF Moved, Moves, Waits, FitInv, exports

LEMMA LocksMoves == ASSUME IInv, FitInv, NEW p \in Procs, LockStep(p) PROVE Moved
<1>1. PICK x \in Locking \union Unlocking \union Linking : At(p, x)
  BY DEF LockStep, Lock, Unlock, Locking, Unlocking, Linking
<1>2. todo[p] # <<>> /\ It(p).step # "hook"
  BY <1>1, AtFacts DEF Locking, Unlocking, Linking
<1>3. <<>> \in Seq(SilentSteps) /\ Continue(p, <<>>)
      /\ UNCHANGED <<scenario, Ever, panicked, lines, exports>>
  BY EverKept DEF LockStep, counts, fate
<1>4. QED BY <1>2, <1>3, GoesOn

LEMMA LogsMoves == ASSUME IInv, FitInv, NEW p \in Procs, HookLogs(p) PROVE Moved
<1>0. PICK h : h = It(p)
  OBVIOUS
<1> DEFINE a == h.atom
           printed == LogLines(a, FromCache(h.of.key))
<1>1. HookStep(p) /\ a.does = "log" /\ UNCHANGED exports
  BY <1>0 DEF HookLogs
<1>2. /\ todo[p] # <<>> /\ h.step = "hook" /\ h \in HookSteps /\ FitStep(h)
      /\ UNCHANGED <<scenario, Ever>> /\ S' = S
  BY <1>0, <1>1, HookFacts
<1>3. a \in Atoms /\ a.event \in Events /\ Fits(S, a)
  BY <1>1, <1>2, AtomsKnown DEF HookSteps, FitStep
<1>4. ExportsFit' /\ KnownKept
  BY <1>1, <1>2, ExportsStay DEF FitInv
<1>5. CASE Panic(p) /\ UNCHANGED lines
  BY <1>1, <1>2, <1>5, GivesUp
<1>6. CASE /\ lines' = [lines EXCEPT ![a.event] = @ + Len(printed)]
           /\ Continue(p, <<>>) /\ UNCHANGED fate
  <2>1. a.event \in S.logged => Len(printed) = 1
    BY <1>1, <1>3 DEF Fits, LogLines, Log
  <2>2. \A e \in S.logged : h \in LoggingSteps(e) <=> e = a.event
    BY <1>1, <1>2, <1>3 DEF LoggingSteps, LoggersOf
  <2>3. \A e \in S.counted : h \notin CountingSteps(e)
    BY <1>1 DEF CountingSteps, CountersOf
  <2>4. todo'[p] = <<>> \o Tail(todo[p]) /\ OthersRest(p) /\ <<>> \in Seq(FreshSteps')
    <3>1. <<>> \in Seq(FreshSteps')
      OBVIOUS
    <3>2. todo'[p] = <<>> \o Tail(todo[p]) /\ OthersRest(p)
      BY <1>6, ContinueIs
    <3>3. QED BY <3>1, <3>2
  <2>5. lines \in [Events -> Nat] /\ S.logged \subseteq Events
    BY HeldFacts, ScenarioFacts
  <2> HIDE DEF printed, a
  <2>6. ASSUME NEW e \in S.logged
        PROVE  Seen(p, LoggingSteps(e), lines[e], lines'[e])
    <3>1. CASE e = a.event
      <4>1. lines'[e] = lines[e] + 1
        BY <1>6, <2>1, <2>5, <3>1
      <4>2. QED BY <1>0, <2>2, <3>1, <4>1 DEF Seen
    <3>2. CASE e # a.event
      <4>1. lines'[e] = lines[e]
        BY <1>6, <2>5, <3>2
      <4>2. QED BY <1>0, <2>2, <3>2, <4>1 DEF Seen
    <3>3. QED BY <3>1, <3>2
  <2>7. \A e \in S.counted :
          Seen(p, CountingSteps(e), Exported(exporters[1], e), Exported(exporters'[1], e))
    BY <1>0, <1>1, <2>3 DEF Seen, exports
  <2>8. Acts(p)
    BY <1>2, <1>6, <2>4, <2>6, <2>7 DEF Acts, fate
  <2>9. QED BY <1>4, <2>8 DEF Moved, Moves
<1>7. QED BY <1>0, <1>5, <1>6 DEF HookLogs

LEMMA CallsMoves == ASSUME IInv, FitInv, NEW p \in Procs, HookCalls(p) PROVE Moved
<1>0. PICK h : h = It(p)
  OBVIOUS
<1>1. HookStep(p) /\ h.atom.does = "call" /\ UNCHANGED <<exports, lines, fate>>
      /\ Continue(p, Plan(h.atom.op, h.of.key))
  BY <1>0 DEF HookCalls
<1>2. /\ todo[p] # <<>> /\ h \in HookSteps /\ UNCHANGED <<scenario, Ever>>
      /\ h.of.key \in Keys
  BY <1>0, <1>1, HookFacts
<1>3. Plan(h.atom.op, h.of.key) \in Seq(SilentSteps)
  <2>1. h.atom.op \in Operations
    BY <1>1, <1>2, AtomsKnown DEF HookSteps
  <2>2. QED BY <1>2, <2>1, PlanSilent
<1>4. Plan(h.atom.op, h.of.key) \in Seq(FreshSteps')
  BY <1>3, SilentFresh, SeqMonotonic
<1>5. \A e : h \notin LoggingSteps(e) /\ h \notin CountingSteps(e)
  BY <1>1 DEF LoggingSteps, CountingSteps, LoggersOf, CountersOf
<1>6. todo'[p] = Plan(h.atom.op, h.of.key) \o Tail(todo[p]) /\ OthersRest(p)
  BY <1>1, ContinueIs
<1>7. Acts(p)
  BY <1>0, <1>1, <1>2, <1>4, <1>5, <1>6 DEF Acts, Seen, exports, fate
<1>8. QED BY <1>1, <1>2, <1>7, ExportsStay DEF Moved, Moves, FitInv

LEMMA PanicsMoves == ASSUME IInv, FitInv, NEW p \in Procs, HookPanics(p) PROVE Moved
<1>1. HookStep(p) /\ Panic(p) /\ UNCHANGED <<exports, lines>>
  BY DEF HookPanics
<1>2. todo[p] # <<>> /\ UNCHANGED <<scenario, Ever>>
  BY <1>1, HookFacts
<1>3. QED BY <1>1, <1>2, GivesUp

\* an event and its hooks
LEMMA TellsIs ==
  ASSUME IInv, FitInv, NEW p \in Procs, todo[p] # <<>>, It(p).step # "hook",
         NEW e \in Events, NEW of \in Happenings, NEW before \in Seq(SilentSteps),
         NEW atoms \in Invoke(S.hooks, e, FromCache(of.key)),
         todo'[p] = (before \o HooksOn(atoms, of)) \o Tail(todo[p]), OthersRest(p), Count(e),
         UNCHANGED <<scenario, panicked, lines, exports, wiped>>
  PROVE  Moved
<1>1. It(p) \notin UNION Watched
  BY DEF Watched, LoggingSteps, CountingSteps, HookSteps
<1>2. Tells(p)
  BY <1>1, EverCounts DEF Tells, exports
<1>3. QED BY <1>2, ExportsStay DEF Moved, Moves, FitInv

LEMMA NotifyTells ==
  ASSUME IInv, FitInv, NEW p \in Procs, todo[p] # <<>>, It(p).step # "hook",
         NEW before \in Seq(SilentSteps), NEW e \in Events, It(p) \in Happenings,
         Notify(p, before, e, It(p), <<>>), Count(e),
         UNCHANGED <<scenario, panicked, lines, exports, wiped>>
  PROVE  Moved
<1>0. PICK h : h = It(p)
  OBVIOUS
<1>1. PICK atoms \in Invoke(S.hooks, e, FromCache(h.key)) :
        Continue(p, before \o HooksOn(atoms, h) \o <<>>)
  BY <1>0 DEF Notify, InvokeOnEvict, InvokeOnInvalidate, HooksOn
<1>2. HooksOn(atoms, h) \in Seq(AllSteps)
  <2>1. HooksOn(atoms, h) \in Seq(BareSteps)
    BY <1>0, HooksBare DEF HooksOn
  <2>2. QED BY <2>1, SeqMonotonic DEF AllSteps, CallSteps
<1>3. before \in Seq(AllSteps)
  BY SeqMonotonic DEF SilentSteps
<1>4. before \o HooksOn(atoms, h) \o <<>> = before \o HooksOn(atoms, h)
  <2>1. before \o HooksOn(atoms, h) \in Seq(AllSteps)
    BY <1>2, <1>3, ConcatProperties
  <2>2. QED BY <2>1, ConcatEmptySeq
<1>5. todo'[p] = (before \o HooksOn(atoms, h)) \o Tail(todo[p]) /\ OthersRest(p)
  BY <1>1, <1>4, ContinueIs
<1>6. QED BY <1>0, <1>5, TellsIs

LEMMA StoreSilent ==
  ASSUME IInv, FitInv, NEW p \in Procs, NEW x, StoreStep(p, x), x \notin {"hook", "export", "reporterDone"}
  PROVE  /\ todo[p] # <<>> /\ It(p).step # "hook"
         /\ UNCHANGED <<scenario, panicked, lines, exports, wiped>>
BY AtFacts DEF StoreStep, fate, history

LEMMA FindMoves == ASSUME IInv, FitInv, NEW p \in Procs, Find(p) PROVE Moved
<1>0. PICK h : h = It(p)
  OBVIOUS
<1>1. /\ todo[p] # <<>> /\ It(p).step # "hook" /\ h.key \in Keys /\ h \in Happenings
      /\ UNCHANGED <<scenario, panicked, lines, exports, wiped>>
  BY <1>0, StoreFacts, StoreSilent DEF Find
<1>2. <<>> \in Seq(SilentSteps)
  OBVIOUS
<1>3. CASE h.key \in live
  <2>1. Count("hit") /\ Notify(p, <<>>, "hit", h, <<>>)
    BY <1>0, <1>3 DEF Find
  <2>2. QED BY <1>0, <1>1, <1>2, <2>1, NotifyTells DEF Events
<1>4. CASE h.key \notin live
  <2>1. Count("miss")
    BY <1>0, <1>4 DEF Find
  <2>2. PICK atoms \in Invoke(S.hooks, "miss", FromCache(h.key)) :
          \/ StartRemover(h.key, Then(p, HooksOn(atoms, h)))
          \/ todo' = Then(p, HooksOn(atoms, h))
    BY <1>0, <1>4 DEF Find, HooksOn
  <2>3. HooksOn(atoms, h) \in Seq(BareSteps)
    BY <1>1, HooksBare DEF HooksOn, Events
  <2>4. <<>> \o HooksOn(atoms, h) = HooksOn(atoms, h)
    BY <2>3, ConcatEmptySeq
  <2>5. todo'[p] = HooksOn(atoms, h) \o Tail(todo[p]) /\ OthersRest(p)
    <3>1. CASE StartRemover(h.key, Then(p, HooksOn(atoms, h)))
      BY <1>1, <3>1, StartRests
    <3>2. CASE todo' = Then(p, HooksOn(atoms, h))
      BY <3>2, ContinueIs DEF Then, Continue
    <3>3. QED BY <2>2, <3>1, <3>2
  <2>6. todo'[p] = (<<>> \o HooksOn(atoms, h)) \o Tail(todo[p])
    BY <2>4, <2>5
  <2>7. QED BY <1>1, <1>2, <2>1, <2>5, <2>6, TellsIs DEF Events
<1>5. QED BY <1>3, <1>4

LEMMA PeekMoves == ASSUME IInv, FitInv, NEW p \in Procs, Peek(p) PROVE Moved
<1>1. /\ todo[p] # <<>> /\ It(p).step # "hook" /\ It(p).key \in Keys
      /\ UNCHANGED <<scenario, panicked, lines, exports, Ever>>
  BY StoreFacts, StoreSilent, EverKept DEF Peek, counts
<1>2. <<>> \in Seq(SilentSteps)
  OBVIOUS
<1>3. CASE StartRemover(It(p).key, Then(p, <<>>))
  <2>1. todo'[p] = <<>> \o Tail(todo[p]) /\ OthersRest(p)
    BY <1>1, <1>3, StartRests
  <2>2. QED BY <1>1, <1>2, <2>1, GoesOn
<1>4. CASE Continue(p, <<>>)
  BY <1>1, <1>2, <1>4, GoesOn
<1>5. QED BY <1>3, <1>4 DEF Peek

LEMMA NotifiedMoves ==
  ASSUME IInv, FitInv, NEW p \in Procs, NotifyEvicted(p) \/ NotifyInvalidated(p)
  PROVE  Moved
<1>1. <<>> \in Seq(SilentSteps)
  OBVIOUS
<1>2. CASE NotifyEvicted(p)
  <2>1. StoreStep(p, "evicted") /\ Count("evict") /\ Notify(p, <<>>, "evict", It(p), <<>>)
    BY <1>2 DEF NotifyEvicted
  <2>2. /\ todo[p] # <<>> /\ It(p).step # "hook" /\ It(p) \in Happenings
        /\ UNCHANGED <<scenario, panicked, lines, exports, wiped>>
    BY <2>1, StoreFacts, StoreSilent
  <2>3. QED BY <1>1, <2>1, <2>2, NotifyTells DEF Events
<1>3. CASE NotifyInvalidated(p)
  <2>0. PICK h : h = It(p)
    OBVIOUS
  <2>1. StoreStep(p, "invalidated") /\ Count("invalidate")
        /\ Notify(p, h.next, "invalidate", It(p), <<>>)
    BY <1>3, <2>0 DEF NotifyInvalidated
  <2>2. /\ todo[p] # <<>> /\ It(p).step = "invalidated" /\ It(p) \in Happenings
        /\ UNCHANGED <<scenario, panicked, lines, exports, wiped>>
    BY <2>1, StoreFacts, StoreSilent
  <2>3. h.next \in Seq(SilentSteps)
    <3>1. h \in InvalidatedSteps
      BY <2>0, <2>2, HeadFacts
    <3>2. h.next \in {<<>>, Do("count")}
      BY <3>1 DEF InvalidatedSteps
    <3>3. Do("count") \in Seq(SilentSteps)
      BY DoSilent DEF BareKinds
    <3>4. QED BY <1>1, <3>2, <3>3
  <2>4. It(p).step # "hook"
    BY <2>2
  <2>5. QED BY <2>1, <2>2, <2>3, <2>4, NotifyTells DEF Events
<1>4. QED BY <1>2, <1>3

\* steps over each of some keys
LEMMA EachSilent ==
  ASSUME IInv, NEW K, K \subseteq Keys, NEW s \in SetToSeqs(K), NEW f, DOMAIN f = DOMAIN s,
         f = [i \in DOMAIN f |-> f[i]],
         \A i \in DOMAIN s : s[i] \in Keys => f[i] \in Seq(SilentSteps)
  PROVE  FlattenSeq(f) \in Seq(SilentSteps)
<1>1. s \in Seq(Keys) /\ \A i \in DOMAIN s : s[i] \in Keys
  BY SeqsOver
<1>2. \A i \in DOMAIN s : f[i] \in Seq(SilentSteps)
  BY <1>1
<1>3. QED BY <1>1, <1>2, EachType

LEMMA StoreMoves ==
  ASSUME IInv, FitInv, NEW p \in Procs,
         Add1(p) \/ Remove1(p) \/ Collect(p) \/ Purge(p) \/ ListKeys(p) \/ DebugKeys(p) \/ CountKeys(p)
  PROVE  Moved
<1>1. PICK x \in {"add", "remove", "collect", "purge", "keys", "debugKeys", "count", "len"} : StoreStep(p, x)
  BY DEF Add1, Remove1, Collect, Purge, ListKeys, DebugKeys, CountKeys
<1>2. /\ todo[p] # <<>> /\ It(p).step # "hook"
      /\ UNCHANGED <<scenario, panicked, lines, exports, wiped>>
  BY <1>1, StoreSilent
<1>3. UNCHANGED stats
  BY DEF Add1, Remove1, Collect, Purge, ListKeys, DebugKeys, CountKeys, counts
<1>4. <<>> \in Seq(SilentSteps)
  OBVIOUS
<1>5. live \subseteq Keys /\ Held \subseteq Keys /\ stale \subseteq Keys
  BY HeldFacts DEF Held
<1>6. /\ \A k \in Keys, r \in EvictReasons : Evicted(k, r) \in Seq(SilentSteps)
      /\ \A k \in Keys : Callback(k) \in Seq(SilentSteps)
      /\ \A k \in Keys : Invalidated(k, <<>>) \in Seq(SilentSteps)
      /\ \A k \in Keys : With1("peek", k) \in Seq(SilentSteps)
      /\ Do("collect") \in Seq(SilentSteps) /\ Do("purge") \in Seq(SilentSteps)
      /\ Do("count") \in Seq(SilentSteps)
  BY SilentFacts, DoSilent DEF BareKinds
<1>7. \E steps \in Seq(SilentSteps) : Continue(p, steps)
  <2>1. CASE Add1(p)
    <3>1. Continue(p, <<>>)
          \/ \E v \in Held : Continue(p, Evicted(v, IF S.strategy THEN "Capacity" ELSE "LRU"))
      BY <2>1 DEF Add1
    <3>2. QED BY <1>4, <1>5, <1>6, <3>1 DEF EvictReasons
  <2>2. CASE Remove1(p)
    <3>1. Continue(p, Callback(It(p).key)) \/ Continue(p, <<>>)
      BY <2>2 DEF Remove1
    <3>2. It(p).key \in Keys
      BY <2>2, StoreFacts DEF Remove1
    <3>3. QED BY <1>4, <1>6, <3>1, <3>2
  <2>3. CASE Collect(p)
    <3>1. CASE Continue(p, <<>>)
      BY <1>4, <3>1
    <3>2. ASSUME NEW k \in stale, Continue(p, Callback(k) \o Evicted(k, "TTL") \o Do("collect"))
          PROVE  \E steps \in Seq(SilentSteps) : Continue(p, steps)
      <4>1. Callback(k) \in Seq(SilentSteps) /\ Evicted(k, "TTL") \in Seq(SilentSteps)
        BY <1>5, <1>6 DEF EvictReasons
      <4>2. Callback(k) \o Evicted(k, "TTL") \in Seq(SilentSteps)
        BY <4>1, ConcatProperties
      <4>3. Callback(k) \o Evicted(k, "TTL") \o Do("collect") \in Seq(SilentSteps)
        BY <1>6, <4>2, ConcatProperties
      <4>4. QED BY <3>2, <4>3
    <3>3. QED BY <2>3, <3>1, <3>2 DEF Collect
  <2>4. CASE Purge(p)
    <3>1. PICK s \in SetToSeqs(Held) : Continue(p, FlattenSeq([i \in DOMAIN s |-> Callback(s[i])]))
      BY <2>4 DEF Purge, Each
    <3> DEFINE f == [i \in DOMAIN s |-> Callback(s[i])]
    <3>2. DOMAIN f = DOMAIN s /\ f = [i \in DOMAIN f |-> f[i]]
          /\ \A i \in DOMAIN s : s[i] \in Keys => f[i] \in Seq(SilentSteps)
      BY <1>6
    <3> HIDE DEF f
    <3>3. FlattenSeq(f) \in Seq(SilentSteps)
      BY <1>5, <3>2, EachSilent
    <3>4. QED BY <3>1, <3>3 DEF f
  <2>5. CASE ListKeys(p)
    <3>1. PICK s \in SetToSeqs(live) :
            Continue(p, UnderStore(Do("purge"))
                        \o FlattenSeq([i \in DOMAIN s |-> Invalidated(s[i], <<>>)]) \o Do("count"))
      BY <2>5 DEF ListKeys, Each
    <3> DEFINE f == [i \in DOMAIN s |-> Invalidated(s[i], <<>>)]
    <3>2. DOMAIN f = DOMAIN s /\ f = [i \in DOMAIN f |-> f[i]]
          /\ \A i \in DOMAIN s : s[i] \in Keys => f[i] \in Seq(SilentSteps)
      BY <1>6
    <3> HIDE DEF f
    <3>3. FlattenSeq(f) \in Seq(SilentSteps)
      BY <1>5, <3>2, EachSilent
    <3>4. UnderStore(Do("purge")) \in Seq(SilentSteps)
      BY <1>6, UnderSilent
    <3>5. UnderStore(Do("purge")) \o FlattenSeq(f) \in Seq(SilentSteps)
      BY <3>3, <3>4, ConcatProperties
    <3>6. UnderStore(Do("purge")) \o FlattenSeq(f) \o Do("count") \in Seq(SilentSteps)
      BY <1>6, <3>5, ConcatProperties
    <3>7. QED BY <3>1, <3>6 DEF f
  <2>6. CASE DebugKeys(p)
    <3>1. PICK s \in SetToSeqs(live) : Continue(p, FlattenSeq([i \in DOMAIN s |-> With1("peek", s[i])]))
      BY <2>6 DEF DebugKeys, Each
    <3> DEFINE f == [i \in DOMAIN s |-> With1("peek", s[i])]
    <3>2. DOMAIN f = DOMAIN s /\ f = [i \in DOMAIN f |-> f[i]]
          /\ \A i \in DOMAIN s : s[i] \in Keys => f[i] \in Seq(SilentSteps)
      BY <1>6
    <3> HIDE DEF f
    <3>3. FlattenSeq(f) \in Seq(SilentSteps)
      BY <1>5, <3>2, EachSilent
    <3>4. QED BY <3>1, <3>3 DEF f
  <2>7. CASE CountKeys(p)
    BY <1>4, <2>7 DEF CountKeys
  <2>8. QED BY <2>1, <2>2, <2>3, <2>4, <2>5, <2>6, <2>7
<1>8. QED BY <1>2, <1>3, <1>7, EverKept, GoesOn

\* what leaves the counts of the events alone
LEMMA ExporterMoves ==
  ASSUME IInv, AllExporters, FitInv, NEW p \in Procs, todo[p] # <<>>, It(p).step # "hook",
         NEW steps \in Seq(SilentSteps), Continue(p, steps),
         UNCHANGED <<scenario, Ever, panicked, lines, registry>>, NEW i, NEW x,
         exporters' = [exporters EXCEPT ![i] = x],
         i \in DOMAIN exporters /\ {"kind", "config"} \subseteq DOMAIN exporters[i]
           => Unchanged(exporters[i], x)
  PROVE  Moved
<1>1. todo'[p] = steps \o Tail(todo[p]) /\ OthersRest(p)
  BY ContinueIs
<1>2. S.counted # {} => 1 \in DOMAIN exporters /\ {"kind", "config"} \subseteq DOMAIN exporters[1]
  BY DEF FitInv, ExportsFit
<1>3. S.counted # {} /\ i = 1 =>
        Alike(exporters[1], x) /\ DOMAIN exporters[1].custom \subseteq DOMAIN x.custom
  BY <1>2 DEF Unchanged
<1>4. \A e \in S.counted : Exported(exporters'[1], e) = Exported(exporters[1], e)
  <2>1. SUFFICES ASSUME NEW e \in S.counted
                 PROVE  Exported(exporters'[1], e) = Exported(exporters[1], e)
    OBVIOUS
  <2>2. e \in Events /\ 1 \in DOMAIN exporters
    BY <1>2, ScenarioFacts
  <2>3. CASE i = 1
    <3>1. Unchanged(exporters[1], x) /\ exporters'[1] = x
      BY <1>2, <2>2, <2>3
    <3>2. QED BY <2>2, <3>1 DEF Unchanged
  <2>4. CASE i # 1
    <3>1. exporters'[1] = exporters[1]
      BY <2>2, <2>4
    <3>2. QED BY <3>1
  <2>5. QED BY <2>3, <2>4
<1>5. ExportsFit' /\ KnownKept
  BY <1>3, ExportsChange DEF FitInv
<1>6. Acts(p)
  BY <1>1, <1>4, ActsIs
<1>7. QED BY <1>5, <1>6 DEF Moved, Moves

LEMMA ExportMoves ==
  ASSUME IInv, AllExporters, FitInv, NEW p \in Procs, ExportStat(p)
  PROVE  Moved
<1>0. PICK h : h = It(p)
  OBVIOUS
<1> DEFINE x == Export(exporters[h.i], h.name, StatOf(h.name), S.labels)
<1>1. /\ todo[p] # <<>> /\ It(p).step = "export" /\ Continue(p, <<>>)
      /\ exporters' = [exporters EXCEPT ![h.i] = x]
      /\ UNCHANGED <<scenario, Ever, panicked, lines, registry>>
  BY <1>0, AtFacts, EverKept DEF ExportStat, ExportStep, counts, fate, history
<1>2. StatOf(h.name) \in Nat
  BY <1>0, StatOfType
<1>3. h.name \notin Events
  <2>1. h \in ExportSteps /\ h.step = "export"
    BY <1>0, <1>1, HeadFacts
  <2>2. QED BY <2>1 DEF ExportSteps, Events
<1>4. h.i \in DOMAIN exporters /\ {"kind", "config"} \subseteq DOMAIN exporters[h.i]
        => Unchanged(exporters[h.i], x)
  BY <1>2, <1>3, ExportUnchanged DEF AllExporters
<1>5. <<>> \in Seq(SilentSteps) /\ It(p).step # "hook"
  BY <1>1
<1> HIDE DEF x
<1>6. QED BY <1>1, <1>4, <1>5, ExporterMoves

LEMMA RecordMoves ==
  ASSUME IInv, AllExporters, FitInv, NEW p \in Procs, RecordOperation(p)
  PROVE  Moved
<1>0. PICK h : h = It(p)
  OBVIOUS
<1> DEFINE x == Record(exporters[h.i], h.op, S.labels)
           g == [h EXCEPT !.i = h.i + 1]
<1>1. /\ todo[p] # <<>> /\ h.step = "record"
      /\ UNCHANGED <<scenario, Ever, panicked, lines, registry>>
      /\ \/ exporters' = [exporters EXCEPT ![h.i] = x] /\ Continue(p, <<g>>)
         \/ UNCHANGED exporters /\ Continue(p, <<>>)
  BY <1>0, AtFacts, EverKept DEF RecordOperation, ExportStep, counts, fate, history
<1>2. g \in SilentSteps
  <2>1. h \in RecordSteps
    BY <1>0, <1>1, HeadFacts
  <2>2. g \in RecordSteps /\ g.step = "record"
    BY <2>1 DEF RecordSteps
  <2>3. QED BY <2>2 DEF SilentSteps, AllSteps, CallSteps, BareSteps
<1>3. h.i \in DOMAIN exporters /\ {"kind", "config"} \subseteq DOMAIN exporters[h.i]
        => Unchanged(exporters[h.i], x)
  BY RecordUnchanged DEF AllExporters
<1> HIDE DEF x, g
<1>4. <<g>> \in Seq(SilentSteps) /\ <<>> \in Seq(SilentSteps)
  BY <1>2
<1>5. It(p).step # "hook"
  BY <1>0, <1>1
<1>6. CASE exporters' = [exporters EXCEPT ![h.i] = x] /\ Continue(p, <<g>>)
  BY <1>1, <1>3, <1>4, <1>5, <1>6, ExporterMoves
<1>7. CASE UNCHANGED exporters /\ Continue(p, <<>>)
  BY <1>1, <1>4, <1>5, <1>7, GoesOn DEF exports
<1>8. QED BY <1>1, <1>6, <1>7

LEMMA CloseMoves ==
  ASSUME IInv, FitInv, NEW p \in Procs,
         Stop(p) \/ Wait(p) \/ CloseExporter(p) \/ CloseStore(p) \/ ReadStat(p)
  PROVE  Moved
<1>1. PICK x \in {"stop", "wait", "closeExporter", "closeStore", "read"} : At(p, x)
  BY DEF Stop, Wait, CloseExporter, CloseStore, ReadStat, ExportStep
<1>2. todo[p] # <<>> /\ It(p).step # "hook"
  BY <1>1, AtFacts
<1>3. UNCHANGED <<scenario, Ever, lines, exports>>
  <2>1. UNCHANGED <<scenario, stats, wiped, lines, exports>>
    BY DEF Stop, Wait, CloseExporter, CloseStore, ReadStat, ExportStep, counts, history
  <2>2. QED BY <2>1, EverKept
<1>4. \/ Panic(p)
      \/ UNCHANGED fate /\ \E steps \in {<<>>, UnderStore(Do("purge"))} : Continue(p, steps)
  BY DEF Stop, Wait, CloseExporter, CloseStore, ReadStat
<1>5. <<>> \in Seq(SilentSteps) /\ UnderStore(Do("purge")) \in Seq(SilentSteps)
  <2>1. Do("purge") \in Seq(SilentSteps)
    BY DoSilent DEF BareKinds
  <2>2. UnderStore(Do("purge")) \in Seq(SilentSteps)
    BY <2>1, UnderSilent
  <2>3. QED BY <2>2
<1>6. CASE Panic(p)
  BY <1>2, <1>3, <1>6, GivesUp
<1>7. CASE UNCHANGED fate /\ \E steps \in {<<>>, UnderStore(Do("purge"))} : Continue(p, steps)
  <2>1. PICK steps \in {<<>>, UnderStore(Do("purge"))} : Continue(p, steps)
    BY <1>7
  <2>2. steps \in Seq(SilentSteps)
    BY <1>5
  <2>3. QED BY <1>2, <1>3, <1>7, <2>1, <2>2, GoesOn DEF fate
<1>8. QED BY <1>4, <1>6, <1>7

LEMMA ResetMoves == ASSUME IInv, FitInv, NEW p \in Procs, ResetStat(p) PROVE Moved
<1>1. todo[p] # <<>> /\ It(p).step # "hook"
  BY ResetFacts
<1>2. <<>> \in Seq(SilentSteps) /\ Continue(p, <<>>)
      /\ UNCHANGED <<scenario, panicked, lines, exports>>
  BY DEF ResetStat, fate
<1>3. UNCHANGED Ever
  <2>1. ASSUME NEW f \in DOMAIN Zero
        PROVE  stats'[f] + wiped'[f] = stats[f] + wiped[f]
    <3>1. stats[f] \in Nat /\ wiped[f] \in Nat
      BY HeldFacts
    <3>2. \/ stats'[f] = stats[f] /\ wiped'[f] = wiped[f]
          \/ stats'[f] = 0 /\ wiped'[f] = wiped[f] + stats[f]
      BY ResetFacts
    <3>3. QED BY <3>1, <3>2
  <2>2. QED BY <2>1 DEF Ever, Counted, Zero
<1>4. QED BY <1>1, <1>2, <1>3, GoesOn

LEMMA ReporterSilent ==
  /\ ExportOnly \subseteq SilentSteps /\ Do("reporterDone") \in Seq(SilentSteps)
  /\ \A f \in Range(DebugOrder) : [step |-> "read", field |-> f] \in SilentSteps
  /\ Do("debugKeys") \in Seq(SilentSteps)
<1>1. ExportOnly \subseteq SilentSteps /\ [step |-> "reporterDone"] \in SilentSteps
  BY DEF ExportOnly, ExportSteps, AllSteps, SilentSteps
<1>2. /\ \A f \in Range(DebugOrder) : [step |-> "read", field |-> f] \in SilentSteps
      /\ [step |-> "debugKeys"] \in SilentSteps
  BY DEF ReadSteps, AllSteps, SilentSteps
<1>3. \A x : [step |-> x] \in SilentSteps => <<[step |-> x]>> \in Seq(SilentSteps)
  OBVIOUS
<1>4. QED BY <1>1, <1>2, <1>3 DEF Do

LEMMA ReporterActs ==
  ASSUME IInv, FitInv, ReporterTick \/ ReporterStop \/ ReporterDone
  PROVE  Moved
<1>1. Reporter \in Procs /\ ExportPlan \in Seq(SilentSteps) /\ <<>> \in Seq(SilentSteps)
  <2>1. ExportPlan \in Seq(SilentSteps)
    BY ExportPlanType, ReporterSilent, SeqMonotonic
  <2>2. QED BY <2>1 DEF Procs
<1>2. CASE ReporterTick
  <2>1. /\ todo[Reporter] = <<>> /\ todo' = [todo EXCEPT ![Reporter] = ExportPlan]
        /\ UNCHANGED <<scenario, Ever, panicked, lines, exports>>
    BY <1>2, EverKept DEF ReporterTick, counts, fate, history
  <2>2. QED BY <1>1, <2>1, StartsAnew
<1>3. CASE ReporterStop
  <2>1. /\ todo[Reporter] = <<>>
        /\ todo' = [todo EXCEPT ![Reporter] = ExportPlan \o Do("reporterDone")]
        /\ UNCHANGED <<scenario, Ever, panicked, lines, exports>>
    BY <1>3, EverKept DEF ReporterStop, counts, fate, history
  <2>2. ExportPlan \o Do("reporterDone") \in Seq(SilentSteps)
    BY <1>1, ReporterSilent, ConcatProperties
  <2>3. QED BY <1>1, <2>1, <2>2, StartsAnew
<1>4. CASE ReporterDone
  <2>1. /\ At(Reporter, "reporterDone") /\ Continue(Reporter, <<>>)
        /\ UNCHANGED <<scenario, Ever, panicked, lines, exports>>
    BY <1>4, EverKept DEF ReporterDone, ExportStep, counts, fate, history
  <2>2. todo[Reporter] # <<>> /\ It(Reporter).step # "hook"
    BY <1>1, <2>1, AtFacts
  <2>3. QED BY <1>1, <2>1, <2>2, GoesOn
<1>5. QED BY <1>2, <1>3, <1>4

LEMMA LaunchMoves ==
  ASSUME IInv, FitInv, NEW p \in Procs, NEW steps \in Seq(SilentSteps), Launch(p, steps)
  PROVE  Moved
<1>1. /\ todo[p] = <<>> /\ todo' = [todo EXCEPT ![p] = steps]
      /\ UNCHANGED <<scenario, Ever, panicked, lines, exports>>
  BY EverKept DEF Launch, counts, fate, history
<1>2. QED BY <1>1, StartsAnew

LEMMA OtherMoves ==
  ASSUME IInv, FitInv,
         \/ \E c \in Callers, k \in Keys, op \in S.ops : Call(c, op, k)
         \/ DebugRequest \/ JanitorTick \/ \E k \in Keys : Expire(k)
  PROVE  Moved
<1>1. ASSUME NEW c \in Callers, NEW k \in Keys, NEW op \in S.ops, Call(c, op, k)
      PROVE  Moved
  <2>1. c \in Procs /\ Launch(c, Plan(op, k)) /\ op \in Operations
    BY <1>1, ScenarioFacts DEF Call, Procs
  <2>2. Plan(op, k) \in Seq(SilentSteps)
    BY <2>1, PlanSilent
  <2>3. QED BY <2>1, <2>2, LaunchMoves
<1>2. CASE DebugRequest
  <2> DEFINE reads == [i \in DOMAIN DebugOrder |-> [step |-> "read", field |-> DebugOrder[i]]]
             under == UnderRead(Do("debugKeys"))
  <2>1. Debugger \in Procs /\ Launch(Debugger, reads \o under)
    BY <1>2 DEF DebugRequest, Procs
  <2>2. reads \in Seq(SilentSteps)
    <3>1. DOMAIN DebugOrder = 1..6 /\ Range(DebugOrder) = {DebugOrder[i] : i \in 1..6}
      BY DEF DebugOrder, Range
    <3>2. \A i \in 1..6 : [step |-> "read", field |-> DebugOrder[i]] \in SilentSteps
      BY <3>1, ReporterSilent
    <3>3. reads \in [1..6 -> SilentSteps] /\ 6 \in Nat
      BY <3>1, <3>2
    <3> HIDE DEF reads
    <3>4. QED BY <3>3, IndexedIsSeq
  <2>3. under \in Seq(SilentSteps)
    BY ReporterSilent, UnderSilent
  <2> HIDE DEF reads, under
  <2>4. reads \o under \in Seq(SilentSteps)
    BY <2>2, <2>3, ConcatProperties
  <2>5. QED BY <2>1, <2>4, LaunchMoves
<1>3. CASE JanitorTick
  <2>1. Do("collect") \in Seq(SilentSteps)
    BY DoSilent DEF BareKinds
  <2>2. UnderStore(Do("collect")) \in Seq(SilentSteps)
    BY <2>1, UnderSilent
  <2>3. Janitor \in Procs /\ Launch(Janitor, UnderStore(Do("collect")))
    BY <1>3 DEF JanitorTick, Procs
  <2>4. QED BY <2>2, <2>3, LaunchMoves
<1>4. CASE \E k \in Keys : Expire(k)
  <2>1. UNCHANGED <<scenario, todo, Ever, panicked, lines, exports>>
    BY <1>4, EverKept DEF Expire, counts, fate, history
  <2>2. QED BY <2>1, RestsAll
<1>5. QED BY <1>1, <1>2, <1>3, <1>4

LEMMA AllMove ==
  ASSUME IInv, AllExporters, FitInv, [Next]_vars
  PROVE  Moved
<1>1. ASSUME NEW p \in Procs, Step(p)
      PROVE  Moved
  <2>1. CASE HookLogs(p) \/ HookCalls(p) \/ HookPanics(p)
    BY <2>1, LogsMoves, CallsMoves, PanicsMoves
  <2>2. CASE HookCounts(p)
    BY <2>2, CountsMove DEF Moved, Moves
  <2>3. CASE LockStep(p) \/ Find(p) \/ Peek(p) \/ NotifyEvicted(p) \/ NotifyInvalidated(p)
    BY <2>3, LocksMoves, FindMoves, PeekMoves, NotifiedMoves
  <2>4. CASE Add1(p) \/ Remove1(p) \/ Collect(p) \/ Purge(p) \/ ListKeys(p) \/ DebugKeys(p) \/ CountKeys(p)
    BY <2>4, StoreMoves
  <2>5. CASE ExportStat(p) \/ RecordOperation(p)
    BY <2>5, ExportMoves, RecordMoves
  <2>6. CASE Stop(p) \/ Wait(p) \/ CloseExporter(p) \/ CloseStore(p) \/ ReadStat(p)
    BY <2>6, CloseMoves
  <2>7. CASE ResetStat(p)
    BY <2>7, ResetMoves
  <2>8. QED BY <1>1, <2>1, <2>2, <2>3, <2>4, <2>5, <2>6, <2>7 DEF Step
<1>2. CASE ReporterTick \/ ReporterStop \/ ReporterDone
  BY <1>2, ReporterActs
<1>3. CASE \/ \E c \in Callers, k \in Keys, op \in S.ops : Call(c, op, k)
           \/ DebugRequest \/ JanitorTick \/ \E k \in Keys : Expire(k)
  BY <1>3, OtherMoves
<1>4. CASE UNCHANGED vars
  <2>1. UNCHANGED <<scenario, todo, Ever, panicked, lines, exports>>
    BY <1>4, EverKept DEF vars, counts, fate, history
  <2>2. QED BY <2>1, RestsAll
<1>5. QED BY <1>1, <1>2, <1>3, <1>4 DEF Next

-----------------------------------------------------------------------------
(* The hooks of an event, as steps.                                        *)

LEMMA HooksOnAre ==
  ASSUME IInv, NEW e \in Events, NEW of \in Happenings,
         NEW atoms \in Invoke(S.hooks, e, FromCache(of.key))
  PROVE  /\ atoms \in Seq({a \in Atoms : Fits(S, a)})
         /\ HooksOn(atoms, of) \in Seq(HookSteps) /\ Len(HooksOn(atoms, of)) = Len(atoms)
         /\ \A i \in 1..Len(atoms) :
              /\ atoms[i] \in Atoms /\ Fits(S, atoms[i])
              /\ HooksOn(atoms, of)[i] = [step |-> "hook", atom |-> atoms[i], of |-> of, i |-> 1]
<1> DEFINE F == {a \in Atoms : Fits(S, a)}
<1>1. S.hooks \in HooksOf(F)
  BY ScenarioFacts
<1> DEFINE o == FromCache(of.key)
<1>2. atoms \in Invoke(S.hooks, e, o)
  OBVIOUS
<1> HIDE DEF o, F
<1>3. atoms \in Seq(F)
  BY <1>1, <1>2, InvokeType
<1>4. Len(atoms) \in Nat /\ DOMAIN atoms = 1..Len(atoms) /\ \A i \in 1..Len(atoms) : atoms[i] \in F
  BY <1>3
<1>5. \A i \in 1..Len(atoms) : atoms[i] \in Atoms /\ Fits(S, atoms[i])
  BY <1>4 DEF F
<1> DEFINE h == HooksOn(atoms, of)
<1>6. \A i \in 1..Len(atoms) : [step |-> "hook", atom |-> atoms[i], of |-> of, i |-> 1] \in HookSteps
  BY <1>5 DEF HookSteps
<1>7. h \in [1..Len(atoms) -> HookSteps]
  BY <1>4, <1>6 DEF HooksOn
<1>8. \A i \in 1..Len(atoms) : h[i] = [step |-> "hook", atom |-> atoms[i], of |-> of, i |-> 1]
  BY <1>4 DEF HooksOn
<1> HIDE DEF h
<1>9. h \in Seq(HookSteps) /\ Len(h) = Len(atoms)
  BY <1>4, <1>7, IndexedIsSeq
<1>10. QED BY <1>3, <1>5, <1>8, <1>9 DEF h, F

LEMMA AlikeParts ==
  ASSUME NEW s, NEW t, Len(t) = Len(s), NEW A, NEW B, NEW C, NEW D,
         \A i \in 1..Len(s) : (t[i] \in C <=> s[i] \in A) /\ (t[i] \in D <=> s[i] \in B)
  PROVE  /\ None(s, A) => None(t, C)
         /\ Sole(s, A) => Sole(t, C)
         /\ InOrder(s, A, B) => InOrder(t, C, D)
<1>1. None(s, A) => None(t, C)
  BY DEF None
<1>2. Sole(s, A) => Sole(t, C)
  BY DEF Sole
<1>3. InOrder(s, A, B) => InOrder(t, C, D)
  BY DEF InOrder
<1>4. QED BY <1>1, <1>2, <1>3

\* of an event that is counted there is one counting hook, and before the logging one
LEMMA EventHooks ==
  ASSUME IInv, NEW e \in Events, NEW of \in Happenings,
         NEW atoms \in Invoke(S.hooks, e, FromCache(of.key))
  PROVE  /\ \A f \in S.counted : IF f = e THEN Sole(HooksOn(atoms, of), CountingSteps(f))
                                          ELSE None(HooksOn(atoms, of), CountingSteps(f))
         /\ \A f \in S.logged : IF f = e THEN Sole(HooksOn(atoms, of), LoggingSteps(f))
                                         ELSE None(HooksOn(atoms, of), LoggingSteps(f))
         /\ \A f \in S.counted \intersect S.logged :
              Covers(HooksOn(atoms, of), LoggingSteps(f), CountingSteps(f))
<1> DEFINE F == {a \in Atoms : Fits(S, a)}
           k == of.key
           h == HooksOn(atoms, of)
<1>1. k \in Keys
  BY DEF Happenings, EvictedSteps, InvalidatedSteps
<1>2. S.hooks \in HooksOf(F) /\ S.counted \subseteq Events /\ S.logged \subseteq Events
      /\ scenario \in DOMAIN Scenarios
  BY ScenarioFacts DEF IInv, StateInv, TypeOK
<1>3. atoms \in Invoke(S.hooks, e, FromCache(k))
  OBVIOUS
<1>4. /\ h \in Seq(HookSteps) /\ Len(h) = Len(atoms)
      /\ \A i \in 1..Len(atoms) :
           h[i] = [step |-> "hook", atom |-> atoms[i], of |-> of, i |-> 1]
  BY HooksOnAre
<1> HIDE DEF F, k, h
<1>5. ASSUME NEW A, NEW B
      PROVE  /\ IdleBut(S.hooks[e], 0, A) => None(atoms, A)
             /\ \A i : Does(S.hooks[e], i, A) => Sole(atoms, A)
             /\ \A i, j : /\ Does(S.hooks[e], i, A) /\ Does(S.hooks[e], j, B)
                          /\ S.hooks[e].ctxPriority[i].priority > S.hooks[e].ctxPriority[j].priority
                          => InOrder(atoms, A, B)
  BY <1>1, <1>2, <1>3, InvokeParts
<1>6. ASSUME NEW i \in 1..Len(atoms), NEW f
      PROVE  /\ h[i] \in CountingSteps(f) <=> atoms[i] \in CountersOf(f)
             /\ h[i] \in LoggingSteps(f) <=> atoms[i] \in LoggersOf(f)
  <2>1. h[i] \in HookSteps
    BY <1>4
  <2>2. h[i] = [step |-> "hook", atom |-> atoms[i], of |-> of, i |-> 1]
    BY <1>4
  <2>3. h[i].atom = atoms[i] /\ h[i].i = 1
    BY <2>2
  <2>4. QED BY <2>1, <2>3 DEF CountingSteps, LoggingSteps
<1>7. ASSUME NEW f
      PROVE  /\ None(atoms, CountersOf(f)) => None(h, CountingSteps(f))
             /\ Sole(atoms, CountersOf(f)) => Sole(h, CountingSteps(f))
             /\ None(atoms, LoggersOf(f)) => None(h, LoggingSteps(f))
             /\ Sole(atoms, LoggersOf(f)) => Sole(h, LoggingSteps(f))
             /\ InOrder(atoms, CountersOf(f), LoggersOf(f)) =>
                  InOrder(h, CountingSteps(f), LoggingSteps(f))
  <2> DEFINE A == CountersOf(f)  B == LoggersOf(f)  C == CountingSteps(f)  D == LoggingSteps(f)
  <2>1. \A i \in 1..Len(atoms) : (h[i] \in C <=> atoms[i] \in A) /\ (h[i] \in D <=> atoms[i] \in B)
    BY <1>6
  <2> HIDE DEF A, B, C, D
  <2>2. /\ None(atoms, A) => None(h, C)
        /\ Sole(atoms, A) => Sole(h, C)
        /\ InOrder(atoms, A, B) => InOrder(h, C, D)
    BY <1>4, <2>1, AlikeParts
  <2>3. /\ None(atoms, B) => None(h, D)
        /\ Sole(atoms, B) => Sole(h, D)
        /\ InOrder(atoms, B, A) => InOrder(h, D, C)
    BY <1>4, <2>1, AlikeParts
  <2>4. QED BY <2>2, <2>3 DEF A, B, C, D
<1>8. ASSUME NEW f \in Events
      PROVE  /\ f \in S.counted =>
                  /\ \E i : Does(S.hooks[f], i, CountersOf(f))
                  /\ f # e => IdleBut(S.hooks[e], 0, CountersOf(f))
             /\ f \in S.logged =>
                  /\ \E i : Does(S.hooks[f], i, LoggersOf(f))
                  /\ f # e => IdleBut(S.hooks[e], 0, LoggersOf(f))
             /\ f \in S.counted \intersect S.logged =>
                  \E i, j : /\ Does(S.hooks[f], i, CountersOf(f)) /\ Does(S.hooks[f], j, LoggersOf(f))
                            /\ S.hooks[f].ctxPriority[i].priority > S.hooks[f].ctxPriority[j].priority
  <2>1. /\ f \in S.counted => /\ \E i \in DOMAIN S.hooks[f].ctxPriority : Does(S.hooks[f], i, CountersOf(f))
                              /\ \A g \in Events \ {f} : IdleBut(S.hooks[g], 0, CountersOf(f))
        /\ f \in S.logged => /\ \E i \in DOMAIN S.hooks[f].ctxPriority : Does(S.hooks[f], i, LoggersOf(f))
                             /\ \A g \in Events \ {f} : IdleBut(S.hooks[g], 0, LoggersOf(f))
        /\ f \in S.counted \intersect S.logged =>
             \A i, j \in DOMAIN S.hooks[f].ctxPriority :
               Does(S.hooks[f], i, CountersOf(f)) /\ Does(S.hooks[f], j, LoggersOf(f)) =>
                 S.hooks[f].ctxPriority[i].priority > S.hooks[f].ctxPriority[j].priority
    BY <1>2, ObserversKnown DEF S
  <2>2. QED BY <2>1
<1>9. ASSUME NEW f \in S.counted
      PROVE  IF f = e THEN Sole(h, CountingSteps(f)) ELSE None(h, CountingSteps(f))
  <2>1. f \in Events
    BY <1>2
  <2>2. CASE f = e
    BY <1>5, <1>7, <1>8, <2>1, <2>2
  <2>3. CASE f # e
    BY <1>5, <1>7, <1>8, <2>1, <2>3
  <2>4. QED BY <2>2, <2>3
<1>10. ASSUME NEW f \in S.logged
       PROVE  IF f = e THEN Sole(h, LoggingSteps(f)) ELSE None(h, LoggingSteps(f))
  <2>1. f \in Events
    BY <1>2
  <2>2. CASE f = e
    BY <1>5, <1>7, <1>8, <2>1, <2>2
  <2>3. CASE f # e
    BY <1>5, <1>7, <1>8, <2>1, <2>3
  <2>4. QED BY <2>2, <2>3
<1>11. ASSUME NEW f \in S.counted \intersect S.logged
       PROVE  Covers(h, LoggingSteps(f), CountingSteps(f))
  <2>1. f \in Events /\ f \in S.counted /\ f \in S.logged
    BY <1>2
  <2>2. CASE f = e
    <3>1. Sole(h, CountingSteps(f)) /\ Sole(h, LoggingSteps(f))
      BY <1>9, <1>10, <2>1, <2>2
    <3>2. InOrder(atoms, CountersOf(f), LoggersOf(f))
      BY <1>5, <1>8, <2>1, <2>2
    <3>3. InOrder(h, CountingSteps(f), LoggingSteps(f))
      BY <1>7, <3>2
    <3>4. QED BY <1>4, <3>1, <3>3, CoversSole
  <2>3. CASE f # e
    <3>1. None(h, CountingSteps(f))
      BY <1>9, <2>1, <2>3
    <3>2. QED BY <1>4, <3>1, CoversNone
  <2>4. QED BY <2>2, <2>3
<1>12. QED BY <1>9, <1>10, <1>11 DEF h

LEMMA ElementsSeq ==
  ASSUME NEW T, NEW s \in Seq(T), NEW U, \A i \in 1..Len(s) : s[i] \in U
  PROVE  s \in Seq(U)
<1>1. Len(s) \in Nat /\ s \in [1..Len(s) -> U]
  OBVIOUS
<1>2. QED BY <1>1, IndexedIsSeq

-----------------------------------------------------------------------------
(* What fits goes on to fit.                                               *)

FitSteps == {s \in AllSteps : FitStep(s)}

LEMMA FitKept ==
  ASSUME IInv, FitInv, Moved, scenario' = scenario
  PROVE  FitInv'
<1>1. S' = S
  BY DEF S
<1>2. \A s \in AllSteps : FitStep(s) => FitStep(s)'
  BY <1>1 DEF FitStep, Moved, KnownKept, Known
<1> DEFINE X == FitSteps'
<1>3. \A s \in FreshSteps' : s \in X
  BY DEF FreshSteps, FitSteps
<1>4. \A s \in SilentSteps : s \in X
  BY <1>3, SilentFresh
<1>5. \A h \in HookSteps : Fits(S, h.atom) /\ h.i = 1 => h \in X
  <2>1. \A h \in HookSteps : h \in AllSteps
    BY DEF AllSteps, CallSteps, BareSteps
  <2>2. \A h \in HookSteps : Fits(S, h.atom) /\ h.i = 1 => FitStep(h)'
    BY <1>1 DEF FitStep
  <2>3. QED BY <2>1, <2>2 DEF FitSteps
<1>6. \A s : s \in X => s \in AllSteps /\ FitStep(s)'
  BY DEF FitSteps
<1>7. ASSUME NEW q \in Procs
      PROVE  todo[q] \in Seq(X)
  <2>1. todo[q] \in Seq(AllSteps)
    BY DEF IInv, TodoInv
  <2>2. \A j \in 1..Len(todo[q]) : todo[q][j] \in AllSteps /\ FitStep(todo[q][j])
    BY <2>1 DEF FitInv
  <2>3. \A j \in 1..Len(todo[q]) : todo[q][j] \in X
    BY <1>2, <2>2 DEF FitSteps
  <2> HIDE DEF X
  <2>4. QED BY <2>1, <2>3, ElementsSeq
<1> HIDE DEF X
<1>8. \A t \in Seq(FreshSteps') : t \in Seq(X)
  BY <1>3, ElementsSeq
<1>9. \A t \in Seq(SilentSteps) : t \in Seq(X)
  BY <1>4, ElementsSeq
<1>10. \A q \in Procs : Rests(q) => todo'[q] \in Seq(X)
  BY <1>7, <1>8 DEF Rests, Same
<1>11. ASSUME NEW p \in Procs, todo[p] # <<>>
       PROVE  Tail(todo[p]) \in Seq(X)
  BY <1>7, <1>11
<1>12. \A t, u \in Seq(X) : t \o u \in Seq(X)
  BY ConcatProperties
<1>13. ASSUME NEW q \in Procs
       PROVE  todo'[q] \in Seq(X)
  <2>1. CASE Waits
    BY <1>10, <2>1 DEF Waits
  <2>2. ASSUME NEW p \in Procs, Acts(p)
        PROVE  todo'[q] \in Seq(X)
    <3>1. CASE q # p
      BY <1>10, <2>2, <3>1 DEF Acts, OthersRest
    <3>2. CASE q = p
      BY <1>8, <1>11, <1>12, <2>2, <3>2 DEF Acts
    <3>3. QED BY <3>1, <3>2
  <2>3. ASSUME NEW p \in Procs, Tells(p)
        PROVE  todo'[q] \in Seq(X)
    <3>1. CASE q # p
      BY <1>10, <2>3, <3>1 DEF Tells, OthersRest
    <3>2. CASE q = p
      <4>1. PICK e \in Events, of \in Happenings, before \in Seq(SilentSteps) :
              \E atoms \in Invoke(S.hooks, e, FromCache(of.key)) :
                todo'[p] = (before \o HooksOn(atoms, of)) \o Tail(todo[p])
        BY <2>3 DEF Tells
      <4>2. PICK atoms \in Invoke(S.hooks, e, FromCache(of.key)) :
              todo'[p] = (before \o HooksOn(atoms, of)) \o Tail(todo[p])
        BY <4>1
      <4> DEFINE h == HooksOn(atoms, of)
      <4>3. /\ h \in Seq(HookSteps) /\ Len(h) = Len(atoms)
            /\ \A i \in 1..Len(atoms) :
                 /\ atoms[i] \in Atoms /\ Fits(S, atoms[i])
                 /\ h[i] = [step |-> "hook", atom |-> atoms[i], of |-> of, i |-> 1]
        BY HooksOnAre
      <4> HIDE DEF h
      <4>4. \A i \in 1..Len(h) : h[i] \in X
        <5>1. \A i \in 1..Len(h) : h[i] \in HookSteps
          BY <4>3
        <5>2. ASSUME NEW i \in 1..Len(h)
              PROVE  Fits(S, h[i].atom) /\ h[i].i = 1
          <6>1. Fits(S, atoms[i]) /\ h[i] = [step |-> "hook", atom |-> atoms[i], of |-> of, i |-> 1]
            BY <4>3
          <6>2. h[i].atom = atoms[i] /\ h[i].i = 1
            BY <6>1
          <6>3. QED BY <6>1, <6>2
        <5>3. QED BY <1>5, <5>1, <5>2
      <4>5. h \in Seq(X)
        BY <4>3, <4>4, ElementsSeq
      <4>6. todo'[p] = (before \o h) \o Tail(todo[p])
        BY <4>2 DEF h
      <4>7. QED BY <1>9, <1>11, <1>12, <2>3, <3>2, <4>5, <4>6 DEF Tells
    <3>3. QED BY <3>1, <3>2
  <2>4. ASSUME NEW p \in Procs, Panics(p)
        PROVE  todo'[q] \in Seq(X)
    <3>1. <<>> \in Seq(X)
      OBVIOUS
    <3>2. CASE \A r \in Procs : todo'[r] = <<>>
      BY <3>1, <3>2
    <3>3. CASE todo[p] # <<>> /\ todo'[p] = Deferred(Tail(todo[p])) /\ \A r \in Procs \ {p} : Same(r)
      <4>1. Deferred(Tail(todo[p])) \in Seq({s \in X : s.step \in Kept})
        BY <1>11, <3>3, DeferredFacts
      <4>2. Deferred(Tail(todo[p])) \in Seq(X)
        BY <4>1, SeqMonotonic
      <4>3. QED BY <1>7, <3>3, <4>2 DEF Same
    <3>4. QED BY <2>4, <3>2, <3>3 DEF Panics
  <2>5. QED BY <2>1, <2>2, <2>3, <2>4 DEF Moved, Moves
<1>14. ASSUME NEW q \in Procs, NEW j \in 1..Len(todo'[q])
       PROVE  FitStep(todo[q][j])'
  <2>1. todo'[q][j] \in X
    BY <1>13
  <2>2. PICK s : s = todo'[q][j]
    OBVIOUS
  <2>3. FitStep(s)'
    BY <1>6, <2>1, <2>2
  <2>4. QED BY <2>2, <2>3 DEF FitStep, Known
<1>15. ExportsFit'
  BY DEF Moved
<1>16. QED BY <1>14, <1>15 DEF FitInv

-----------------------------------------------------------------------------
(* How much is due: the steps of A that the processes still have to take.   *)

Due(td, A) == Sum([p \in Procs |-> Tally(td[p], 1, A)], Procs)

LEMMA ProcsAre == IsFiniteSet(Procs)
<1> DEFINE pair == {Reporter} \union {Janitor}
           trio == pair \union {Debugger}
<1>1. IsFiniteSet({Reporter}) /\ IsFiniteSet({Janitor}) /\ IsFiniteSet({Debugger})
  BY FS_Singleton
<1>2. IsFiniteSet(pair)
  BY <1>1, FS_Union
<1>3. trio = {Reporter, Janitor, Debugger}
  OBVIOUS
<1> HIDE DEF pair
<1>4. IsFiniteSet(trio)
  BY <1>1, <1>2, FS_Union
<1> HIDE DEF trio
<1>5. QED BY <1>3, <1>4, ProcsFinite, FS_Union DEF Procs

LEMMA TallySum ==
  ASSUME NEW T, NEW s \in Seq(T), NEW t \in Seq(T), NEW A
  PROVE  /\ Tally(s \o t, 1, A) = Tally(s, 1, A) + Tally(t, 1, A)
         /\ Tally(s, 1, A) \in Nat /\ Tally(t, 1, A) \in Nat
<1> DEFINE l == 1
<1>1. l \in Nat \ {0}
  OBVIOUS
<1> HIDE DEF l
<1>2. Tally(s, l, A) \in Nat /\ Tally(t, l, A) \in Nat /\ (l > Len(s) => Tally(s, l, A) = 0)
  BY <1>1, TallyType
<1>3. /\ l <= Len(s) => Tally(s \o t, l, A) = Tally(s, l, A) + Tally(t, 1, A)
      /\ l > Len(s) => Tally(s \o t, l, A) = Tally(t, l - Len(s), A)
  BY <1>1, TallyConcat
<1>4. Len(s) \in Nat /\ (l > Len(s) => l - Len(s) = l)
  BY DEF l
<1>5. Tally(s \o t, l, A) = Tally(s, l, A) + Tally(t, l, A)
  <2>1. CASE l <= Len(s)
    BY <1>3, <2>1 DEF l
  <2>2. CASE l > Len(s)
    BY <1>2, <1>3, <1>4, <2>2
  <2>3. QED BY <1>1, <1>4, <2>1, <2>2
<1>6. QED BY <1>2, <1>5 DEF l

LEMMA NoneTally ==
  ASSUME NEW T, NEW s \in Seq(T), NEW A, None(s, A)
  PROVE  Tally(s, 1, A) = 0
<1> DEFINE l == 1
<1>1. l \in Nat \ {0}
  OBVIOUS
<1> HIDE DEF l
<1>2. Tally(s, l, A) = 0
  BY <1>1, TallyType
<1>3. QED BY <1>2 DEF l

LEMMA DueType ==
  ASSUME NEW T, NEW t, \A q \in Procs : t[q] \in Seq(T), NEW A
  PROVE  Due(t, A) \in Nat /\ \A q \in Procs : Tally(t[q], 1, A) \in Nat
<1>1. \A q \in Procs : Tally(t[q], 1, A) \in Nat
  BY TallySum
<1>2. IsFiniteSet(Procs)
  BY ProcsAre
<1> DEFINE f == [q \in Procs |-> Tally(t[q], 1, A)]
<1>3. \A q \in Procs : f[q] \in Nat
  BY <1>1
<1> HIDE DEF f
<1>4. Sum(f, Procs) \in Nat
  BY <1>2, <1>3, SumType
<1>5. QED BY <1>1, <1>4 DEF Due, f

LEMMA DueChange ==
  ASSUME NEW T, NEW t, NEW u, \A q \in Procs : t[q] \in Seq(T) /\ u[q] \in Seq(T),
         NEW p \in Procs, NEW A, \A q \in Procs \ {p} : Tally(u[q], 1, A) = Tally(t[q], 1, A)
  PROVE  Due(u, A) + Tally(t[p], 1, A) = Due(t, A) + Tally(u[p], 1, A)
<1>1. \A q \in Procs : Tally(t[q], 1, A) \in Nat /\ Tally(u[q], 1, A) \in Nat
  BY DueType
<1>2. IsFiniteSet(Procs)
  BY ProcsAre
<1> DEFINE f == [q \in Procs |-> Tally(t[q], 1, A)]
           g == [q \in Procs |-> Tally(u[q], 1, A)]
<1>3. /\ \A q \in Procs : f[q] \in Nat /\ g[q] \in Nat
      /\ \A q \in Procs \ {p} : g[q] = f[q]
      /\ f[p] = Tally(t[p], 1, A) /\ g[p] = Tally(u[p], 1, A)
  BY <1>1
<1>4. Due(t, A) = Sum(f, Procs) /\ Due(u, A) = Sum(g, Procs)
  BY DEF Due
<1> HIDE DEF f, g
<1>5. Sum(g, Procs) + f[p] = Sum(f, Procs) + g[p]
  BY <1>2, <1>3, SumChange
<1>6. QED BY <1>3, <1>4, <1>5

LEMMA DueSame ==
  ASSUME NEW T, NEW t, NEW u, \A q \in Procs : t[q] \in Seq(T),
         NEW A, \A q \in Procs : Tally(u[q], 1, A) = Tally(t[q], 1, A)
  PROVE  Due(u, A) = Due(t, A)
<1>1. \A q \in Procs : Tally(t[q], 1, A) \in Nat
  BY DueType
<1>2. QED BY <1>1 DEF Due

LEMMA SumNone ==
  ASSUME NEW A, IsFiniteSet(A), NEW t, \A x \in A : t[x] = 0
  PROVE  Sum(t, A) = 0
<1> DEFINE N == {n \in Nat : \A B \in SUBSET A : Cardinality(B) = n => Sum(t, B) = 0}
<1>1. 0 \in N
  <2>1. SUFFICES ASSUME NEW B \in SUBSET A, Cardinality(B) = 0 PROVE Sum(t, B) = 0
    OBVIOUS
  <2>2. IsFiniteSet(B) /\ B = {}
    BY <2>1, FS_Subset, FS_EmptySet
  <2>3. QED BY <2>2, SumStep
<1>2. ASSUME NEW n \in N
      PROVE  n + 1 \in N
  <2>1. SUFFICES ASSUME NEW B \in SUBSET A, Cardinality(B) = n + 1 PROVE Sum(t, B) = 0
    OBVIOUS
  <2>2. IsFiniteSet(B) /\ B # {}
    BY <2>1, FS_Subset, FS_EmptySet
  <2>3. Pick(B) \in B /\ Sum(t, B) = t[Pick(B)] + Sum(t, B \ {Pick(B)})
    BY <2>2, SumStep
  <2>4. B \ {Pick(B)} \in SUBSET A /\ Cardinality(B \ {Pick(B)}) = Cardinality(B) - 1
    BY <2>3, LessOne
  <2>5. Cardinality(B \ {Pick(B)}) = n
    BY <2>1, <2>4
  <2>6. Sum(t, B \ {Pick(B)}) = 0
    BY <2>4, <2>5
  <2>7. t[Pick(B)] = 0
    BY <2>3
  <2>8. QED BY <2>3, <2>6, <2>7
<1>3. N = Nat
  <2> HIDE DEF N
  <2>1. N \in SUBSET Nat
    BY DEF N
  <2>2. QED BY <1>1, <1>2, <2>1, Induction
<1>4. Cardinality(A) \in Nat
  BY FS_CardinalityType
<1>5. QED BY <1>3, <1>4

LEMMA DueNone ==
  ASSUME NEW t, \A q \in Procs : t[q] = <<>>, NEW A
  PROVE  Due(t, A) = 0
<1>1. IsFiniteSet(Procs)
  BY ProcsAre
<1>2. <<>> \in Seq({}) /\ None(<<>>, A)
  BY DEF None
<1>3. Tally(<<>>, 1, A) = 0
  BY <1>2, NoneTally
<1> DEFINE f == [q \in Procs |-> Tally(t[q], 1, A)]
<1>4. \A q \in Procs : f[q] = 0
  BY <1>3
<1> HIDE DEF f
<1>5. Sum(f, Procs) = 0
  BY <1>1, <1>4, SumNone
<1>6. QED BY <1>5 DEF Due, f

\* what one set has no more of than the other, for any process
LEMMA DueLess ==
  ASSUME NEW T, NEW t, \A q \in Procs : t[q] \in Seq(T), NEW L, NEW C,
         \A q \in Procs : Covers(t[q], L, C)
  PROVE  Due(t, C) <= Due(t, L)
<1> DEFINE l == 1
<1>1. l \in Nat \ {0}
  OBVIOUS
<1> HIDE DEF l
<1>2. \A q \in Procs : Tally(t[q], l, C) <= Tally(t[q], l, L)
  BY <1>1 DEF Covers
<1>3. \A q \in Procs : Tally(t[q], 1, C) <= Tally(t[q], 1, L)
  BY <1>2 DEF l
<1>4. \A q \in Procs : Tally(t[q], 1, C) \in Nat /\ Tally(t[q], 1, L) \in Nat
  BY DueType
<1>5. IsFiniteSet(Procs) /\ Procs \in SUBSET Procs
  BY ProcsAre
<1> DEFINE f == [q \in Procs |-> Tally(t[q], 1, L)]
           g == [q \in Procs |-> Tally(t[q], 1, C)]
<1>6. \A q \in Procs : f[q] \in Nat /\ g[q] \in Nat /\ g[q] <= f[q]
  BY <1>3, <1>4
<1> HIDE DEF f, g
<1>7. Sum(g, Procs) <= Sum(f, Procs)
  BY <1>5, <1>6, SumGrows
<1>8. QED BY <1>7 DEF Due, f, g

-----------------------------------------------------------------------------
(* What the moves do to what is due.                                       *)

LEMMA WatchedAre ==
  /\ \A e \in S.counted : CountingSteps(e) \in Watched
  /\ \A e \in S.logged : LoggingSteps(e) \in Watched
BY DEF Watched

LEMMA FreshNone ==
  ASSUME S' = S, NEW s \in Seq(FreshSteps'), NEW A \in Watched
  PROVE  None(s, A) /\ s \in Seq(AllSteps)
<1>1. Watched' = Watched
  BY DEF Watched
<1>2. \A x \in FreshSteps' : x \in AllSteps /\ x \notin A
  BY <1>1 DEF FreshSteps
<1>3. \A i \in 1..Len(s) : s[i] \in FreshSteps'
  OBVIOUS
<1>4. s \in Seq(AllSteps)
  BY <1>2, <1>3, ElementsSeq
<1>5. QED BY <1>2, <1>3, <1>4 DEF None

LEMMA SilentNone ==
  ASSUME NEW s \in Seq(SilentSteps), NEW A \in Watched
  PROVE  None(s, A) /\ s \in Seq(AllSteps)
<1>1. \A x \in SilentSteps : x \in AllSteps /\ x \notin A
  BY SilentFresh DEF SilentSteps
<1>2. \A i \in 1..Len(s) : s[i] \in SilentSteps
  OBVIOUS
<1>3. s \in Seq(AllSteps)
  BY <1>1, <1>2, ElementsSeq
<1>4. QED BY <1>1, <1>2, <1>3 DEF None

LEMMA TodoTyped ==
  ASSUME IInv, IInv'
  PROVE  \A q \in Procs : todo[q] \in Seq(AllSteps) /\ todo'[q] \in Seq(AllSteps)
BY DEF IInv, TodoInv

LEMMA RestsSame ==
  ASSUME IInv, S' = S, NEW q \in Procs, Rests(q), NEW A \in Watched
  PROVE  Tally(todo'[q], 1, A) = Tally(todo[q], 1, A)
<1>1. CASE Same(q)
  BY <1>1 DEF Same
<1>2. CASE todo[q] = <<>> /\ todo'[q] \in Seq(FreshSteps')
  <2>1. None(todo'[q], A) /\ todo'[q] \in Seq(AllSteps)
    BY <1>2, FreshNone
  <2>2. None(<<>>, A) /\ <<>> \in Seq(AllSteps)
    BY DEF None
  <2>3. Tally(todo'[q], 1, A) = 0 /\ Tally(<<>>, 1, A) = 0
    BY <2>1, <2>2, NoneTally
  <2>4. QED BY <1>2, <2>3
<1>3. QED BY <1>1, <1>2 DEF Rests

LEMMA DueWaits ==
  ASSUME IInv, S' = S, \A q \in Procs : Rests(q), NEW A \in Watched
  PROVE  Due(todo', A) = Due(todo, A)
<1>1. \A q \in Procs : todo[q] \in Seq(AllSteps)
  BY DEF IInv, TodoInv
<1>2. \A q \in Procs : Tally(todo'[q], 1, A) = Tally(todo[q], 1, A)
  BY RestsSame
<1>3. QED BY <1>1, <1>2, DueSame

\* a step that is done is due no more
LEMMA DueActs ==
  ASSUME IInv, IInv', S' = S, NEW p \in Procs, Acts(p), NEW A \in Watched,
         NEW x \in Nat, NEW y, Seen(p, A, x, y)
  PROVE  y + Due(todo', A) = x + Due(todo, A)
<1> DEFINE t == todo  u == todo'
<1>1. \A q \in Procs : t[q] \in Seq(AllSteps) /\ u[q] \in Seq(AllSteps)
  BY TodoTyped
<1>2. \A q \in Procs \ {p} : Tally(u[q], 1, A) = Tally(t[q], 1, A)
  BY RestsSame DEF Acts, OthersRest
<1>3. PICK steps \in Seq(FreshSteps') : u[p] = steps \o Tail(t[p])
  BY DEF Acts
<1>4. None(steps, A) /\ steps \in Seq(AllSteps)
  BY FreshNone
<1>5. t[p] # <<>> /\ It(p) = t[p][1]
  BY HeadFacts DEF Acts
<1> HIDE DEF t, u
<1>6. /\ Due(u, A) + Tally(t[p], 1, A) = Due(t, A) + Tally(u[p], 1, A)
      /\ Due(u, A) \in Nat /\ Due(t, A) \in Nat
  <2>1. Due(u, A) + Tally(t[p], 1, A) = Due(t, A) + Tally(u[p], 1, A)
    BY <1>1, <1>2, DueChange
  <2>2. Due(u, A) \in Nat
    BY <1>1, DueType
  <2>3. Due(t, A) \in Nat
    BY <1>1, DueType
  <2>4. QED BY <2>1, <2>2, <2>3
<1>7. /\ t[p][1] \in A => Tally(t[p], 1, A) = Tally(Tail(t[p]), 1, A) + 1
      /\ t[p][1] \notin A => Tally(t[p], 1, A) = Tally(Tail(t[p]), 1, A)
      /\ Tally(t[p], 1, A) \in Nat /\ Tally(Tail(t[p]), 1, A) \in Nat
  BY <1>1, <1>5, TallyTail
<1>8. Tail(t[p]) \in Seq(AllSteps)
  BY <1>1, <1>5
<1>9. Tally(u[p], 1, A) = Tally(Tail(t[p]), 1, A)
  <2>1. Tally(steps, 1, A) = 0
    BY <1>4, NoneTally
  <2>2. Tally(steps \o Tail(t[p]), 1, A) = Tally(steps, 1, A) + Tally(Tail(t[p]), 1, A)
    BY <1>4, <1>8, TallySum
  <2>3. QED BY <1>3, <1>7, <2>1, <2>2
<1>10. (t[p][1] \in A => y = x + 1) /\ (t[p][1] \notin A => y = x)
  BY <1>5 DEF Seen
<1>11. y + Due(u, A) = x + Due(t, A)
  <2> DEFINE m == Due(u, A)  n == Due(t, A)  a == Tally(t[p], 1, A)  b == Tally(Tail(t[p]), 1, A)
  <2>0. m \in Nat /\ n \in Nat /\ a \in Nat /\ b \in Nat /\ m + a = n + b
    BY <1>6, <1>7, <1>9
  <2> HIDE DEF m, n, a, b
  <2>1. CASE t[p][1] \in A
    <3>1. a = b + 1 /\ y = x + 1
      BY <1>7, <1>10, <2>1 DEF a, b
    <3>2. y + m = x + n
      BY <2>0, <3>1
    <3>3. QED BY <3>2 DEF m, n
  <2>2. CASE t[p][1] \notin A
    <3>1. a = b /\ y = x
      BY <1>7, <1>10, <2>2 DEF a, b
    <3>2. y + m = x + n
      BY <2>0, <3>1
    <3>3. QED BY <3>2 DEF m, n
  <2>3. QED BY <2>1, <2>2
<1>12. QED BY <1>11 DEF t, u

\* an event is due to be counted and logged once
LEMMA DueTells ==
  ASSUME IInv, IInv', S' = S, NEW p \in Procs, Tells(p)
  PROVE  \E e \in Events :
           /\ Counts(e)
           /\ \A f \in S.counted :
                Due(todo', CountingSteps(f)) = Due(todo, CountingSteps(f)) + (IF f = e THEN 1 ELSE 0)
           /\ \A f \in S.logged :
                Due(todo', LoggingSteps(f)) = Due(todo, LoggingSteps(f)) + (IF f = e THEN 1 ELSE 0)
           /\ \A f \in S.counted \intersect S.logged :
                Covers(todo[p], LoggingSteps(f), CountingSteps(f)) =>
                  Covers(todo'[p], LoggingSteps(f), CountingSteps(f))
<1>1. PICK e \in Events, of \in Happenings, before \in Seq(SilentSteps) :
        /\ \E atoms \in Invoke(S.hooks, e, FromCache(of.key)) :
             todo'[p] = (before \o HooksOn(atoms, of)) \o Tail(todo[p])
        /\ Counts(e)
  BY DEF Tells
<1>2. PICK atoms \in Invoke(S.hooks, e, FromCache(of.key)) :
        todo'[p] = (before \o HooksOn(atoms, of)) \o Tail(todo[p])
  BY <1>1
<1> DEFINE h == HooksOn(atoms, of)
           t == todo
           u == todo'
<1>3. h \in Seq(HookSteps)
  BY HooksOnAre
<1>4. /\ \A f \in S.counted : IF f = e THEN Sole(h, CountingSteps(f)) ELSE None(h, CountingSteps(f))
      /\ \A f \in S.logged : IF f = e THEN Sole(h, LoggingSteps(f)) ELSE None(h, LoggingSteps(f))
      /\ \A f \in S.counted \intersect S.logged : Covers(h, LoggingSteps(f), CountingSteps(f))
  BY EventHooks
<1>5. \A q \in Procs : t[q] \in Seq(AllSteps) /\ u[q] \in Seq(AllSteps)
  BY TodoTyped
<1>6. t[p] # <<>> /\ It(p) = t[p][1] /\ It(p) \notin UNION Watched
  BY HeadFacts DEF Tells
<1>7. \A q \in Procs \ {p} : \A A \in Watched : Tally(u[q], 1, A) = Tally(t[q], 1, A)
  BY RestsSame DEF Tells, OthersRest
<1>8. u[p] = (before \o h) \o Tail(t[p])
  BY <1>2
<1> HIDE DEF h, t, u
<1>9. h \in Seq(AllSteps)
  <2>1. HookSteps \subseteq AllSteps
    BY DEF AllSteps, CallSteps, BareSteps
  <2>2. QED BY <1>3, <2>1, SeqMonotonic
<1>10. Tail(t[p]) \in Seq(AllSteps) /\ \A A \in Watched : None(before, A) /\ before \in Seq(AllSteps)
  BY <1>5, <1>6, SilentNone
<1>11. ASSUME NEW A \in Watched
       PROVE  Due(u, A) = Due(t, A) + Tally(h, 1, A)
  <2>1. Tally(t[p], 1, A) = Tally(Tail(t[p]), 1, A) /\ Tally(t[p], 1, A) \in Nat
    BY <1>5, <1>6, TallyTail
  <2>2. before \in Seq(AllSteps) /\ Tally(before, 1, A) = 0
    BY <1>10, NoneTally
  <2>3. before \o h \in Seq(AllSteps)
    BY <1>9, <2>2, ConcatProperties
  <2>4. Tally(before \o h, 1, A) = Tally(before, 1, A) + Tally(h, 1, A) /\ Tally(h, 1, A) \in Nat
    BY <1>9, <2>2, TallySum
  <2>5. Tally((before \o h) \o Tail(t[p]), 1, A) = Tally(before \o h, 1, A) + Tally(Tail(t[p]), 1, A)
    BY <1>10, <2>3, TallySum
  <2>6. Tally(u[p], 1, A) = Tally(h, 1, A) + Tally(t[p], 1, A)
    BY <1>8, <2>1, <2>2, <2>4, <2>5
  <2>7. /\ Due(u, A) + Tally(t[p], 1, A) = Due(t, A) + Tally(u[p], 1, A)
        /\ Due(u, A) \in Nat /\ Due(t, A) \in Nat
    <3>1. \A q \in Procs \ {p} : Tally(u[q], 1, A) = Tally(t[q], 1, A)
      BY <1>7
    <3>2. Due(u, A) + Tally(t[p], 1, A) = Due(t, A) + Tally(u[p], 1, A)
      BY <1>5, <3>1, DueChange, SMTT(15)
    <3>3. Due(u, A) \in Nat
      BY <1>5, DueType
    <3>4. Due(t, A) \in Nat
      BY <1>5, DueType
    <3>5. QED BY <3>2, <3>3, <3>4
  <2>8. QED BY <2>1, <2>4, <2>6, <2>7, SMTT(15)
<1>12. ASSUME NEW f \in S.counted
       PROVE  Due(u, CountingSteps(f)) = Due(t, CountingSteps(f)) + (IF f = e THEN 1 ELSE 0)
  <2>1. Due(u, CountingSteps(f)) = Due(t, CountingSteps(f)) + Tally(h, 1, CountingSteps(f))
    BY <1>11, WatchedAre
  <2>2. CASE f = e
    <3>1. Tally(h, 1, CountingSteps(f)) = 1
      BY <1>3, <1>4, <2>2, SoleTally
    <3>2. QED BY <2>1, <2>2, <3>1
  <2>3. CASE f # e
    <3>1. Tally(h, 1, CountingSteps(f)) = 0
      BY <1>3, <1>4, <2>3, NoneTally
    <3>2. QED BY <2>1, <2>3, <3>1
  <2>4. QED BY <2>2, <2>3
<1>13. ASSUME NEW f \in S.logged
       PROVE  Due(u, LoggingSteps(f)) = Due(t, LoggingSteps(f)) + (IF f = e THEN 1 ELSE 0)
  <2>1. Due(u, LoggingSteps(f)) = Due(t, LoggingSteps(f)) + Tally(h, 1, LoggingSteps(f))
    BY <1>11, WatchedAre
  <2>2. CASE f = e
    <3>1. Tally(h, 1, LoggingSteps(f)) = 1
      BY <1>3, <1>4, <2>2, SoleTally
    <3>2. QED BY <2>1, <2>2, <3>1
  <2>3. CASE f # e
    <3>1. Tally(h, 1, LoggingSteps(f)) = 0
      BY <1>3, <1>4, <2>3, NoneTally
    <3>2. QED BY <2>1, <2>3, <3>1
  <2>4. QED BY <2>2, <2>3
<1>14. ASSUME NEW f \in S.counted \intersect S.logged,
              Covers(t[p], LoggingSteps(f), CountingSteps(f))
       PROVE  Covers(u[p], LoggingSteps(f), CountingSteps(f))
  <2>1. CountingSteps(f) \in Watched
    BY WatchedAre
  <2>2. Covers(h, LoggingSteps(f), CountingSteps(f))
    BY <1>4
  <2> DEFINE L == LoggingSteps(f)  C == CountingSteps(f)
  <2> HIDE DEF L, C
  <2>3. Covers(h, L, C) /\ Covers(t[p], L, C) /\ None(before, C) /\ before \in Seq(AllSteps)
    BY <1>10, <1>14, <2>1, <2>2 DEF L, C
  <2>4. Covers(before, L, C)
    BY <2>3, CoversNone
  <2>5. Covers(Tail(t[p]), L, C)
    BY <1>5, <1>6, <2>3, CoversTail
  <2>6. Covers(before \o h, L, C)
    BY <1>9, <2>3, <2>4, CoversConcat
  <2>7. before \o h \in Seq(AllSteps)
    BY <1>9, <2>3, ConcatProperties
  <2>8. Covers((before \o h) \o Tail(t[p]), L, C)
    BY <1>10, <2>5, <2>6, <2>7, CoversConcat
  <2>9. QED BY <1>8, <2>8 DEF L, C
<1>15. QED BY <1>1, <1>12, <1>13, <1>14 DEF t, u

\* a panic takes what is due with it, and no more of what comes first
LEMMA DuePanics ==
  ASSUME IInv, IInv', NEW p \in Procs, Panics(p), NEW L \in Watched, NEW C \in Watched,
         \A q \in Procs : Covers(todo[q], L, C)
  PROVE  /\ \A q \in Procs : Covers(todo'[q], L, C)
         /\ \E c, l \in Nat : /\ c <= l /\ Due(todo', C) + c = Due(todo, C)
                              /\ Due(todo', L) + l = Due(todo, L)
<1> DEFINE t == todo  u == todo'
<1>1. \A q \in Procs : t[q] \in Seq(AllSteps) /\ u[q] \in Seq(AllSteps)
  BY TodoTyped
<1>2. \/ /\ t[p] # <<>> /\ u[p] = Deferred(Tail(t[p]))
         /\ \A q \in Procs \ {p} : u[q] = t[q]
      \/ \A q \in Procs : u[q] = <<>>
  BY DEF Panics, Same
<1>3. \A q \in Procs : Covers(t[q], L, C)
  OBVIOUS
<1> HIDE DEF t, u
<1>4. \A A : Due(t, A) \in Nat /\ Due(u, A) \in Nat
  BY <1>1, DueType
<1>5. Due(t, C) <= Due(t, L)
  BY <1>1, <1>3, DueLess
<1>6. CASE \A q \in Procs : u[q] = <<>>
  <2>1. Due(u, C) = 0 /\ Due(u, L) = 0
    BY <1>6, DueNone
  <2>2. <<>> \in Seq(AllSteps) /\ None(<<>>, C)
    BY DEF None
  <2>3. Covers(<<>>, L, C)
    BY <2>2, CoversNone
  <2>4. \A q \in Procs : Covers(u[q], L, C)
    BY <1>6, <2>3
  <2>5. Due(u, C) + Due(t, C) = Due(t, C) /\ Due(u, L) + Due(t, L) = Due(t, L)
    BY <1>4, <2>1
  <2>6. QED BY <1>4, <1>5, <2>4, <2>5 DEF t, u
<1>7. CASE t[p] # <<>> /\ u[p] = Deferred(Tail(t[p])) /\ \A q \in Procs \ {p} : u[q] = t[q]
  <2>1. Tail(t[p]) \in Seq(AllSteps)
    BY <1>1, <1>7
  <2>2. u[p] \in Seq({e \in AllSteps : e.step \in Kept})
    BY <1>7, <2>1, DeferredFacts
  <2>3. ASSUME NEW A \in Watched
        PROVE  None(u[p], A)
    <3>1. \A e \in A : e.step = "hook"
      BY DEF Watched, LoggingSteps, CountingSteps, HookSteps
    <3>2. \A i \in 1..Len(u[p]) : u[p][i].step \in Kept
      BY <2>2
    <3>3. QED BY <3>1, <3>2 DEF None, Kept
  <2>4. Covers(u[p], L, C)
    BY <1>1, <2>3, CoversNone
  <2>5. \A q \in Procs : Covers(u[q], L, C)
    BY <1>3, <1>7, <2>4
  <2>6. ASSUME NEW A \in Watched
        PROVE  Due(u, A) + Tally(t[p], 1, A) = Due(t, A) /\ Tally(t[p], 1, A) \in Nat
    <3>1. \A q \in Procs \ {p} : Tally(u[q], 1, A) = Tally(t[q], 1, A)
      BY <1>7
    <3>2. Due(u, A) + Tally(t[p], 1, A) = Due(t, A) + Tally(u[p], 1, A)
      BY <1>1, <3>1, DueChange
    <3>3. Tally(u[p], 1, A) = 0
      BY <1>1, <2>3, NoneTally
    <3>4. Tally(t[p], 1, A) \in Nat
      BY <1>1, DueType
    <3>5. Due(t, A) \in Nat
      BY <1>4
    <3>6. QED BY <3>2, <3>3, <3>4, <3>5
  <2>7. Tally(t[p], 1, C) <= Tally(t[p], 1, L)
    <3> DEFINE n == 1
    <3>1. n \in Nat \ {0}
      OBVIOUS
    <3> HIDE DEF n
    <3>2. Tally(t[p], n, C) <= Tally(t[p], n, L)
      BY <1>3, <3>1 DEF Covers
    <3>3. QED BY <3>2 DEF n
  <2>8. \E c, l \in Nat : c <= l /\ Due(u, C) + c = Due(t, C) /\ Due(u, L) + l = Due(t, L)
    BY <2>6, <2>7
  <2>9. QED BY <2>5, <2>8 DEF t, u
<1>8. QED BY <1>2, <1>6, <1>7

LEMMA CoversKept ==
  ASSUME IInv, IInv', S' = S, Moves, NEW f \in S.counted \intersect S.logged,
         \A q \in Procs : Covers(todo[q], LoggingSteps(f), CountingSteps(f))
  PROVE  \A q \in Procs : Covers(todo'[q], LoggingSteps(f), CountingSteps(f))
<1> DEFINE L == LoggingSteps(f)  C == CountingSteps(f)
<1>1. L \in Watched /\ C \in Watched
  BY WatchedAre
<1>2. \A q \in Procs : Covers(todo[q], L, C)
  OBVIOUS
<1> HIDE DEF L, C
<1>3. ASSUME NEW q \in Procs, Rests(q)
      PROVE  Covers(todo'[q], L, C)
  <2>1. CASE Same(q)
    BY <1>2, <2>1 DEF Same
  <2>2. CASE todo[q] = <<>> /\ todo'[q] \in Seq(FreshSteps')
    <3>1. None(todo'[q], C) /\ todo'[q] \in Seq(AllSteps)
      BY <1>1, <2>2, FreshNone
    <3>2. QED BY <3>1, CoversNone
  <2>3. QED BY <1>3, <2>1, <2>2 DEF Rests
<1>4. CASE Waits
  BY <1>3, <1>4 DEF Waits, L, C
<1>5. ASSUME NEW p \in Procs, Acts(p)
      PROVE  \A q \in Procs : Covers(todo'[q], L, C)
  <2>1. PICK steps \in Seq(FreshSteps') : todo'[p] = steps \o Tail(todo[p])
    BY <1>5 DEF Acts
  <2>2. None(steps, C) /\ steps \in Seq(AllSteps)
    BY <1>1, FreshNone
  <2>3. todo[p] \in Seq(AllSteps) /\ todo[p] # <<>>
    BY <1>5, TodoTyped DEF Acts
  <2>4. Tail(todo[p]) \in Seq(AllSteps)
    BY <2>3
  <2>5. Covers(Tail(todo[p]), L, C)
    BY <1>2, <2>3, CoversTail
  <2>6. Covers(steps, L, C)
    BY <2>2, CoversNone
  <2>7. Covers(steps \o Tail(todo[p]), L, C)
    BY <2>2, <2>4, <2>5, <2>6, CoversConcat
  <2>8. QED BY <1>3, <1>5, <2>1, <2>7 DEF Acts, OthersRest
<1>6. ASSUME NEW p \in Procs, Tells(p)
      PROVE  \A q \in Procs : Covers(todo'[q], L, C)
  <2>1. Covers(todo'[p], L, C)
    BY <1>2, <1>6, DueTells DEF L, C
  <2>2. QED BY <1>3, <1>6, <2>1 DEF Tells, OthersRest
<1>7. ASSUME NEW p \in Procs, Panics(p)
      PROVE  \A q \in Procs : Covers(todo'[q], L, C)
  BY <1>1, <1>2, <1>7, DuePanics
<1>8. QED BY <1>4, <1>5, <1>6, <1>7 DEF Moves, L, C

-----------------------------------------------------------------------------
(* What is counted and logged of each event, with what is due.             *)

\* until something panics, what was seen and what is due are what was counted;
\* and an event is counted before it is logged, of those whose hooks have begun
\* and of those whose hooks have not
CountedInv ==
  \A e \in S.counted : Exported(exporters[1], e) + Due(todo, CountingSteps(e)) = Ever[Field[e]]
LoggedInv ==
  \A e \in S.logged : lines[e] + Due(todo, LoggingSteps(e)) = Ever[Field[e]]
OrderInv ==
  \A e \in S.counted \intersect S.logged :
    /\ lines[e] + Due(todo, LoggingSteps(e)) <=
         Exported(exporters[1], e) + Due(todo, CountingSteps(e))
    /\ \A q \in Procs : Covers(todo[q], LoggingSteps(e), CountingSteps(e))
TotalsInv == FitInv /\ OrderInv /\ (~panicked => CountedInv /\ LoggedInv)

LEMMA TotalsType ==
  ASSUME IInv, AllExporters, FitInv
  PROVE  /\ S.counted \subseteq Events /\ S.logged \subseteq Events
         /\ \A e \in S.counted : Exported(exporters[1], e) \in Nat /\ 1 \in DOMAIN exporters
         /\ \A e \in Events : lines[e] \in Nat /\ Field[e] \in DOMAIN Zero /\ Ever[Field[e]] \in Nat
         /\ \A A : Due(todo, A) \in Nat
<1>1. S.counted \subseteq Events /\ S.logged \subseteq Events
  BY ScenarioFacts
<1>2. ASSUME NEW e \in S.counted
      PROVE  Exported(exporters[1], e) \in Nat /\ 1 \in DOMAIN exporters
  <2>1. 1 \in DOMAIN exporters
    BY DEF FitInv, ExportsFit
  <2>2. IsExporter(exporters[1])
    BY <2>1 DEF AllExporters
  <2>3. QED BY <2>1, <2>2, ExportedIs
<1>3. lines \in [Events -> Nat] /\ Ever \in [DOMAIN Zero -> Nat]
  BY HeldFacts, EverType
<1>4. \A e \in Events : Field[e] \in DOMAIN Zero
  BY DEF Events, Field, Zero
<1>5. \A q \in Procs : todo[q] \in Seq(AllSteps)
  BY DEF IInv, TodoInv
<1>6. \A A : Due(todo, A) \in Nat
  BY <1>5, DueType
<1>7. QED BY <1>1, <1>2, <1>3, <1>4, <1>6

\* what is left to show of the next state
Balances ==
  /\ \A e \in S.counted \intersect S.logged :
       lines'[e] + Due(todo', LoggingSteps(e)) <=
         Exported(exporters'[1], e) + Due(todo', CountingSteps(e))
  /\ ~panicked' =>
       /\ \A e \in S.counted :
            Exported(exporters'[1], e) + Due(todo', CountingSteps(e)) = Ever'[Field[e]]
       /\ \A e \in S.logged : lines'[e] + Due(todo', LoggingSteps(e)) = Ever'[Field[e]]

LEMMA FieldsApart ==
  \A e, f \in Events : Field[e] = Field[f] => e = f
BY DEF Events, Field

\* an event that is told is counted in the statistics and due to be counted and logged
LEMMA TotalsTells ==
  ASSUME IInv, IInv', AllExporters, TotalsInv, S' = S, NEW p \in Procs, Tells(p)
  PROVE  Balances
<1>1. PICK e \in Events :
        /\ Counts(e)
        /\ \A f \in S.counted :
             Due(todo', CountingSteps(f)) = Due(todo, CountingSteps(f)) + (IF f = e THEN 1 ELSE 0)
        /\ \A f \in S.logged :
             Due(todo', LoggingSteps(f)) = Due(todo, LoggingSteps(f)) + (IF f = e THEN 1 ELSE 0)
  BY DueTells
<1>2. panicked' = panicked /\ lines' = lines /\ exporters' = exporters
  BY DEF Tells
<1>3. /\ S.counted \subseteq Events /\ S.logged \subseteq Events
      /\ \A f \in S.counted : Exported(exporters[1], f) \in Nat /\ 1 \in DOMAIN exporters
      /\ \A f \in Events : lines[f] \in Nat /\ Field[f] \in DOMAIN Zero /\ Ever[Field[f]] \in Nat
      /\ \A A : Due(todo, A) \in Nat
  BY TotalsType DEF TotalsInv
<1>4. \A f \in Events : Ever'[Field[f]] = Ever[Field[f]] + (IF f = e THEN 1 ELSE 0)
  <2>1. Ever \in [DOMAIN Zero -> Nat] /\ Ever' = [Ever EXCEPT ![Field[e]] = @ + 1]
    BY <1>1, EverType DEF Counts
  <2>2. Ever'[Field[e]] = Ever[Field[e]] + 1
    BY <1>3, <2>1
  <2>3. ASSUME NEW f \in Events, f # e
        PROVE  Ever'[Field[f]] = Ever[Field[f]] + 0
    <3>1. Field[f] # Field[e]
      BY <2>3, FieldsApart
    <3>2. QED BY <1>3, <2>1, <3>1
  <2>4. QED BY <2>2, <2>3
<1> DEFINE c(f) == Due(todo, CountingSteps(f))  l(f) == Due(todo, LoggingSteps(f))
           x(f) == Exported(exporters[1], f)    d(f) == IF f = e THEN 1 ELSE 0
<1>5. /\ \A f : c(f) \in Nat /\ l(f) \in Nat /\ d(f) \in Nat
      /\ \A f \in S.counted : x(f) \in Nat
      /\ \A f \in Events : Ever'[Field[f]] = Ever[Field[f]] + d(f)
      /\ \A f \in S.counted : Due(todo', CountingSteps(f)) = c(f) + d(f)
      /\ \A f \in S.logged : Due(todo', LoggingSteps(f)) = l(f) + d(f)
  BY <1>1, <1>3, <1>4
<1>6. /\ ~panicked => /\ \A f \in S.counted : x(f) + c(f) = Ever[Field[f]]
                      /\ \A f \in S.logged : lines[f] + l(f) = Ever[Field[f]]
      /\ \A f \in S.counted \intersect S.logged : lines[f] + l(f) <= x(f) + c(f)
  BY DEF TotalsInv, CountedInv, LoggedInv, OrderInv
<1> HIDE DEF c, l, x, d
<1>7. ASSUME ~panicked, NEW f \in S.counted
      PROVE  x(f) + (c(f) + d(f)) = Ever'[Field[f]]
  <2>1. x(f) \in Nat /\ c(f) \in Nat /\ d(f) \in Nat
    BY <1>5
  <2>2. x(f) + c(f) = Ever[Field[f]] /\ Ever'[Field[f]] = Ever[Field[f]] + d(f)
    BY <1>3, <1>5, <1>6, <1>7
  <2>3. QED BY <2>1, <2>2
<1>8. ASSUME ~panicked, NEW f \in S.logged
      PROVE  lines[f] + (l(f) + d(f)) = Ever'[Field[f]]
  <2>1. lines[f] \in Nat /\ l(f) \in Nat /\ d(f) \in Nat
    BY <1>3, <1>5
  <2>2. lines[f] + l(f) = Ever[Field[f]] /\ Ever'[Field[f]] = Ever[Field[f]] + d(f)
    BY <1>3, <1>5, <1>6, <1>8
  <2>3. QED BY <2>1, <2>2
<1>9. ASSUME NEW f \in S.counted \intersect S.logged
      PROVE  lines[f] + (l(f) + d(f)) <= x(f) + (c(f) + d(f))
  <2>1. lines[f] \in Nat /\ l(f) \in Nat /\ d(f) \in Nat /\ x(f) \in Nat /\ c(f) \in Nat
    BY <1>3, <1>5
  <2>2. lines[f] + l(f) <= x(f) + c(f)
    BY <1>6
  <2>3. QED BY <2>1, <2>2
<1>10. \A f \in S.counted : Exported(exporters'[1], f) = x(f)
  BY <1>2 DEF x
<1>11. QED BY <1>2, <1>5, <1>7, <1>8, <1>9, <1>10 DEF Balances

LEMMA TotalsActs ==
  ASSUME IInv, IInv', AllExporters, TotalsInv, S' = S, NEW p \in Procs, Acts(p)
  PROVE  Balances
<1>1. /\ S.counted \subseteq Events /\ S.logged \subseteq Events
      /\ \A f \in S.counted : Exported(exporters[1], f) \in Nat
      /\ \A f \in Events : lines[f] \in Nat
  BY TotalsType DEF TotalsInv
<1>2. ASSUME NEW e \in S.counted
      PROVE  Exported(exporters'[1], e) + Due(todo', CountingSteps(e)) =
               Exported(exporters[1], e) + Due(todo, CountingSteps(e))
  <2>1. CountingSteps(e) \in Watched
    BY WatchedAre
  <2>2. Seen(p, CountingSteps(e), Exported(exporters[1], e), Exported(exporters'[1], e))
    BY DEF Acts
  <2>3. QED BY <1>1, <2>1, <2>2, DueActs
<1>3. ASSUME NEW e \in S.logged
      PROVE  lines'[e] + Due(todo', LoggingSteps(e)) = lines[e] + Due(todo, LoggingSteps(e))
  <2>1. LoggingSteps(e) \in Watched
    BY WatchedAre
  <2>2. Seen(p, LoggingSteps(e), lines[e], lines'[e])
    BY DEF Acts
  <2>3. QED BY <1>1, <2>1, <2>2, DueActs
<1>4. Ever' = Ever /\ panicked' = panicked
  BY DEF Acts
<1>5. QED BY <1>2, <1>3, <1>4 DEF TotalsInv, CountedInv, LoggedInv, OrderInv, Balances

LEMMA TotalsPanics ==
  ASSUME IInv, IInv', AllExporters, TotalsInv, [Next]_vars, S' = S, NEW p \in Procs, Panics(p)
  PROVE  Balances
<1>1. panicked' = TRUE /\ lines' = lines
  BY DEF Panics
<1>2. SUFFICES ASSUME NEW e \in S.counted \intersect S.logged
               PROVE  lines[e] + Due(todo', LoggingSteps(e)) <=
                        Exported(exporters'[1], e) + Due(todo', CountingSteps(e))
  BY <1>1 DEF Balances
<1> DEFINE L == LoggingSteps(e)  C == CountingSteps(e)
<1>3. L \in Watched /\ C \in Watched
  BY WatchedAre
<1>4. /\ lines[e] + Due(todo, L) <= Exported(exporters[1], e) + Due(todo, C)
      /\ \A q \in Procs : Covers(todo[q], L, C)
  BY DEF TotalsInv, OrderInv
<1>5. /\ e \in Events /\ lines[e] \in Nat /\ Exported(exporters[1], e) \in Nat
      /\ 1 \in DOMAIN exporters /\ Due(todo, L) \in Nat /\ Due(todo, C) \in Nat
  BY TotalsType DEF TotalsInv
<1>6. \A q \in Procs : todo'[q] \in Seq(AllSteps)
  BY TodoTyped
<1> HIDE DEF L, C
<1>7. PICK c, l \in Nat : c <= l /\ Due(todo', C) + c = Due(todo, C) /\ Due(todo', L) + l = Due(todo, L)
  BY <1>3, <1>4, DuePanics
<1>8. Due(todo', C) \in Nat
  BY <1>6, DueType
<1>9. Due(todo', L) \in Nat
  BY <1>6, DueType
<1>10. Grows(exporters[1], exporters'[1])
  BY <1>5, ExportersGrow
<1>11. Exported(exporters[1], e) <= Exported(exporters'[1], e) /\ IsExporter(exporters'[1])
  BY <1>10 DEF Grows
<1>12. Exported(exporters'[1], e) \in Nat
  BY <1>11, ExportedIs
<1> DEFINE x == Exported(exporters[1], e)  y == Exported(exporters'[1], e)
           m == Due(todo, L)  n == Due(todo, C)  i == Due(todo', L)  j == Due(todo', C)
<1>13. /\ x \in Nat /\ y \in Nat /\ m \in Nat /\ n \in Nat /\ i \in Nat /\ j \in Nat /\ lines[e] \in Nat
       /\ x <= y /\ c <= l /\ j + c = n /\ i + l = m /\ lines[e] + m <= x + n
  BY <1>4, <1>5, <1>7, <1>8, <1>9, <1>11, <1>12
<1> HIDE DEF x, y, m, n, i, j
<1>14. lines[e] + i <= y + j
  BY <1>13
<1>15. QED BY <1>14 DEF i, j, y, L, C

LEMMA TotalsWaits ==
  ASSUME IInv, TotalsInv, S' = S, Waits
  PROVE  Balances
<1>1. /\ \A q \in Procs : Rests(q)
      /\ Ever' = Ever /\ panicked' = panicked /\ lines' = lines /\ exporters' = exporters
  BY DEF Waits
<1>2. \A A \in Watched : Due(todo', A) = Due(todo, A)
  BY <1>1, DueWaits
<1>3. /\ \A e \in S.counted : Due(todo', CountingSteps(e)) = Due(todo, CountingSteps(e))
      /\ \A e \in S.logged : Due(todo', LoggingSteps(e)) = Due(todo, LoggingSteps(e))
  BY <1>2, WatchedAre
<1>4. QED BY <1>1, <1>3 DEF TotalsInv, CountedInv, LoggedInv, OrderInv, Balances

LEMMA TotalsInductive ==
  ASSUME IInv, AllExporters, TotalsInv, [Next]_vars
  PROVE  TotalsInv'
<1>1. IInv'
  BY Inductive
<1>2. Moved /\ scenario' = scenario
  BY AllMove, Touches DEF TotalsInv, Touched
<1>3. S' = S
  BY <1>2 DEF S
<1>4. FitInv'
  BY <1>2, FitKept DEF TotalsInv
<1>5. \A f \in S.counted \intersect S.logged :
        \A q \in Procs : Covers(todo'[q], LoggingSteps(f), CountingSteps(f))
  BY <1>1, <1>2, <1>3, CoversKept DEF TotalsInv, OrderInv, Moved
<1>6. Balances
  <2>1. CASE Waits
    BY <1>3, <2>1, TotalsWaits
  <2>2. ASSUME NEW p \in Procs, Acts(p) \/ Tells(p) \/ Panics(p)
        PROVE  Balances
    <3>1. CASE Acts(p)
      BY <1>1, <1>3, <3>1, TotalsActs
    <3>2. CASE Tells(p)
      BY <1>1, <1>3, <3>2, TotalsTells
    <3>3. CASE Panics(p)
      BY <1>1, <1>3, <3>3, TotalsPanics
    <3>4. QED BY <2>2, <3>1, <3>2, <3>3
  <2>3. QED BY <1>2, <2>1, <2>2 DEF Moved, Moves
<1>7. CountedInv' <=> \A e \in S.counted : Exported(exporters'[1], e) + Due(todo', CountingSteps(e)) = Ever'[Field[e]]
  BY <1>3 DEF CountedInv
<1>8. LoggedInv' <=> \A e \in S.logged : lines'[e] + Due(todo', LoggingSteps(e)) = Ever'[Field[e]]
  BY <1>3 DEF LoggedInv
<1>9. OrderInv'
  BY <1>3, <1>5, <1>6 DEF OrderInv, Balances
<1>10. QED BY <1>4, <1>6, <1>7, <1>8, <1>9 DEF TotalsInv, Balances

LEMMA TotalsInitially == ASSUME Init PROVE TotalsInv
<1>1. IInv /\ AllExporters
  BY Initially, LastInitially DEF LastInv
<1>2. \A q \in Procs : todo[q] = <<>>
  BY DEF Init
<1>3. S.counted \subseteq Events /\ S.logged \subseteq Events /\ scenario \in DOMAIN Scenarios
      /\ (S.counted # {} => S.exporters # <<>> /\ \A d \in S.registry : d.name \notin S.counted)
  BY <1>1, ScenarioFacts DEF Init
<1>4. exporters = S.exporters /\ registry = S.registry
  BY DEF Init
<1>5. S.counted # {} => 1 \in DOMAIN exporters /\ \E kind, config : exporters[1] = New(kind, config)
  <2>1. /\ S.exporters \in Seq(Range(S.exporters))
        /\ \A x \in Range(S.exporters) : x = New(x.kind, x.config)
    BY <1>3, ScenariosKnown DEF S
  <2>2. SUFFICES ASSUME S.exporters # <<>>
                 PROVE  1 \in DOMAIN S.exporters /\ \E kind, config : S.exporters[1] = New(kind, config)
    BY <1>3, <1>4
  <2> DEFINE x == S.exporters
  <2>3. x \in Seq(Range(x)) /\ x # <<>>
    BY <2>1, <2>2
  <2> HIDE DEF x
  <2>4. 1 \in DOMAIN x /\ x[1] \in Range(x)
    BY <2>3
  <2>5. QED BY <2>1, <2>4 DEF x
<1>6. FitInv
  <2>1. ExportsFit
    BY <1>3, <1>4, <1>5 DEF ExportsFit, New
  <2>2. \A j \in 1..Len(<<>>) : FALSE
    OBVIOUS
  <2>3. QED BY <1>2, <2>1, <2>2 DEF FitInv
<1>7. \A A : Due(todo, A) = 0
  BY <1>2, DueNone
<1>8. ASSUME NEW e \in S.counted
      PROVE  Exported(exporters[1], e) = 0
  <2>1. PICK kind, config : exporters[1] = New(kind, config)
    BY <1>5
  <2>2. IsExporter(exporters[1])
    BY <1>1, <1>5 DEF AllExporters
  <2>3. Of(exporters[1], e) = {}
    BY <2>1 DEF Of, New
  <2>4. Exported(exporters[1], e) = Sum(exporters[1].total, {})
    BY <2>2, <2>3, ExportedIs
  <2>5. IsFiniteSet({})
    BY FS_EmptySet
  <2>6. QED BY <2>4, <2>5, SumStep
<1>9. \A e \in Events : lines[e] = 0 /\ Ever[Field[e]] = 0
  BY DEF Init, Events, Field, Zero, Ever, Counted
<1>10. \A q \in Procs : \A L, C : Covers(todo[q], L, C)
  <2>1. ASSUME NEW L, NEW C
        PROVE  Covers(<<>>, L, C)
    <3>1. <<>> \in Seq({}) /\ None(<<>>, C)
      BY DEF None
    <3>2. QED BY <3>1, CoversNone
  <2>2. QED BY <1>2, <2>1
<1>11. CountedInv /\ LoggedInv
  BY <1>3, <1>7, <1>8, <1>9 DEF CountedInv, LoggedInv
<1>12. OrderInv
  BY <1>3, <1>7, <1>8, <1>9, <1>10 DEF OrderInv
<1>13. QED BY <1>6, <1>11, <1>12 DEF TotalsInv

LEMMA TotalsSeen ==
  ASSUME IInv, AllExporters, TotalsInv
  PROVE  HooksSeeEveryEvent /\ CountedBeforeLogged
<1>1. /\ S.counted \subseteq Events /\ S.logged \subseteq Events
      /\ \A e \in S.counted : Exported(exporters[1], e) \in Nat /\ 1 \in DOMAIN exporters
      /\ \A e \in Events : lines[e] \in Nat /\ Field[e] \in DOMAIN Zero /\ Ever[Field[e]] \in Nat
      /\ \A A : Due(todo, A) \in Nat
  BY TotalsType DEF TotalsInv
<1>2. HooksSeeEveryEvent
  <2>1. SUFFICES ASSUME Quiet, ~panicked, NEW e \in Events
                 PROVE  /\ e \in S.counted => Exported(exporters[1], e) = Ever[Field[e]]
                        /\ e \in S.logged => lines[e] = Ever[Field[e]]
    <3>1. \A e \in Events : Ever[Field[e]] = Counted(Field[e])
      BY <1>1 DEF Ever
    <3>2. QED BY <3>1 DEF HooksSeeEveryEvent
  <2>2. \A A : Due(todo, A) = 0
    BY <2>1, DueNone DEF Quiet
  <2>3. QED BY <1>1, <2>1, <2>2 DEF TotalsInv, CountedInv, LoggedInv
<1>3. CountedBeforeLogged
  <2>1. SUFFICES ASSUME NEW e \in S.counted \intersect S.logged
                 PROVE  lines[e] <= Exported(exporters[1], e)
    BY DEF CountedBeforeLogged
  <2> DEFINE L == LoggingSteps(e)  C == CountingSteps(e)
  <2>2. /\ lines[e] + Due(todo, L) <= Exported(exporters[1], e) + Due(todo, C)
        /\ \A q \in Procs : Covers(todo[q], L, C)
    BY DEF TotalsInv, OrderInv
  <2>3. \A q \in Procs : todo[q] \in Seq(AllSteps)
    BY DEF IInv, TodoInv
  <2> HIDE DEF L, C
  <2>4. Due(todo, C) <= Due(todo, L)
    BY <2>2, <2>3, DueLess
  <2>5. /\ lines[e] \in Nat /\ Exported(exporters[1], e) \in Nat
        /\ Due(todo, L) \in Nat /\ Due(todo, C) \in Nat
    BY <1>1
  <2>6. QED BY <2>2, <2>4, <2>5
<1>4. QED BY <1>2, <1>3

-----------------------------------------------------------------------------
(* The theorems.                                                           *)

LEMMA Invariant == FairSpec => []IInv
<1>1. Init => IInv
  BY Initially
<1>2. IInv /\ [Next]_vars => IInv'
  BY Inductive
<1>3. QED BY <1>1, <1>2, PTL DEF FairSpec

\* The state has its type: among the rest the store never holds more keys than its
\* capacity, the key count is never above it, and no goroutine has read-unlocked
\* c.mu more often than it has read-locked it.
THEOREM TypeCorrect == FairSpec => []TypeOK
<1>1. IInv => TypeOK
  BY DEF IInv, StateInv
<1>2. QED BY <1>1, Invariant, PTL

\* Whoever is done holds neither c.mu nor the store's mutex: after a call that
\* returned, after one whose hook panicked under either lock, and after a second
\* Close, for any hooks that call the cache to any depth.
THEOREM LocksFreedHolds == FairSpec => []LocksFreed
<1>1. IInv => LocksFreed
  <2>1. SUFFICES ASSUME IInv, ~crashed, NEW p \in Procs, todo[p] = <<>>
                 PROVE  readers[p] = 0 /\ writer # p /\ smutex # p
    BY DEF LocksFreed
  <2>2. Balanced(<<>>, readers[p], IF writer = p THEN 1 ELSE 0, IF smutex = p THEN 1 ELSE 0)
    BY <2>1 DEF IInv, TodoInv, BalancedAt
  <2>3. \A x : Num(<<>>, x) = 0
    BY NumShort
  <2>4. readers[p] \in Nat
    BY <2>1 DEF IInv, StateInv, TypeOK
  <2>5. QED BY <2>2, <2>3, <2>4 DEF Balanced
<1>2. QED BY <1>1, Invariant, PTL

\* Each unlocking, those that a panic left deferred included, is of a lock that its
\* own goroutine has: no call ends the program with "unlock of unlocked mutex".
THEOREM UnlocksOwn == FairSpec => []UnlocksHeld
BY UnlocksAre, Invariant, PTL

\* Close ends the reporter before it closes the exporter: no step exports a
\* statistic to an exporter that is closed.
THEOREM ExportEndsFirst == FairSpec => NothingExportedAfterClose
<1>1. IInv => \A p \in Procs : exporterClosed => ~ExportStat(p)
  <2>1. SUFFICES ASSUME IInv, NEW p \in Procs, exporterClosed, ExportStat(p) PROVE FALSE
    OBVIOUS
  <2>2. At(p, "export")
    BY <2>1 DEF ExportStat, ExportStep
  <2>3. p = Reporter /\ todo[p] # <<>>
    BY <2>1, <2>2, AtFacts, HeadFacts
  <2>4. QED BY <2>1, <2>3 DEF IInv, CloseInv
<1>2. QED BY <1>1, Invariant, PTL DEF NothingExportedAfterClose

\* Whatever is counted while the debug handler reads the six atomics, unless a
\* Reset of hits or misses comes between its reads, its total is not less than the
\* hits and misses it shows, and its rate is theirs when it is equal.
THEOREM DebugHolds == FairSpec => []DebugConsistent
<1>1. Init => ReadInv
  <2>1. SUFFICES ASSUME Init PROVE ReadInv
    OBVIOUS
  <2>2. DOMAIN response = {} /\ todo[Debugger] = <<>>
    BY <2>1 DEF Init, Procs
  <2>3. QED BY <2>2 DEF ReadInv, ReadsLeft
<1>2. IInv /\ ReadInv /\ [Next]_vars => ReadInv'
  BY ReadInductive
<1>3. ReadInv => DebugConsistent
  <2>1. SUFFICES ASSUME ReadInv, DOMAIN response = Range(DebugOrder), ~torn
                 PROVE  DebugConsistent
    BY DEF DebugConsistent
  <2>2. DOMAIN response = {"hits", "misses", "rateHits", "rateMisses", "totalHits", "totalMisses"}
    BY <2>1 DEF DebugOrder, Range
  <2>3. /\ Earlier("hits", "rateHits") /\ Earlier("rateHits", "totalHits")
        /\ Earlier("misses", "rateMisses") /\ Earlier("rateMisses", "totalMisses")
    BY DEF Earlier, DebugOrder
  <2>4. \A f \in DOMAIN response : response[f] \in Nat
    BY <2>1 DEF ReadInv
  <2>5. /\ response["hits"] <= response["rateHits"]
        /\ response["rateHits"] <= response["totalHits"]
        /\ response["misses"] <= response["rateMisses"]
        /\ response["rateMisses"] <= response["totalMisses"]
    BY <2>1, <2>2, <2>3 DEF ReadInv, Source
  <2> DEFINE x(f) == response[f]
  <2>6. \A f \in {"hits", "misses", "rateHits", "rateMisses", "totalHits", "totalMisses"} : x(f) \in Nat
    BY <2>2, <2>4
  <2> HIDE DEF x
  <2>7. /\ x("totalHits") + x("totalMisses") >= x("hits") + x("misses")
        /\ x("totalHits") + x("totalMisses") = x("hits") + x("misses") =>
             x("rateHits") = x("hits") /\ x("rateMisses") = x("misses")
    BY <2>5, <2>6 DEF x
  <2>8. QED BY <2>7 DEF x, DebugConsistent
<1>4. QED BY <1>1, <1>2, <1>3, Invariant, PTL DEF FairSpec

\* Once Close has closed the exporter, each exporter of a MultiExporter has been
\* given every event that was counted before that Close had the lock, but for what
\* a Reset has wiped since, however many exporters there are, whatever is counted
\* meanwhile and whatever hooks do.
THEOREM FinalExportHolds == FairSpec => []LastExportComplete
<1>1. Init => LastInv
  BY LastInitially
<1>2. IInv /\ LastInv /\ [Next]_vars => LastInv'
  BY LastInductive
<1>3. IInv /\ LastInv => LastExportComplete
  <2>1. SUFFICES ASSUME IInv, LastInv, exporterClosed, S.reporting,
                        NEW i \in DOMAIN exporters, NEW f \in DOMAIN Zero
                 PROVE  Exported(exporters[i], f) >= atClose[f]
    BY DEF LastExportComplete
  <2>2. reporter = "done" /\ todo[Reporter] = <<>>
    BY <2>1 DEF IInv, StateInv, TypeOK, CloseInv, LastInv
  <2>3. Ending /\ ~Pending(i, f)
    <3>1. \A j \in 1..Len(<<>>) : FALSE
      OBVIOUS
    <3>2. QED BY <2>2, <3>1 DEF Ending, Pending
  <2>4. Given(i, f)
    BY <2>1, <2>3 DEF LastInv
  <2>5. Exported(exporters[i], f) \in Nat /\ atClose[f] \in Nat
    BY <2>1, ExportedIs DEF LastInv, AllExporters
  <2>6. QED BY <2>4, <2>5 DEF Given
<1>4. QED BY <1>1, <1>2, <1>3, Invariant, PTL DEF FairSpec

LEMMA Totals == FairSpec => [](AllExporters /\ TotalsInv)
<1>1. Init => LastInv /\ TotalsInv
  BY LastInitially, TotalsInitially
<1>2. IInv /\ LastInv /\ TotalsInv /\ [Next]_vars => LastInv' /\ TotalsInv'
  BY LastInductive, TotalsInductive DEF LastInv
<1>3. LastInv => AllExporters
  BY DEF LastInv
<1>4. QED BY <1>1, <1>2, <1>3, Invariant, PTL DEF FairSpec

\* Whenever no call is under way and nothing has panicked, the statistics, with
\* what Reset has wiped from them, the counters that hooks keep in the first
\* exporter and the lines that hooks log agree, whatever keys, goroutines, exporters and other hooks there are, for any
\* hooks of which one counts an event and one logs it.
THEOREM HooksSeeEveryEventHolds == FairSpec => []HooksSeeEveryEvent
<1>1. IInv /\ AllExporters /\ TotalsInv => HooksSeeEveryEvent
  BY TotalsSeen
<1>2. QED BY <1>1, Invariant, Totals, PTL

\* A hook of high priority that counts an event runs before one of a lower priority
\* that logs it: no more events are logged than counted, however the hooks of several
\* goroutines mix, and also when a hook panics and those behind it are not run.
THEOREM CountedBeforeLoggedHolds == FairSpec => []CountedBeforeLogged
<1>1. IInv /\ AllExporters /\ TotalsInv => CountedBeforeLogged
  BY TotalsSeen
<1>2. QED BY <1>1, Invariant, Totals, PTL
=============================================================================
