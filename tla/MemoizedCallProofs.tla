------------------------- MODULE MemoizedCallProofs -------------------------
(***************************************************************************)
(* Whatever the functions, the options and the configurations, a wrapped   *)
(* function answers as the function does.  What the store has under a key  *)
(* is what was kept of the answer to a call that had this key; the rest is *)
(* about the way of that answer: kept, compressed, decoded, converted.     *)
(***************************************************************************)
EXTENDS MemoizedCall, TLAPS

\* rs are results of the types of fn
Answered(fn, rs) ==
  /\ fn.out \in Seq(Range(fn.out)) /\ rs \in Seq(Range(rs)) /\ Len(rs) = Len(fn.out)
  /\ \A i \in DOMAIN fn.out : HasType(rs[i], fn.out[i])

\* the error that fn has answered with
Failing(fn, rs) == hasErrorReturn(fn) /\ rs[Len(rs)] # NilError(fn)

\* the types that survive JSON, and the results
Plainly(fn) == Range(fn.out) \intersect {"any", "map[string]any", "[]any"} = {}
Legible(rs) == \A r \in Range(rs) : TypeOf(r) = "string" => ValidUTF8(r)

-----------------------------------------------------------------------------
(* The conversions.                                                        *)

LEMMA AnsweredFacts ==
  ASSUME NEW fn, NEW rs, Answered(fn, rs)
  PROVE  /\ Len(fn.out) \in Nat /\ Len(rs) = Len(fn.out)
         /\ DOMAIN fn.out = 1..Len(fn.out) /\ DOMAIN rs = 1..Len(fn.out)
         /\ hasErrorReturn(fn) => Len(fn.out) >= 2 /\ Len(fn.out) \in DOMAIN fn.out
         /\ NilError(fn) = Zero(fn.out[Len(fn.out)])
<1>1. /\ Len(fn.out) \in Nat /\ Len(rs) = Len(fn.out)
      /\ DOMAIN fn.out = 1..Len(fn.out) /\ DOMAIN rs = 1..Len(fn.out)
  BY DEF Answered
<1>2. hasErrorReturn(fn) => Len(fn.out) >= 2
  BY <1>1 DEF hasErrorReturn
<1>3. NilError(fn) = Zero(fn.out[Len(fn.out)])
  BY Zenon DEF NilError, Last
<1>4. QED BY <1>1, <1>2, <1>3

\* An error that is not the zero of its type is not nil, and is one of its type.
LEMMA ErrorIsThere ==
  ASSUME NEW fn, NEW rs, Answered(fn, rs), Failing(fn, rs)
  PROVE  rs[Len(rs)] # Nil /\ Assignable(rs[Len(rs)], fn.out[Len(fn.out)])
<1> DEFINE err == rs[Len(rs)]
           type == fn.out[Len(fn.out)]
<1>1. HasType(err, type) /\ err # Zero(type)
  BY AnsweredFacts DEF Answered, Failing
<1> HIDE DEF err, type
<1>2. err # Nil
  BY <1>1 DEF HasType, Zero
<1>3. QED BY <1>1, <1>2 DEF HasType, err, type

LEMMA WhatIsKept ==
  ASSUME NEW fn, NEW rs, Answered(fn, rs)
  PROVE  /\ Failing(fn, rs) => /\ processResults(rs, fn).err = rs[Len(rs)]
                               /\ ToKeep(rs, fn) = cachedError(rs[Len(rs)])
         /\ ~Failing(fn, rs) => /\ processResults(rs, fn).err = Nil
                                /\ ToKeep(rs, fn) = processResults(rs, fn).value
<1>1. processResults(rs, fn).err = IF Failing(fn, rs) THEN rs[Len(rs)] ELSE Nil
  BY DEF processResults, Failing
<1>2. QED BY <1>1, ErrorIsThere DEF ToKeep

\* An error is answered with itself and zeros.
LEMMA ErrorAnswered ==
  ASSUME NEW fn, NEW rs, Answered(fn, rs), Failing(fn, rs)
  PROVE  createErrorReturn(fn, rs[Len(rs)])
           = Returns([i \in DOMAIN rs |-> IF i = Len(rs) THEN rs[i] ELSE Zero(fn.out[i])])
<1> DEFINE n == Len(fn.out)
           err == rs[Len(rs)]
           answer == [i \in 1..n |-> IF i = n THEN err ELSE Zero(fn.out[i])]
<1>1. n \in Nat /\ n >= 2 /\ n = Len(rs) /\ DOMAIN rs = 1..n /\ DOMAIN fn.out = 1..n
  BY AnsweredFacts DEF Failing
<1>2. Len(answer) = n /\ DOMAIN answer = 1..n
  BY <1>1
<1>3. Assignable(answer[n], fn.out[n])
  <2>1. Assignable(err, fn.out[n])
    BY ErrorIsThere
  <2>2. answer[n] = err
    <3>1. n \in 1..n
      BY <1>1
    <3> HIDE DEF n, err
    <3>2. QED BY <3>1
  <2> HIDE DEF answer, err
  <2>3. QED BY <2>1, <2>2
<1>4. \A i \in DOMAIN answer \ (1..(n - 1)) : i = n
  BY <1>1, <1>2
<1>5. Returned(fn, answer, 1..(n - 1)) = Returns(answer)
  BY <1>2, <1>3, <1>4 DEF Returned
<1>6. createErrorReturn(fn, err) = Returned(fn, answer, 1..(n - 1))
  <2>1. n # 0
    BY <1>1
  <2>2. QED BY <2>1, Zenon DEF createErrorReturn
<1>7. answer = [i \in DOMAIN rs |-> IF i = Len(rs) THEN rs[i] ELSE Zero(fn.out[i])]
  BY <1>1
<1>8. QED BY <1>5, <1>6, <1>7

\* the results that carry a value, and what follows them
Values(fn, rs) == IF hasErrorReturn(fn) THEN SubSeq(rs, 1, Len(rs) - 1) ELSE rs
Rest(fn) == IF hasErrorReturn(fn) THEN <<NilError(fn)>> ELSE <<>>
Several(es) == IF Len(es) = 1 THEN es[1] ELSE Slice("[]any", es)

LEMMA ValuesFacts ==
  ASSUME NEW fn, NEW rs, Answered(fn, rs), ~Failing(fn, rs)
  PROVE  /\ Values(fn, rs) \in Seq(Range(rs)) /\ Values(fn, rs) \o Rest(fn) = rs
         /\ Len(fn.out) = Len(Values(fn, rs)) + Len(Rest(fn))
         /\ \A i \in 1..Len(Values(fn, rs)) : Values(fn, rs)[i] = rs[i]
         /\ ToKeep(rs, fn) = Several(Values(fn, rs))
<1>1. rs \in Seq(Range(rs)) /\ Len(fn.out) \in Nat /\ Len(rs) = Len(fn.out)
  BY AnsweredFacts DEF Answered
<1>2. ToKeep(rs, fn) = Several(Values(fn, rs))
  BY WhatIsKept DEF processResults, Several, Values, Failing
<1>3. CASE ~hasErrorReturn(fn)
  BY <1>1, <1>2, <1>3 DEF Values, Rest
<1>4. CASE hasErrorReturn(fn)
  <2>1. Len(rs) >= 2 /\ rs[Len(rs)] = NilError(fn)
    BY <1>4, AnsweredFacts DEF Failing
  <2> DEFINE es == SubSeq(rs, 1, Len(rs) - 1)
  <2>2. es \in Seq(Range(rs)) /\ Len(es) = Len(rs) - 1 /\ \A i \in 1..Len(es) : es[i] = rs[i]
    BY <1>1, <2>1
  <2>3. es \o <<NilError(fn)>> = rs
    BY <1>1, <2>1, <2>2
  <2>4. QED BY <1>1, <1>2, <1>4, <2>2, <2>3 DEF Values, Rest
<1>5. QED BY <1>3, <1>4

\* However many values there are, each comes out in its place.
LEMMA Converted ==
  ASSUME NEW fn, NEW rs, Answered(fn, rs), NEW S, NilError(fn) \in S, NEW es \in Seq(S),
         Len(fn.out) = Len(es) + Len(Rest(fn))
  PROVE  convertComputedValue(Several(es), fn)
           = IF \A i \in 1..Len(es) : Assignable(es[i], fn.out[i])
               THEN Returns(es \o Rest(fn)) ELSE Panicked
<1> DEFINE n == Len(es)
           all == es \o Rest(fn)
<1>1. n \in Nat /\ Len(fn.out) \in Nat /\ DOMAIN fn.out = 1..Len(fn.out)
  BY AnsweredFacts
<1>2. Rest(fn) \in Seq(S) /\ Len(Rest(fn)) \in {0, 1}
  BY DEF Rest
<1>3. all \in Seq(S) /\ Len(all) = Len(fn.out)
  BY <1>1, <1>2
<1>4. \A i \in 1..n : all[i] = es[i]
  BY <1>2
<1>10. Len(fn.out) = n => n + 1 \notin 1..n
  BY <1>1
<1>5. DOMAIN all \ {n + 1} = 1..n
  <2>1. Len(fn.out) = n \/ Len(fn.out) = n + 1
    <3>1. \A a \in Nat, b \in {0, 1} : a + b = a \/ a + b = a + 1
      OBVIOUS
    <3> HIDE DEF n
    <3>2. Len(fn.out) = n + Len(Rest(fn))
      BY DEF n
    <3>3. QED BY <1>1, <1>2, <3>1, <3>2
  <2> HIDE DEF all
  <2>2. DOMAIN all = 1..Len(fn.out)
    BY <1>3
  <2>3. QED BY <2>1, <2>2, <1>1, <1>10
<1>6. Returned(fn, all, {n + 1})
        = IF \A i \in 1..n : Assignable(es[i], fn.out[i]) THEN Returns(all) ELSE Panicked
  <2> HIDE DEF all, n
  <2>1. QED BY <1>3, <1>4, <1>5 DEF Returned
<1>7. CASE n = 1
  <2>1. es = <<es[1]>> /\ Several(es) = es[1]
    BY <1>7 DEF Several
  <2>2. convertComputedValue(es[1], fn) = Returned(fn, <<es[1]>> \o Rest(fn), {2})
    BY <1>7 DEF convertComputedValue, Rest
  <2>3. <<es[1]>> \o Rest(fn) = all
    BY <2>1, Zenon
  <2>5. {2} = {n + 1}
    BY <1>7
  <2> HIDE DEF all
  <2>4. QED BY <2>1, <2>2, <2>3, <2>5, <1>6
<1>8. CASE n # 1
  <2> DEFINE value == Slice("[]any", es)
  <2>1. Several(es) = value /\ value.kind = "slice" /\ value.type = "[]any" /\ value.elems = es
    BY <1>8 DEF Several, Slice
  <2>2. SubSeq(es, 1, n) = es
    BY <1>1
  <2>3. ~(Len(es) < n) /\ ~(Len(es) > n)
    BY <1>1
  <2> HIDE DEF value
  <2>4. convertComputedValue(value, fn) = Returned(fn, SubSeq(es, 1, n) \o Rest(fn), {n + 1})
    BY <1>8, <2>1, <2>3 DEF convertComputedValue, Rest
  <2>5. QED BY <2>1, <2>2, <2>4, <1>6
<1>9. QED BY <1>7, <1>8

\* What was kept comes back, or an interface that is nil panics.
LEMMA ValueAnswered ==
  ASSUME NEW fn, NEW rs, Answered(fn, rs), ~Failing(fn, rs)
  PROVE  LET how == convertComputedValue(ToKeep(rs, fn), fn)
         IN /\ how \in {Panicked, Returns(rs)}
            /\ (\A i \in DOMAIN rs : i < Len(rs) \/ ~hasErrorReturn(fn) => rs[i] # Nil)
                 => how = Returns(rs)
<1> DEFINE es == Values(fn, rs)
           S == Range(rs) \union {NilError(fn)}
<1>1. /\ es \in Seq(Range(rs)) /\ es \o Rest(fn) = rs
      /\ Len(fn.out) = Len(es) + Len(Rest(fn))
      /\ \A i \in 1..Len(es) : es[i] = rs[i]
      /\ ToKeep(rs, fn) = Several(es)
  BY ValuesFacts
<1>2. es \in Seq(S)
  BY <1>1
<1> HIDE DEF es, S
<1>3. convertComputedValue(Several(es), fn)
        = IF \A i \in 1..Len(es) : Assignable(es[i], fn.out[i])
            THEN Returns(es \o Rest(fn)) ELSE Panicked
  <2>1. NilError(fn) \in S
    BY DEF S
  <2>2. QED BY <1>1, <1>2, <2>1, Converted
<1>4. ASSUME \A i \in DOMAIN rs : i < Len(rs) \/ ~hasErrorReturn(fn) => rs[i] # Nil
      PROVE  \A i \in 1..Len(es) : Assignable(es[i], fn.out[i])
  <2> SUFFICES ASSUME NEW i \in 1..Len(es) PROVE Assignable(es[i], fn.out[i])
    OBVIOUS
  <2>1. i \in 1..Len(rs) /\ (i < Len(rs) \/ ~hasErrorReturn(fn))
    <3>1. Len(es) \in Nat /\ Len(fn.out) = Len(rs) /\ Len(fn.out) \in Nat
      BY <1>2, AnsweredFacts
    <3>2. CASE hasErrorReturn(fn)
      <4>1. Len(Rest(fn)) = 1
        BY <3>2 DEF Rest
      <4>2. QED BY <1>1, <3>1, <4>1
    <3>3. CASE ~hasErrorReturn(fn)
      <4>1. Len(Rest(fn)) = 0
        BY <3>3 DEF Rest
      <4>2. QED BY <1>1, <3>1, <3>3, <4>1
    <3>4. QED BY <3>2, <3>3
  <2>2. DOMAIN rs = 1..Len(rs) /\ DOMAIN fn.out = 1..Len(rs)
    BY AnsweredFacts
  <2>3. rs[i] # Nil /\ HasType(rs[i], fn.out[i])
    BY <1>4, <2>1, <2>2 DEF Answered
  <2>4. QED BY <1>1, <2>3 DEF HasType
<1>5. QED BY <1>1, <1>3, <1>4

\* What JSON makes of it comes back unchanged, or panics.
LEMMA ImageAnswered ==
  ASSUME NEW fn, NEW rs, Answered(fn, rs), ~Failing(fn, rs), Plainly(fn), Legible(rs),
         \A i \in DOMAIN rs : JsonContract(rs[i]),
         JsonContract(ToKeep(rs, fn)), Serialisable(ToKeep(rs, fn))
  PROVE  convertComputedValue(Image(ToKeep(rs, fn)), fn) \in {Panicked, Returns(rs)}
<1> DEFINE es == Values(fn, rs)
           images == [i \in 1..Len(es) |-> Image(es[i])]
           S == {Image(es[i]) : i \in 1..Len(es)} \union {NilError(fn)}
<1>1. /\ es \in Seq(Range(rs)) /\ es \o Rest(fn) = rs
      /\ Len(fn.out) = Len(es) + Len(Rest(fn)) /\ Len(es) \in Nat
      /\ \A i \in 1..Len(es) : es[i] = rs[i]
      /\ ToKeep(rs, fn) = Several(es)
  BY ValuesFacts
<1>2. images \in Seq(S) /\ Len(images) = Len(es) /\ DOMAIN images = 1..Len(es)
  BY <1>1
<1>3. DOMAIN rs = 1..Len(rs) /\ DOMAIN fn.out = 1..Len(rs) /\ \A i \in 1..Len(es) : i \in 1..Len(rs)
  <2>1. Len(Rest(fn)) \in {0, 1}
    BY DEF Rest
  <2>2. Len(fn.out) = Len(rs) /\ Len(fn.out) \in Nat /\ DOMAIN rs = 1..Len(rs)
        /\ DOMAIN fn.out = 1..Len(rs)
    BY AnsweredFacts
  <2> HIDE DEF es
  <2>3. QED BY <1>1, <2>1, <2>2
<1> HIDE DEF es, S, images
<1>4. Image(Several(es)) = Several(images) /\ \A i \in 1..Len(es) : Serialisable(es[i])
  <2>1. CASE Len(es) = 1
    <3>1. Several(es) = es[1] /\ Several(images) = images[1] /\ images[1] = Image(es[1])
      BY <2>1, <1>2 DEF Several, images
    <3>2. \A i \in 1..Len(es) : i = 1
      BY <2>1
    <3>3. QED BY <1>1, <3>1, <3>2
  <2>2. CASE Len(es) # 1
    <3>1. Several(es) = Slice("[]any", es) /\ Several(images) = Slice("[]any", images)
      BY <2>2, <1>2 DEF Several
    <3>2. /\ Slice("[]any", es).kind = "slice" /\ ~Slice("[]any", es).isNil
          /\ Slice("[]any", es).elems = es
      BY DEF Slice
    <3>3. DOMAIN es = 1..Len(es)
      BY <1>1
    <3>7. Slice("[]any", es).type = "[]any"
      BY DEF Slice
    <3>4. JsonContract(Slice("[]any", es)) /\ Serialisable(Slice("[]any", es))
      BY <1>1, <3>1
    <3>5. /\ \A i \in DOMAIN es : Serialisable(es[i])
          /\ Image(Slice("[]any", es)) = Slice("[]any", [i \in DOMAIN es |-> Image(es[i])])
      BY <3>2, <3>4, <3>7 DEF JsonContract
    <3>6. QED BY <3>1, <3>3, <3>5 DEF images
  <2>3. QED BY <2>1, <2>2
<1>5. convertComputedValue(Several(images), fn)
        = IF \A i \in 1..Len(es) : Assignable(images[i], fn.out[i])
            THEN Returns(images \o Rest(fn)) ELSE Panicked
  <2>1. NilError(fn) \in S /\ Len(fn.out) = Len(images) + Len(Rest(fn))
    BY <1>1, <1>2 DEF S
  <2>2. QED BY <1>2, <2>1, Converted
<1>6. ASSUME \A i \in 1..Len(es) : Assignable(images[i], fn.out[i])
      PROVE  images = es
  <2>1. ASSUME NEW i \in 1..Len(es) PROVE images[i] = es[i]
    <3> DEFINE v == rs[i]
               t == fn.out[i]
    <3>1. images[i] = Image(v) /\ es[i] = v /\ Serialisable(v) /\ JsonContract(v)
      BY <1>1, <1>3, <1>4 DEF images
    <3>2. HasType(v, t) /\ Assignable(Image(v), t) /\ t \in Range(fn.out)
      BY <1>3, <1>6, <3>1 DEF Answered, Range
    <3>3. t \notin {"any", "map[string]any", "[]any"}
      BY <3>2 DEF Plainly
    <3> HIDE DEF v, t
    <3>4. Image(v) # Nil /\ TypeOf(Image(v)) \in JsonTypes
      BY <3>1, <3>2 DEF JsonContract, Assignable
    <3>5. t \notin Interfaces /\ TypeOf(Image(v)) = t
      BY <3>2, <3>3, <3>4 DEF Assignable, Interfaces, Implements, JsonTypes
    <3>6. TypeOf(v) = t /\ t \in {"string", "bool", "float64"}
      BY <3>2, <3>3, <3>4, <3>5 DEF HasType, Assignable, Interfaces, JsonTypes
    <3>9. v \in Range(rs)
      BY <1>3 DEF v, Range
    <3>7. Image(v) = v
      BY <3>1, <3>6, <3>9 DEF JsonContract, Legible
    <3>8. QED BY <3>1, <3>7
  <2>2. es = [i \in 1..Len(es) |-> es[i]]
    BY <1>1
  <2>3. QED BY <2>1, <2>2 DEF images
<1>7. QED BY <1>1, <1>4, <1>5, <1>6

\* What a caller is to get where fn answers rs: beside an error, zeros.
AnswerOf(fn, rs) ==
  IF Failing(fn, rs)
    THEN [i \in DOMAIN rs |-> IF i = Len(rs) THEN rs[i] ELSE Zero(fn.out[i])]
    ELSE rs

LEMMA FoundInMemory ==
  ASSUME NEW fn, NEW rs, Answered(fn, rs)
  PROVE  LET how == convertCachedValue(ToKeep(rs, fn), fn)
         IN /\ how \in {Panicked, Returns(AnswerOf(fn, rs))}
            /\ (\A i \in DOMAIN rs : i < Len(rs) \/ ~hasErrorReturn(fn) => rs[i] # Nil)
                 => how = Returns(AnswerOf(fn, rs))
<1>1. CASE Failing(fn, rs)
  <2> DEFINE kept == cachedError(rs[Len(rs)])
  <2>1. kept.kind = "struct" /\ kept.type = "cachedError" /\ kept.fields[1].v = rs[Len(rs)]
    BY DEF cachedError, Struct, Field
  <2>2. ToKeep(rs, fn) = kept
    BY <1>1, WhatIsKept
  <2> HIDE DEF kept
  <2>3. convertCachedValue(kept, fn) = createErrorReturn(fn, rs[Len(rs)])
    BY <2>1 DEF convertCachedValue, isCachedError
  <2>4. QED BY <1>1, <2>2, <2>3, ErrorAnswered DEF AnswerOf
<1>2. CASE ~Failing(fn, rs)
  <2> DEFINE es == Values(fn, rs)
  <2>1. /\ ToKeep(rs, fn) = Several(es) /\ Len(es) \in Nat
        /\ \A i \in 1..Len(es) : es[i] = rs[i]
        /\ Len(fn.out) = Len(es) + Len(Rest(fn))
    BY <1>2, ValuesFacts
  <2> HIDE DEF es
  <2>2. ~isCachedError(Several(es))
    <3>1. CASE Len(es) = 1
      <4>1. 1 \in DOMAIN fn.out
        <5>1. Len(Rest(fn)) \in {0, 1}
          BY DEF Rest
        <5>2. QED BY <2>1, <3>1, <5>1, AnsweredFacts
      <4>2. HasType(es[1], fn.out[1]) /\ Several(es) = es[1]
        BY <2>1, <3>1, <4>1 DEF Answered, Several
      <4>3. QED BY <4>2 DEF HasType, isCachedError, Nil
    <3>2. CASE Len(es) # 1
      BY <3>2 DEF Several, Slice, isCachedError
    <3>3. QED BY <3>1, <3>2
  <2>3. convertCachedValue(ToKeep(rs, fn), fn) = convertComputedValue(ToKeep(rs, fn), fn)
    BY <2>1, <2>2 DEF convertCachedValue
  <2>4. QED BY <1>2, <2>3, ValueAnswered DEF AnswerOf
<1>3. QED BY <1>1, <1>2

\* JSON makes a map of a cached error, and that is no result of fn.
LEMMA FoundInJson ==
  ASSUME NEW fn, NEW rs, Answered(fn, rs), Plainly(fn), Legible(rs),
         \A i \in DOMAIN rs : JsonContract(rs[i]),
         JsonContract(ToKeep(rs, fn)), Serialisable(ToKeep(rs, fn))
  PROVE  convertCachedValue(Image(ToKeep(rs, fn)), fn) \in {Panicked, Returns(AnswerOf(fn, rs))}
<1> DEFINE image == Image(ToKeep(rs, fn))
<1>1. image = Nil \/ TypeOf(image) \in JsonTypes
  BY DEF JsonContract
<1>2. ~isCachedError(image)
  BY <1>1 DEF isCachedError, TypeOf, JsonTypes, Nil
<1>3. convertCachedValue(image, fn) = convertComputedValue(image, fn)
  BY <1>2 DEF convertCachedValue
<1>4. CASE ~Failing(fn, rs)
  BY <1>3, <1>4, ImageAnswered DEF AnswerOf
<1>5. CASE Failing(fn, rs)
  <2>1. hasErrorReturn(fn) /\ Len(fn.out) \in Nat /\ Len(fn.out) >= 2 /\ DOMAIN fn.out = 1..Len(fn.out)
    BY <1>5, AnsweredFacts DEF Failing
  <2>2. ToKeep(rs, fn).kind = "struct" /\ ToKeep(rs, fn).type \notin Marshalers
    <3>1. ToKeep(rs, fn) = cachedError(rs[Len(rs)])
      BY <1>5, WhatIsKept
    <3>2. QED BY <3>1 DEF cachedError, Struct, Marshalers
  <2>3. image.kind = "map" /\ TypeOf(image) = "map[string]any"
    BY <2>2 DEF JsonContract
  <2> HIDE DEF image
  <2>4. fn.out[1] \in Range(fn.out)
    BY <2>1 DEF Range
  <2>5. ~Assignable(image, fn.out[1])
    BY <2>3, <2>4 DEF Plainly, Assignable, Interfaces, Implements
  <2>6. CASE Len(fn.out) = 2
    <3> DEFINE S == {image, NilError(fn)}
               es == <<image>>
    <3>1. es \in Seq(S) /\ NilError(fn) \in S /\ Len(es) = 1 /\ es[1] = image
      OBVIOUS
    <3>2. Len(fn.out) = Len(es) + Len(Rest(fn))
      BY <2>1, <2>6, <3>1 DEF Rest
    <3> HIDE DEF S, es
    <3>3. Several(es) = image /\ ~Assignable(es[1], fn.out[1]) /\ 1 \in 1..Len(es)
      BY <2>5, <3>1 DEF Several
    <3>4. convertComputedValue(Several(es), fn) = Panicked
      BY <3>1, <3>2, <3>3, Converted
    <3>5. convertCachedValue(image, fn) = Panicked
      BY <1>3, <3>3, <3>4
    <3>6. QED BY <3>5 DEF image
  <2>7. CASE Len(fn.out) # 2
    <3>1. Len(fn.out) - (IF hasErrorReturn(fn) THEN 1 ELSE 0) # 1
      BY <2>1, <2>7
    <3>2. ~(image.kind = "slice" /\ image.type = "[]any")
      BY <2>3
    <3>3. convertComputedValue(image, fn) = Panicked
      BY <3>1, <3>2, Zenon DEF convertComputedValue
    <3>4. convertCachedValue(image, fn) = Panicked
      BY <1>3, <3>3
    <3>5. QED BY <3>4 DEF image
  <2>8. QED BY <2>6, <2>7
<1>6. QED BY <1>4, <1>5

-----------------------------------------------------------------------------
(* Entries.                                                                *)

\* What is found in the entry is v, or what JSON makes of it.
Keeps(entry, v) ==
  /\ entry.ttl \in Nat /\ (entry.compressed => entry.size < entry.original)
  /\ decompressValue(entry).ok =>
       IF JsonImages THEN Serialisable(v) /\ decompressValue(entry).value = Image(v)
                     ELSE decompressValue(entry).value = v

\* What is not compressed is the JSON itself; what is compressed has shrunk.
LEMMA Serialised ==
  ASSUME NEW v, JsonContract(v), NEW c, NEW minSize, SerializeAndCompress(v, c, minSize).ok
  PROVE  LET s == SerializeAndCompress(v, c, minSize)
         IN /\ Serialisable(v)
            /\ s.compressed \in BOOLEAN
            /\ ~s.compressed => s.data = Marshal(v)
            /\ s.compressed => /\ s.data.size < Marshal(v).size
                               /\ c.name # "none" /\ s.data.by = c.name
                              /\ Decompress(c, s.data).by = "none"
                              /\ Decompress(c, s.data).of = Image(v)
<1> DEFINE raw == Marshal(v)
           out == Compress(c, raw)
           small == raw.size < minSize
           s == SerializeAndCompress(v, c, minSize)
<1>1. raw.of = Image(v) /\ raw.by = "none" /\ raw.size = SizeOf(Image(v))
  BY DEF Marshal
<1>2. Serialisable(v) /\ raw.size \in Nat
  BY <1>1 DEF SerializeAndCompress, JsonContract
<1>3. c.name # "none" => /\ out.by = c.name
                         /\ out.size = Overhead + raw.size \div 2
  BY DEF Compress, Marshal
<1>10. c.name # "none" => /\ Decompress(c, out).by = "none"
                          /\ Decompress(c, out).of = Image(v)
  BY DEF Compress, Decompress, Marshal
<1>4. c.name = "none" => out = raw
  BY DEF Compress
<1>5. out.size \in Int
  <2>1. raw.size \div 2 \in Int
    BY <1>2
  <2> HIDE DEF raw, out
  <2>2. QED BY <1>2, <1>3, <1>4, <2>1, OverheadType
<1>6. s = IF small \/ out.size >= raw.size
            THEN [ok |-> TRUE, data |-> raw, compressed |-> FALSE]
            ELSE [ok |-> TRUE, data |-> out, compressed |-> TRUE]
  BY DEF SerializeAndCompress
<1> HIDE DEF raw, out, s, small
<1>7. CASE small \/ out.size >= raw.size
  BY <1>2, <1>6, <1>7 DEF s, raw
<1>8. CASE ~(small \/ out.size >= raw.size)
  <2>1. s.data = out /\ s.compressed = TRUE /\ out.size < raw.size
    BY <1>2, <1>5, <1>6, <1>8
  <2>2. c.name # "none"
    BY <1>2, <1>4, <2>1
  <2>3. QED BY <1>2, <1>3, <1>10, <2>1, <2>2 DEF s, raw
<1>9. QED BY <1>7, <1>8

LEMMA PlainSize ==
  ASSUME NEW v, Serialisable(v)
  PROVE  /\ SerializeAndCompress(v, NoOpCompressor, 0).ok
         /\ SerializeAndCompress(v, NoOpCompressor, 0).data = Marshal(v)
BY DEF SerializeAndCompress, NoOpCompressor, Compresses, Compress

LEMMA EntryKeeps ==
  ASSUME NEW v, JsonContract(v), NEW ttl \in Nat,
         LET s == SerializeAndCompress(v, Cache.compressor, Cache.compression.minSize)
         IN s.ok => JsonContract(Bytes(s.data)),
         createCompressedEntry(v, ttl).ok,
         Cache.store.kind = "redis" => Serialisable(createCompressedEntry(v, ttl).entry.value)
  PROVE  Keeps(Stored(createCompressedEntry(v, ttl).entry), v)
<1> DEFINE c == Cache
           made == createCompressedEntry(v, ttl)
           s == SerializeAndCompress(v, c.compressor, c.compression.minSize)
           entry == Stored(made.entry)
<1>1. CASE ~c.compression.enabled
  <2>1. made.entry = Entry(v, ttl)
    BY <1>1 DEF createCompressedEntry
  <2>2. CASE c.store.kind = "redis"
    <3>1. entry = Entry(Image(v), ttl) /\ Serialisable(v) /\ JsonImages
      BY <2>1, <2>2 DEF Stored, Entry, JsonImages
    <3> HIDE DEF entry
    <3>2. decompressValue(entry).value = Image(v)
      BY <1>1, <3>1 DEF decompressValue, Entry
    <3>3. entry.ttl = ttl /\ entry.compressed = FALSE
      BY <3>1 DEF Entry
    <3>4. Keeps(entry, v)
      BY <3>1, <3>2, <3>3 DEF Keeps
    <3>5. QED BY <3>4 DEF entry
  <2>3. CASE c.store.kind # "redis"
    <3>1. entry = Entry(v, ttl) /\ ~JsonImages
      BY <1>1, <2>1, <2>3 DEF Stored, JsonImages
    <3> HIDE DEF entry
    <3>2. decompressValue(entry).value = v
      BY <1>1, <3>1 DEF decompressValue, Entry
    <3>3. entry.ttl = ttl /\ entry.compressed = FALSE
      BY <3>1 DEF Entry
    <3>4. Keeps(entry, v)
      BY <3>1, <3>2, <3>3 DEF Keeps
    <3>5. QED BY <3>4 DEF entry
  <2>4. QED BY <2>2, <2>3
<1>2. CASE c.compression.enabled
  <2>0. JsonImages
    BY <1>2 DEF JsonImages
  <2>1. s.ok
    BY <1>2 DEF createCompressedEntry
  <2>2. /\ Serialisable(v) /\ s.compressed \in BOOLEAN
        /\ ~s.compressed => s.data = Marshal(v)
        /\ s.compressed => /\ s.data.size < Marshal(v).size
                           /\ c.compressor.name # "none" /\ s.data.by = c.compressor.name
                           /\ Decompress(c.compressor, s.data).by = "none"
                           /\ Decompress(c.compressor, s.data).of = Image(v)
    BY <2>1, Serialised
  <2>3. /\ made.entry.value = Bytes(s.data) /\ made.entry.ttl = ttl
        /\ made.entry.compressed = s.compressed
        /\ s.compressed => /\ made.entry.size = s.data.size
                           /\ made.entry.original = Marshal(v).size
    <3>1. CASE ~s.compressed
      <4>1. made.entry = Entry(Bytes(s.data), ttl)
        BY <1>2, <2>1, <3>1 DEF createCompressedEntry
      <4>2. s.compressed = FALSE
        BY <2>2, <3>1
      <4> HIDE DEF s, made
      <4>3. /\ made.entry.value = Bytes(s.data) /\ made.entry.ttl = ttl
            /\ made.entry.compressed = FALSE
        BY <4>1 DEF Entry
      <4>4. QED BY <3>1, <4>2, <4>3, Zenon
    <3>2. CASE s.compressed
      <4>1. made.entry = [Entry(Bytes(s.data), ttl) EXCEPT
                            !.compressed = TRUE, !.size = s.data.size,
                            !.original = Marshal(v).size]
        <5> DEFINE plain == SerializeAndCompress(v, NoOpCompressor, 0)
        <5>1. plain.ok /\ plain.data.size = Marshal(v).size
          BY <2>2, PlainSize
        <5> HIDE DEF plain
        <5>2. made.entry = [Entry(Bytes(s.data), ttl) EXCEPT
                              !.compressed = TRUE, !.size = s.data.size,
                              !.original = IF plain.ok THEN plain.data.size
                                                       ELSE approximateSize(v)]
          BY <1>2, <2>1, <3>2 DEF createCompressedEntry, plain
        <5>3. QED BY <5>1, <5>2
      <4>2. s.compressed = TRUE
        BY <2>2, <3>2
      <4> HIDE DEF s, made
      <4>3. QED BY <3>2, <4>1, <4>2 DEF Entry
    <3>3. QED BY <3>1, <3>2
  <2> HIDE DEF s, made
  <2>4. CASE c.store.kind = "redis"
    <3>1. entry = Entry(Image(made.entry.value), ttl)
      BY <2>3, <2>4 DEF Stored
    <3>2. JsonContract(Bytes(s.data)) /\ Serialisable(Bytes(s.data))
      BY <2>1, <2>3, <2>4 DEF s, made
    <3>3. entry.value.kind = "string"
      BY <2>3, <3>1, <3>2 DEF JsonContract, Bytes, Entry
    <3>4. entry.ttl = ttl /\ entry.compressed = FALSE
      BY <3>1 DEF Entry
    <3> HIDE DEF entry
    <3>5. ~decompressValue(entry).ok
      BY <1>2, <3>3 DEF decompressValue
    <3>6. Keeps(entry, v)
      BY <3>4, <3>5 DEF Keeps
    <3>7. QED BY <3>6 DEF entry, made
  <2>5. CASE c.store.kind # "redis"
    <3>1. entry = made.entry
      BY <2>5 DEF Stored
    <3> HIDE DEF entry
    <3>2. entry.value.kind = "bytes" /\ entry.value.data = s.data /\ entry.compressed = s.compressed
      BY <2>3, <3>1 DEF Bytes
    <3>3. decompressValue(entry) = DecompressAndDeserialize(s.data, s.compressed, c.compressor)
      BY <1>2, <3>2 DEF decompressValue
    <3>4. decompressValue(entry).value = Image(v)
      <4>1. CASE ~s.compressed
        <5>1. s.data.by = "none" /\ s.data.of = Image(v)
          BY <2>2, <4>1 DEF Marshal
        <5>2. QED BY <3>3, <4>1, <5>1 DEF DecompressAndDeserialize
      <4>2. CASE s.compressed
        <5> DEFINE raw == Decompress(c.compressor, s.data)
        <5>1. Decompresses(c.compressor, s.data) /\ raw.by = "none" /\ raw.of = Image(v)
          BY <2>2, <4>2 DEF Decompresses
        <5>2. decompressValue(entry) = [ok |-> TRUE, value |-> raw.of]
          BY <3>3, <4>2, <5>1, Zenon DEF DecompressAndDeserialize, raw
        <5> HIDE DEF raw
        <5>3. QED BY <5>1, <5>2
      <4>3. QED BY <4>1, <4>2
    <3>5. entry.ttl = ttl /\ (entry.compressed => entry.size < entry.original)
      BY <2>2, <2>3, <3>1
    <3>6. Keeps(entry, v)
      BY <2>0, <2>2, <3>4, <3>5 DEF Keeps
    <3>7. QED BY <3>6 DEF entry, made
  <2>6. QED BY <2>4, <2>5
<1>3. QED BY <1>1, <1>2

-----------------------------------------------------------------------------
(* The invariant.                                                          *)

\* x has returned, and e is what would be kept of its answer under its key
Explains(x, k, e) ==
  /\ x.key = k /\ Run(x.w.fn, x.args).ends = "returned"
  /\ Keeps(e, ToKeep(Run(x.w.fn, x.args).results, x.w.fn))

\* A call that never completes in the group
Breaks(fn, args) == Run(fn, args) = Panicked \/ IsNilPanics(fn)

\* Whatever is in the store or in the group, some call with its key has left it.
CallsInv ==
  /\ scenario \in Scenarios /\ calls \in 0..scenario.calls
  /\ \A x \in asked : x.w \in Usable(scenario) /\ x.args \in x.w.fn.inputs
  /\ \A k \in DOMAIN slots : ~KeyPanics(k) /\ \E x \in asked : Explains(x, k, slots[k])
  /\ \A k \in stuck : \E x \in asked : x.key = k /\ Breaks(x.w.fn, x.args)

AnswerInv ==
  /\ last.how.ends \in {"none", "returned", "panicked", "hangs"}
  /\ Transparent /\ ExactOrPanic

IInv == CallsInv /\ AnswerInv

LEMMA CacheFacts ==
  ASSUME scenario \in Scenarios, NEW w \in Usable(scenario)
  PROVE  /\ Cache.defaultTTL \in Nat
         /\ w.opts.ttl \in Int /\ w.opts.errorTTL \in Int
<1>1. Cache.ends = "ok"
  BY DEF Usable, Cache
<1>2. Cache.defaultTTL = scenario.config.defaultTTL
  BY <1>1 DEF Cache, New, Failed
<1>3. QED BY <1>2, ScenarioTypes

LEMMA RunFacts ==
  ASSUME scenario \in Scenarios, NEW w \in Usable(scenario), NEW args \in w.fn.inputs
  PROVE  LET r == Run(w.fn, args)
             rs == r.results
             v == ToKeep(rs, w.fn)
             s == SerializeAndCompress(v, Cache.compressor, Cache.compression.minSize)
         IN \/ r = Panicked
            \/ /\ r.ends = "returned" /\ r = Returns(rs) /\ Answered(w.fn, rs)
               /\ \A i \in DOMAIN rs : JsonContract(rs[i])
               /\ JsonContract(v) /\ (s.ok => JsonContract(Bytes(s.data)))
<1> DEFINE r == Run(w.fn, args)
<1>1. CASE r = Panicked
  BY <1>1
<1>2. CASE r # Panicked
  <2>1. r = Returns(r.results) /\ Answered(w.fn, r.results)
    BY <1>2, FunctionTypes DEF Answered
  <2>2. r.ends = "returned"
    BY <2>1 DEF Returns
  <2>3. LET v == ToKeep(r.results, w.fn)
            s == SerializeAndCompress(v, Cache.compressor, Cache.compression.minSize)
        IN /\ \A i \in DOMAIN r.results : JsonContract(r.results[i])
           /\ JsonContract(v) /\ (s.ok => JsonContract(Bytes(s.data)))
    BY <2>2, JsonAssumption DEF Cache
  <2>4. QED BY <2>1, <2>2, <2>3
<1>3. QED BY <1>1, <1>2

\* A call ends with what Returned says, or worse.
LEMMA HowItEnds ==
  ASSUME NEW fn, NEW v
  PROVE  /\ createErrorReturn(fn, v).ends \in {"returned", "panicked"}
         /\ convertComputedValue(v, fn).ends \in {"returned", "panicked"}
         /\ convertCachedValue(v, fn).ends \in {"returned", "panicked"}
<1>1. \A rs, zeros : Returned(fn, rs, zeros).ends \in {"returned", "panicked"}
  BY DEF Returned, Returns, Panicked
<1>2. Panicked.ends = "panicked"
  BY DEF Panicked
<1>3. \A e : createErrorReturn(fn, e).ends \in {"returned", "panicked"}
  BY <1>1, <1>2 DEF createErrorReturn
<1>4. \A e : convertComputedValue(e, fn).ends \in {"returned", "panicked"}
  BY <1>1, <1>2, Zenon DEF convertComputedValue
<1>5. QED BY <1>3, <1>4 DEF convertCachedValue

\* Explained before is explained after.
LEMMA ExplainsSame ==
  ASSUME UNCHANGED scenario, NEW x, NEW k, NEW e, e = slots'[k], Explains(x, k, e)
  PROVE  Explains(x, k, slots[k])'
BY DEF Explains, Keeps, decompressValue, JsonImages, Cache

-----------------------------------------------------------------------------
(* Steps.                                                                  *)

\* w can be called with args
Callable(w, args) ==
  w \in Usable(scenario) /\ args \in w.fn.inputs /\ calls < scenario.calls

\* What the caller is to get.
Due(w, args) ==
  LET rs == Run(w.fn, args).results
  IN IF w.opts.disable THEN rs ELSE AnswerOf(w.fn, rs)

NoNils(fn, rs) == \A i \in DOMAIN rs : i < Len(rs) \/ ~hasErrorReturn(fn) => rs[i] # Nil

\* What each call has to show, when no other call has met its key.
Shows(w, args, how) ==
  ~w.fn.variadic =>
    /\ (/\ ~JsonImages /\ ~KeyPanics(KeyOf(w, args)) /\ ~IsNilPanics(w.fn)
        /\ Run(w.fn, args).ends = "returned" /\ NoNils(w.fn, Run(w.fn, args).results))
         => how = Returns(Due(w, args))
    /\ Plainly(w.fn) /\ Legible(Run(w.fn, args).results) /\ how.ends = "returned"
         => how.results = Due(w, args)

LEMMA Judged ==
  ASSUME NEW w, NEW args, NEW how, Ended(w, args, how),
         how.ends \in {"returned", "panicked", "hangs"}, Alone' => Shows(w, args, how)
  PROVE  AnswerInv'
<1>1. last' = [w |-> w, args |-> args, how |-> how] /\ UNCHANGED scenario
  BY DEF Ended
<1>2. last'.w = w /\ last'.args = args /\ last'.how = how
  BY <1>1
<1>3. ASSUME ~w.fn.variadic
      PROVE  /\ w.fn.does[args] = Run(w.fn, args)
             /\ Answer' = Due(w, args)
             /\ NoNilInterface' <=> NoNils(w.fn, Run(w.fn, args).results)
  <2>1. w.fn.does[args] = Run(w.fn, args)
    BY <1>3 DEF Run
  <2>2. Answer' = Due(w, args)
    BY <1>2, <2>1 DEF Answer, Due, AnswerOf, Failing, Last
  <2>3. NoNilInterface' <=> NoNils(w.fn, Run(w.fn, args).results)
    BY <1>2, <2>1 DEF NoNilInterface, NoNils
  <2>4. QED BY <2>1, <2>2, <2>3
<1>4. JsonImages' <=> JsonImages
  BY <1>1 DEF JsonImages, Cache
<1>5. Wrappable(w.fn) => ~w.fn.variadic
  BY DEF Wrappable
<1>6. Transparent'
  BY <1>2, <1>3, <1>4, <1>5 DEF Transparent, Accepted, Shows
<1>7. ExactOrPanic'
  BY <1>2, <1>3 DEF ExactOrPanic, Shows, Plainly, Legible
<1>8. QED BY <1>2, <1>6, <1>7 DEF AnswerInv

\* Of two calls that have one key and nobody else's, one is as good as the other.
LEMMA SameRun ==
  ASSUME CallsInv, NEW w, NEW args, Callable(w, args), NEW how, Ended(w, args, how), Alone',
         NEW x \in asked, x.key = KeyOf(w, args)
  PROVE  x.w.fn = w.fn /\ Run(x.w.fn, x.args) = Run(w.fn, args)
<1>1. last'.w = w /\ last'.args = args /\ x \in asked'
  BY DEF Ended
<1>2. x.w.fn.name = w.fn.name /\ SameArgs(x.args, args)
  BY <1>1 DEF Alone
<1>3. /\ scenario \in Scenarios /\ x.w \in Usable(scenario) /\ x.args \in x.w.fn.inputs
      /\ w \in Usable(scenario) /\ args \in w.fn.inputs
  BY DEF CallsInv, Callable
<1>4. QED BY <1>2, <1>3, Deterministic

\* The history of a call, and what it leaves alone.
LEMMA Asked ==
  ASSUME CallsInv, NEW w, NEW args, Callable(w, args), NEW how, Ended(w, args, how)
  PROVE  /\ scenario' \in Scenarios /\ calls' \in 0..scenario'.calls /\ asked \subseteq asked'
         /\ \A x \in asked' : x.w \in Usable(scenario') /\ x.args \in x.w.fn.inputs
         /\ \E x \in asked' : x.w = w /\ x.args = args /\ x.key = KeyOf(w, args)
<1>1. scenario.calls \in Nat
  BY ScenarioTypes DEF CallsInv
<1>2. calls' \in 0..scenario'.calls
  BY <1>1 DEF CallsInv, Callable, Ended
<1>3. asked' = asked \union {[w |-> w, args |-> args, key |-> KeyOf(w, args)]}
  BY DEF Ended
<1> DEFINE new == [w |-> w, args |-> args, key |-> KeyOf(w, args)]
<1>4. scenario' = scenario /\ scenario \in Scenarios
  BY DEF CallsInv, Ended
<1>5. new.w = w /\ new.args = args /\ new.key = KeyOf(w, args)
  OBVIOUS
<1> HIDE DEF new
<1>6. asked' = asked \union {new}
  BY <1>3 DEF new
<1>7. \A x \in asked' : x.w \in Usable(scenario') /\ x.args \in x.w.fn.inputs
  BY <1>4, <1>5, <1>6 DEF CallsInv, Callable
<1>8. QED BY <1>2, <1>4, <1>5, <1>6, <1>7

\* What stays in the store is as well explained as before.
LEMMA StillExplained ==
  ASSUME CallsInv, UNCHANGED scenario, asked \subseteq asked',
         NEW k \in DOMAIN slots, slots'[k] = slots[k]
  PROVE  ~KeyPanics(k) /\ (\E x \in asked : Explains(x, k, slots[k]))'
<1>1. PICK x \in asked : Explains(x, k, slots[k])
  BY DEF CallsInv
<1>2. Explains(x, k, slots[k])'
  BY <1>1, ExplainsSame
<1>3. QED BY <1>1, <1>2 DEF CallsInv

\* So it is with what a call puts there.
LEMMA KeptExplained ==
  ASSUME CallsInv, NEW w, NEW args, Callable(w, args), UNCHANGED scenario, asked \subseteq asked',
         \E x \in asked' : x.w = w /\ x.args = args /\ x.key = KeyOf(w, args),
         ~KeyPanics(KeyOf(w, args)), Run(w.fn, args).ends = "returned", NEW ttl \in Int,
         slots' = Kept(KeyOf(w, args), ToKeep(Run(w.fn, args).results, w.fn), ttl)
  PROVE  (\A k \in DOMAIN slots : ~KeyPanics(k) /\ \E x \in asked : Explains(x, k, slots[k]))'
<1> DEFINE key == KeyOf(w, args)
           v == ToKeep(Run(w.fn, args).results, w.fn)
           lasting == IF ttl <= 0 THEN Cache.defaultTTL ELSE ttl
           made == createCompressedEntry(v, lasting)
           e == Stored(made.entry)
<1>1. /\ scenario \in Scenarios /\ w \in Usable(scenario) /\ args \in w.fn.inputs
  BY DEF CallsInv, Callable
<1>2. lasting \in Nat
  BY <1>1, CacheFacts
<1>3. /\ JsonContract(v)
      /\ LET s == SerializeAndCompress(v, Cache.compressor, Cache.compression.minSize)
         IN s.ok => JsonContract(Bytes(s.data))
  <2>1. Run(w.fn, args) # Panicked
    BY DEF Panicked
  <2>2. QED BY <1>1, <2>1, RunFacts
<1>4. CASE slots' = slots
  <2>1. ASSUME NEW k \in DOMAIN slots'
        PROVE  ~KeyPanics(k) /\ (\E x \in asked : Explains(x, k, slots[k]))'
    <3>1. k \in DOMAIN slots /\ slots'[k] = slots[k]
      BY <1>4
    <3>2. QED BY <3>1, StillExplained
  <2>2. QED BY <2>1
<1>5. CASE slots' # slots
  <2>1. /\ made.ok /\ (Cache.store.kind = "redis" => Serialisable(made.entry.value))
        /\ slots' = [k \in DOMAIN slots \union {key} |-> IF k = key THEN e ELSE slots[k]]
    BY <1>5 DEF Kept
  <2>2. Keeps(e, v)
    BY <1>2, <1>3, <2>1, EntryKeeps
  <2>3. PICK x \in asked' : x.w = w /\ x.args = args /\ x.key = key
    OBVIOUS
  <2> HIDE DEF e, key, v, made, lasting
  <2>4. Explains(x, key, e)
    BY <2>2, <2>3 DEF Explains, v
  <2>5. ASSUME NEW k \in DOMAIN slots'
        PROVE  ~KeyPanics(k) /\ (\E y \in asked : Explains(y, k, slots[k]))'
    <3>1. CASE k = key
      <4>1. slots'[k] = e /\ ~KeyPanics(k)
        BY <2>1, <3>1 DEF key
      <4>2. Explains(x, k, slots[k])'
        BY <2>4, <3>1, <4>1, ExplainsSame
      <4>3. QED BY <2>3, <4>1, <4>2
    <3>2. CASE k # key
      <4>1. k \in DOMAIN slots /\ slots'[k] = slots[k]
        BY <2>1, <2>5, <3>2
      <4>2. QED BY <4>1, StillExplained
    <3>3. QED BY <3>1, <3>2
  <2>6. QED BY <2>5
<1>6. QED BY <1>4, <1>5

\* What the store and the group have, where a call touches neither.
LEMMA Untouched ==
  ASSUME CallsInv, NEW w, NEW args, Callable(w, args), NEW how, Ended(w, args, how),
         UNCHANGED slots, stuck' \subseteq stuck \union {KeyOf(w, args)},
         KeyOf(w, args) \in stuck' \ stuck => Breaks(w.fn, args)
  PROVE  CallsInv'
<1>1. /\ scenario' \in Scenarios /\ calls' \in 0..scenario'.calls /\ asked \subseteq asked'
      /\ \A x \in asked' : x.w \in Usable(scenario') /\ x.args \in x.w.fn.inputs
      /\ \E x \in asked' : x.w = w /\ x.args = args /\ x.key = KeyOf(w, args)
  BY Asked
<1>2. UNCHANGED scenario
  BY DEF Ended
<1>3. ASSUME NEW k \in DOMAIN slots'
      PROVE  ~KeyPanics(k) /\ (\E x \in asked : Explains(x, k, slots[k]))'
  BY <1>1, <1>2, StillExplained
<1>4. ASSUME NEW k \in stuck'
      PROVE  \E x \in asked' : x.key = k /\ Breaks(x.w.fn, x.args)
  BY <1>1 DEF CallsInv
<1>5. QED BY <1>1, <1>3, <1>4 DEF CallsInv

LEMMA KeylessStep ==
  ASSUME IInv, NEW w, NEW args, Callable(w, args), KeylessCall(w, args)
  PROVE  IInv'
<1> DEFINE how == IF KeyPanics(KeyOf(w, args)) THEN Panicked ELSE Run(w.fn, args)
<1>1. Ended(w, args, how) /\ UNCHANGED <<slots, stuck>>
  BY DEF KeylessCall
<1>2. CallsInv'
  BY <1>1, Untouched DEF IInv
<1>3. Panicked.ends = "panicked"
  BY DEF Panicked
<1>4. Run(w.fn, args) = Panicked \/ (/\ Run(w.fn, args).ends = "returned"
                                     /\ Run(w.fn, args) = Returns(Run(w.fn, args).results))
  BY RunFacts DEF IInv, CallsInv, Callable
<1>5. CASE KeyPanics(KeyOf(w, args))
  <2>1. how = Panicked
    BY <1>5
  <2> HIDE DEF how
  <2>2. Shows(w, args, how)
    BY <1>3, <1>5, <2>1 DEF Shows
  <2>3. QED BY <1>1, <1>2, <1>3, <2>1, <2>2, Judged DEF IInv
<1>6. CASE ~KeyPanics(KeyOf(w, args))
  <2>1. how = Run(w.fn, args) /\ w.opts.disable
    BY <1>6 DEF KeylessCall
  <2> HIDE DEF how
  <2>2. Shows(w, args, how)
    BY <1>3, <1>4, <2>1 DEF Shows, Due
  <2>3. QED BY <1>1, <1>2, <1>3, <1>4, <2>1, <2>2, Judged DEF IInv
<1>7. QED BY <1>5, <1>6

LEMMA HitStep ==
  ASSUME IInv, NEW w, NEW args, Callable(w, args), HitCall(w, args)
  PROVE  IInv'
<1> DEFINE key == KeyOf(w, args)
           found == decompressValue(slots[key])
           how == convertCachedValue(found.value, w.fn)
           rs == Run(w.fn, args).results
<1>1. /\ Ended(w, args, how) /\ UNCHANGED <<slots, stuck>>
      /\ ~w.opts.disable /\ key \in DOMAIN slots /\ found.ok
  BY DEF HitCall, Hit
<1>2. CallsInv'
  BY <1>1, Untouched DEF IInv
<1>3. how.ends \in {"returned", "panicked", "hangs"}
  BY HowItEnds
<1>4. ASSUME Alone'
      PROVE  Shows(w, args, how)
  <2>1. PICK x \in asked : Explains(x, key, slots[key])
    BY <1>1 DEF IInv, CallsInv
  <2>2. x.w.fn = w.fn /\ Run(x.w.fn, x.args) = Run(w.fn, args)
    BY <1>1, <1>4, <2>1, SameRun DEF IInv, Explains
  <2>3. Run(w.fn, args).ends = "returned" /\ Keeps(slots[key], ToKeep(rs, w.fn))
    BY <2>1, <2>2 DEF Explains
  <2>4. /\ Answered(w.fn, rs) /\ \A i \in DOMAIN rs : JsonContract(rs[i])
        /\ JsonContract(ToKeep(rs, w.fn))
    <3>1. Run(w.fn, args) # Panicked
      BY <2>3 DEF Panicked
    <3>2. QED BY <3>1, RunFacts DEF IInv, CallsInv, Callable
  <2>5. IF JsonImages THEN Serialisable(ToKeep(rs, w.fn)) /\ found.value = Image(ToKeep(rs, w.fn))
                      ELSE found.value = ToKeep(rs, w.fn)
    BY <1>1, <2>3 DEF Keeps
  <2>6. Due(w, args) = AnswerOf(w.fn, rs)
    BY <1>1 DEF Due
  <2> HIDE DEF found, key, rs
  <2>7. CASE ~JsonImages
    <3>1. /\ how \in {Panicked, Returns(AnswerOf(w.fn, rs))}
          /\ NoNils(w.fn, rs) => how = Returns(AnswerOf(w.fn, rs))
      BY <2>4, <2>5, <2>7, FoundInMemory DEF NoNils
    <3> HIDE DEF how
    <3>2. QED BY <2>6, <3>1 DEF Shows, Panicked, Returns, rs
  <2>8. CASE JsonImages
    <3>1. Plainly(w.fn) /\ Legible(rs) => how \in {Panicked, Returns(AnswerOf(w.fn, rs))}
      BY <2>4, <2>5, <2>8, FoundInJson
    <3> HIDE DEF how
    <3>2. QED BY <2>6, <2>8, <3>1 DEF Shows, Panicked, Returns, rs
  <2>9. QED BY <2>7, <2>8
<1>5. QED BY <1>1, <1>2, <1>3, <1>4, Judged DEF IInv

LEMMA HungStep ==
  ASSUME IInv, NEW w, NEW args, Callable(w, args), HungCall(w, args)
  PROVE  IInv'
<1> DEFINE how == [ends |-> "hangs", results |-> <<>>]
<1>1. Ended(w, args, how) /\ UNCHANGED <<slots, stuck>> /\ KeyOf(w, args) \in stuck
  BY DEF HungCall
<1>2. CallsInv'
  BY <1>1, Untouched DEF IInv
<1>3. how.ends = "hangs"
  OBVIOUS
<1> HIDE DEF how
<1>4. ASSUME Alone'
      PROVE  Shows(w, args, how)
  <2>1. PICK x \in asked : x.key = KeyOf(w, args) /\ Breaks(x.w.fn, x.args)
    BY <1>1 DEF IInv, CallsInv
  <2>2. Breaks(w.fn, args)
    BY <1>1, <1>4, <2>1, SameRun DEF IInv, Breaks
  <2>3. QED BY <1>3, <2>2 DEF Shows, Breaks, Panicked
<1>5. QED BY <1>1, <1>2, <1>3, <1>4, Judged DEF IInv

LEMMA ComputedStep ==
  ASSUME IInv, NEW w, NEW args, Callable(w, args), ComputedCall(w, args)
  PROVE  IInv'
<1> DEFINE key == KeyOf(w, args)
           ran == Run(w.fn, args)
           rs == ran.results
           done == processResults(rs, w.fn)
           errorTTL == IF w.opts.errorTTL = 0 THEN w.opts.ttl ELSE w.opts.errorTTL
<1>1. ~KeyPanics(key) /\ ~w.opts.disable
  BY DEF ComputedCall
<1>2. scenario \in Scenarios /\ w \in Usable(scenario) /\ args \in w.fn.inputs
  BY DEF IInv, CallsInv, Callable
<1>3. w.opts.ttl \in Int /\ errorTTL \in Int
  BY <1>2, CacheFacts
<1>4. ran = Panicked \/ (ran.ends = "returned" /\ Answered(w.fn, rs))
  BY <1>2, RunFacts
<1>5. Due(w, args) = AnswerOf(w.fn, rs)
  BY <1>1 DEF Due
<1>6. CASE ran.ends = "panicked" \/ IsNilPanics(w.fn)
  <2>1. Breaks(w.fn, args) /\ Panicked.ends = "panicked"
    BY <1>4, <1>6 DEF Breaks, Panicked
  <2>2. Ended(w, args, Panicked) /\ UNCHANGED slots /\ stuck' = stuck \union {key}
    BY <1>6 DEF ComputedCall
  <2>3. CallsInv'
    BY <2>1, <2>2, Untouched DEF IInv
  <2>4. Shows(w, args, Panicked)
    BY <2>1 DEF Shows, Breaks
  <2>5. QED BY <2>1, <2>2, <2>3, <2>4, Judged DEF IInv
<1>7. CASE ran.ends # "panicked" /\ ~IsNilPanics(w.fn)
  <2>1. ran.ends = "returned" /\ Answered(w.fn, rs)
    BY <1>4, <1>7 DEF Panicked
  <2>2. ASSUME NEW how, Ended(w, args, how), UNCHANGED stuck, NEW ttl \in Int,
               slots' = slots \/ slots' = Kept(key, ToKeep(rs, w.fn), ttl)
        PROVE  CallsInv'
    <3>1. /\ scenario' \in Scenarios /\ calls' \in 0..scenario'.calls /\ asked \subseteq asked'
          /\ \A x \in asked' : x.w \in Usable(scenario') /\ x.args \in x.w.fn.inputs
          /\ \E x \in asked' : x.w = w /\ x.args = args /\ x.key = KeyOf(w, args)
      BY <2>2, Asked DEF IInv
    <3>2. UNCHANGED scenario
      BY <2>2 DEF Ended
    <3>3. CASE slots' = slots
      BY <2>2, <3>3, Untouched DEF IInv
    <3>4. CASE slots' = Kept(key, ToKeep(rs, w.fn), ttl)
      <4>1. (\A k \in DOMAIN slots : ~KeyPanics(k) /\ \E x \in asked : Explains(x, k, slots[k]))'
        BY <1>1, <2>1, <2>2, <3>1, <3>2, <3>4, KeptExplained DEF IInv
      <4>2. ASSUME NEW k \in stuck'
            PROVE  \E x \in asked' : x.key = k /\ Breaks(x.w.fn, x.args)
        BY <2>2, <3>1 DEF IInv, CallsInv
      <4>3. QED BY <3>1, <4>1, <4>2 DEF CallsInv
    <3>5. QED BY <2>2, <3>3, <3>4
  <2>3. CASE done.err # Nil
    <3>1. Failing(w.fn, rs) /\ done.err = rs[Len(rs)] /\ ToKeep(rs, w.fn) = cachedError(done.err)
      BY <2>1, <2>3, WhatIsKept
    <3> DEFINE how == createErrorReturn(w.fn, done.err)
    <3>2. /\ Ended(w, args, how) /\ UNCHANGED stuck
          /\ slots' = slots \/ slots' = Kept(key, ToKeep(rs, w.fn), errorTTL)
      BY <1>7, <2>3, <3>1 DEF ComputedCall
    <3>3. how = Returns(AnswerOf(w.fn, rs))
      BY <2>1, <3>1, ErrorAnswered DEF AnswerOf
    <3> HIDE DEF how
    <3>4. Shows(w, args, how) /\ how.ends = "returned"
      BY <1>5, <3>3 DEF Shows, Returns
    <3>5. CallsInv'
      BY <1>3, <2>2, <3>2
    <3>6. QED BY <3>2, <3>4, <3>5, Judged DEF IInv
  <2>4. CASE done.err = Nil
    <3>1. ~Failing(w.fn, rs) /\ ToKeep(rs, w.fn) = done.value
      BY <2>1, <2>4, WhatIsKept, ErrorIsThere
    <3> DEFINE how == convertComputedValue(done.value, w.fn)
    <3>2. /\ Ended(w, args, how) /\ UNCHANGED stuck
          /\ slots' = Kept(key, ToKeep(rs, w.fn), w.opts.ttl)
      BY <1>7, <2>4, <3>1 DEF ComputedCall
    <3>3. /\ how \in {Panicked, Returns(AnswerOf(w.fn, rs))}
          /\ NoNils(w.fn, rs) => how = Returns(AnswerOf(w.fn, rs))
      BY <2>1, <3>1, ValueAnswered DEF AnswerOf, NoNils
    <3> HIDE DEF how
    <3>4. Shows(w, args, how) /\ how.ends \in {"returned", "panicked"}
      BY <1>5, <3>3 DEF Shows, Returns, Panicked
    <3>5. CallsInv'
      BY <1>3, <2>2, <3>2
    <3>6. QED BY <3>2, <3>4, <3>5, Judged DEF IInv
  <2>5. QED BY <2>3, <2>4
<1>8. QED BY <1>6, <1>7

LEMMA LoseStep ==
  ASSUME IInv, NEW key \in DOMAIN slots, Lose(key)
  PROVE  IInv'
<1>1. /\ slots' = [k \in DOMAIN slots \ {key} |-> slots[k]]
      /\ UNCHANGED <<scenario, stuck, asked, last, calls>>
  BY DEF Lose
<1>2. ASSUME NEW k \in DOMAIN slots'
      PROVE  ~KeyPanics(k) /\ (\E x \in asked : Explains(x, k, slots[k]))'
  <2>1. k \in DOMAIN slots /\ slots'[k] = slots[k]
    BY <1>1
  <2>2. QED BY <1>1, <2>1, StillExplained DEF IInv
<1>3. CallsInv'
  BY <1>1, <1>2 DEF IInv, CallsInv
<1>4. AnswerInv'
  BY <1>1 DEF IInv, AnswerInv, Transparent, Accepted, ExactOrPanic, Called, Alone, JsonImages,
              Cache, NoNilInterface, Answer
<1>5. QED BY <1>3, <1>4 DEF IInv

LEMMA IInvInit == Init => IInv
<1> SUFFICES ASSUME Init PROVE IInv
  OBVIOUS
<1>1. last.how.ends = "none"
  BY DEF Init, NoCallYet
<1>2. AnswerInv
  BY <1>1 DEF AnswerInv, Transparent, Accepted, ExactOrPanic, Called
<1>3. CallsInv
  BY ScenarioTypes DEF Init, CallsInv
<1>4. QED BY <1>2, <1>3 DEF IInv

LEMMA IInvStep == IInv /\ [Next]_vars => IInv'
<1> SUFFICES ASSUME IInv, [Next]_vars PROVE IInv'
  OBVIOUS
<1>1. CASE UNCHANGED vars
  <2>1. UNCHANGED <<scenario, slots, stuck, asked, last, calls>>
    BY <1>1 DEF vars
  <2>2. CallsInv'
    BY <2>1 DEF IInv, CallsInv, Explains, Keeps, decompressValue, JsonImages, Cache
  <2>3. AnswerInv'
    BY <2>1 DEF IInv, AnswerInv, Transparent, Accepted, ExactOrPanic, Called, Alone, JsonImages,
                Cache, NoNilInterface, Answer
  <2>4. QED BY <2>2, <2>3 DEF IInv
<1>2. CASE Calls(KeylessCall)
  BY <1>2, KeylessStep DEF Calls, Callable
<1>3. CASE Calls(HitCall)
  BY <1>3, HitStep DEF Calls, Callable
<1>4. CASE Calls(HungCall)
  BY <1>4, HungStep DEF Calls, Callable
<1>5. CASE Calls(ComputedCall)
  BY <1>5, ComputedStep DEF Calls, Callable
<1>6. CASE \E key \in DOMAIN slots : Lose(key)
  BY <1>6, LoseStep
<1>7. QED BY <1>1, <1>2, <1>3, <1>4, <1>5, <1>6 DEF Next

LEMMA Inductive == Spec => []IInv
BY IInvInit, IInvStep, PTL DEF Spec

-----------------------------------------------------------------------------
(* Theorems.                                                               *)

\* For any functions, options, configurations and keys: no key of a call that
\* panicked while it was made is in the store, an entry is marked compressed
\* only if it has shrunk, and only a key that was asked for can be stuck.
THEOREM TypeCorrect == Spec => []TypeOK
<1>1. IInv => TypeOK
  <2> SUFFICES ASSUME IInv PROVE TypeOK
    OBVIOUS
  <2>1. ASSUME NEW key \in DOMAIN slots
        PROVE  /\ ~KeyPanics(key) /\ slots[key].ttl \in Nat
               /\ slots[key].compressed => slots[key].size < slots[key].original
    BY DEF IInv, CallsInv, Explains, Keeps
  <2>2. stuck \subseteq {x.key : x \in asked}
    BY DEF IInv, CallsInv
  <2>3. QED BY <2>1, <2>2 DEF IInv, CallsInv, AnswerInv, TypeOK
<1>2. QED BY <1>1, Inductive, PTL

\* Over memory without compression a wrapped function that returns answers as
\* it does unwrapped, for any functions, options and ways to make keys, unless
\* two calls that differ have had the key, or reflection panics: for an error
\* whose type has no nil, or another result that is a nil interface.
THEOREM TransparentHolds == Spec => []Transparent
<1>1. IInv => Transparent
  BY DEF IInv, AnswerInv
<1>2. QED BY <1>1, Inductive, PTL

\* Over Redis or compression it answers so or panics, where no result is an
\* any, a []any or a map and no string is other than UTF-8, whatever JSON makes of
\* the rest.
THEOREM ExactOrPanicHolds == Spec => []ExactOrPanic
<1>1. IInv => ExactOrPanic
  BY DEF IInv, AnswerInv
<1>2. QED BY <1>1, Inductive, PTL
=============================================================================
