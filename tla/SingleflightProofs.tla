------------------------- MODULE SingleflightProofs -------------------------
(***************************************************************************)
(* Proofs of the safety properties of Singleflight, for any finite set of  *)
(* callers and any keys and outcomes, with and without Forget and panics.  *)
(*                                                                         *)
(* StructInv holds the bookkeeping every other argument needs; it is       *)
(* inductive by itself.  RegistryInv strengthens InFlightBound: a key's    *)
(* entry in m pays for one of its open calls and each Forget for one more. *)
(* AnswerInv ties dups, channels and answers to the callers of a call.     *)
(***************************************************************************)
EXTENDS Singleflight, FiniteSetTheorems, TLAPS

\* Where an invocation is agrees with the call it is on and that call's life
CallInv ==
  \A p \in Callers :
    /\ pc[p] = "idle" => call[p] = NoCall /\ run[p] = "none"
    /\ pc[p] \in {"leading", "waiting", "receiving", "selecting"} => call[p] \in Callers
    /\ pc[p] = "leading" => call[p] = p
    /\ pc[p] = "waiting" => call[p] # p
    /\ call[p] \in Callers => run[call[p]] # "none"
    /\ run[p] # "none" => call[p] = p /\ key[p] \in Keys
    /\ run[p] \in {"returned", "finished"} => res[p] \in Outcomes

\* An entry of m is an open call of its key that nobody has forgotten
Registered ==
  /\ \A k \in Keys : m[k] # NoCall =>
       key[m[k]] = k /\ run[m[k]] \in Open /\ m[k] \notin forgotten
  /\ \A c \in forgotten : run[c] # "none"

StructInv == TypeOK /\ CallInv /\ Registered

-----------------------------------------------------------------------------
(* The three methods that enter the table, reduced to what they share.     *)

LeadStep(p, k, chs, s) ==
  /\ Enter(p, k) /\ Lead(p, k, chs)
  /\ \/ s = "leading" /\ chs = {}
     \/ s \in {"receiving", "selecting"} /\ chs = {p}
  /\ pc' = [pc EXCEPT ![p] = s]
  /\ UNCHANGED <<cancelled, ret>>

JoinStep(p, k, chs, s) ==
  /\ Enter(p, k) /\ Join(p, k, chs)
  /\ \/ s = "waiting" /\ chs = {}
     \/ s \in {"receiving", "selecting"} /\ chs = {p}
  /\ pc' = [pc EXCEPT ![p] = s]
  /\ UNCHANGED <<cancelled, ret>>

\* DoContext with a context that is already done
RefuseStep(p, k) ==
  /\ Enter(p, k)
  /\ cancelled' = [cancelled EXCEPT ![p] = TRUE]
  /\ pc' = [pc EXCEPT ![p] = "returned"]
  /\ ret' = [ret EXCEPT ![p] = CtxErr]
  /\ UNCHANGED <<m, call, run, dups, chans>>

\* Every step of the Group is one of the steps the proofs below go through.
LEMMA NextCases ==
  ASSUME Next
  PROVE  \/ \E p \in Callers, k \in Keys :
              \/ \E chs \in SUBSET Callers, s \in {"leading", "receiving", "selecting"} :
                   LeadStep(p, k, chs, s)
              \/ \E chs \in SUBSET Callers, s \in {"waiting", "receiving", "selecting"} :
                   JoinStep(p, k, chs, s)
              \/ RefuseStep(p, k)
         \/ \E c \in Callers, v \in Outcomes : FnReturn(c, v)
         \/ \E p \in Callers : \/ FnPanic(p) \/ Complete(p)
                               \/ WaitDone(p) \/ LeaderReturn(p) \/ Receive(p)
                               \/ CtxDone(p) \/ Cancel(p)
         \/ \E k \in Keys : Forget(k)
<1>1. ASSUME NEW p \in Callers, NEW k \in Keys, Do(p, k)
      PROVE  \/ LeadStep(p, k, {}, "leading")
             \/ JoinStep(p, k, {}, "waiting")
  BY <1>1 DEF Do, LeadStep, JoinStep
<1>2. ASSUME NEW p \in Callers, NEW k \in Keys, DoChan(p, k)
      PROVE  \/ LeadStep(p, k, {p}, "receiving")
             \/ JoinStep(p, k, {p}, "receiving")
  BY <1>2 DEF DoChan, LeadStep, JoinStep
<1>3. ASSUME NEW p \in Callers, NEW k \in Keys, DoContext(p, k)
      PROVE  \/ LeadStep(p, k, {p}, "selecting")
             \/ JoinStep(p, k, {p}, "selecting")
             \/ RefuseStep(p, k)
  BY <1>3 DEF DoContext, LeadStep, JoinStep, RefuseStep
<1>4. \A p \in Callers : {} \in SUBSET Callers /\ {p} \in SUBSET Callers
  OBVIOUS
<1>5. QED
  BY <1>1, <1>2, <1>3, <1>4 DEF Next

-----------------------------------------------------------------------------
LEMMA StructInit == Init => StructInv
BY ConstantsDistinct DEF Init, StructInv, TypeOK, CallInv, Registered, Open

LEMMA StructStep == StructInv /\ [Next]_vars => StructInv'
<1> SUFFICES ASSUME StructInv, [Next]_vars PROVE StructInv'
  OBVIOUS
<1> USE ConstantsDistinct, ResultsDistinct
<1>1. ASSUME NEW p \in Callers, NEW k \in Keys, NEW chs \in SUBSET Callers,
             NEW s \in {"leading", "receiving", "selecting"}, LeadStep(p, k, chs, s)
      PROVE  StructInv'
  <2>1. TypeOK'
    BY <1>1 DEF StructInv, TypeOK, LeadStep, Enter, Lead, Open
  <2>2. CallInv'
    BY <1>1 DEF StructInv, TypeOK, CallInv, LeadStep, Enter, Lead, Open
  <2>3. Registered'
    BY <1>1 DEF StructInv, TypeOK, CallInv, Registered, LeadStep, Enter, Lead, Open
  <2>4. QED BY <2>1, <2>2, <2>3 DEF StructInv
<1>2. ASSUME NEW p \in Callers, NEW k \in Keys, NEW chs \in SUBSET Callers,
             NEW s \in {"waiting", "receiving", "selecting"}, JoinStep(p, k, chs, s)
      PROVE  StructInv'
  <2>0. m[k] \in Callers /\ run[m[k]] # "none"
    BY <1>2 DEF StructInv, TypeOK, Registered, JoinStep, Join, Open
  <2>1. TypeOK'
    BY <1>2, <2>0 DEF StructInv, TypeOK, JoinStep, Enter, Join
  <2>2. CallInv'
    BY <1>2, <2>0 DEF StructInv, TypeOK, CallInv, JoinStep, Enter, Join
  <2>3. Registered'
    BY <1>2, <2>0 DEF StructInv, TypeOK, CallInv, Registered, JoinStep, Enter, Join, Open
  <2>4. QED BY <2>1, <2>2, <2>3 DEF StructInv
<1>3. ASSUME NEW p \in Callers, NEW k \in Keys, RefuseStep(p, k)
      PROVE  StructInv'
  BY <1>3 DEF StructInv, TypeOK, CallInv, Registered, RefuseStep, Enter, Open
<1>4. ASSUME NEW c \in Callers, NEW v \in Outcomes, FnReturn(c, v)
      PROVE  StructInv'
  BY <1>4 DEF StructInv, TypeOK, CallInv, Registered, FnReturn, Open
<1>5. ASSUME NEW c \in Callers, FnPanic(c)
      PROVE  StructInv'
  BY <1>5 DEF StructInv, TypeOK, CallInv, Registered, FnPanic, Open
<1>6. ASSUME NEW c \in Callers, Complete(c)
      PROVE  StructInv'
  <2>0. res[c] \in Outcomes /\ key[c] \in Keys /\ call[c] = c
    BY <1>6 DEF StructInv, CallInv, Complete
  <2>1. [val |-> res[c], shared |-> dups[c] > 0] \in Result
    BY <2>0 DEF Result
  <2>2. TypeOK'
    BY <1>6, <2>1 DEF StructInv, TypeOK, Complete, Open
  <2>3. CallInv'
    BY <1>6, <2>0 DEF StructInv, TypeOK, CallInv, Complete
  <2>4. Registered'
    BY <1>6, <2>0 DEF StructInv, TypeOK, Registered, Complete, Open
  <2>5. QED BY <2>2, <2>3, <2>4 DEF StructInv
<1>7. ASSUME NEW p \in Callers, NEW r \in Result \union {CtxErr}, Return(p, r),
             inbox' \in [Callers -> Result \union {Empty}]
      PROVE  StructInv'
  BY <1>7 DEF StructInv, TypeOK, CallInv, Registered, Return, Open
<1>8. ASSUME NEW p \in Callers, WaitDone(p)
      PROVE  StructInv'
  <2>1. call[p] \in Callers /\ res[call[p]] \in Outcomes
    BY <1>8 DEF StructInv, CallInv, WaitDone
  <2>2. [val |-> res[call[p]], shared |-> TRUE] \in Result
    BY <2>1 DEF Result
  <2>3. QED BY <1>7, <1>8, <2>2 DEF WaitDone, StructInv, TypeOK
<1>9. ASSUME NEW p \in Callers, LeaderReturn(p)
      PROVE  StructInv'
  <2>1. [val |-> res[p], shared |-> dups[p] > 0] \in Result
    BY <1>9 DEF StructInv, CallInv, LeaderReturn, Result
  <2>2. QED BY <1>7, <1>9, <2>1 DEF LeaderReturn, StructInv, TypeOK
<1>10. ASSUME NEW p \in Callers, Receive(p)
       PROVE  StructInv'
  <2>1. inbox[p] \in Result /\ inbox' \in [Callers -> Result \union {Empty}]
    BY <1>10 DEF Receive, StructInv, TypeOK
  <2>2. QED BY <1>7, <1>10, <2>1 DEF Receive
<1>11. ASSUME NEW p \in Callers, CtxDone(p)
       PROVE  StructInv'
  BY <1>7, <1>11 DEF CtxDone, StructInv, TypeOK
<1>12. ASSUME NEW p \in Callers, Cancel(p)
       PROVE  StructInv'
  BY <1>12 DEF StructInv, TypeOK, CallInv, Registered, Cancel
<1>13. ASSUME NEW k \in Keys, Forget(k)
       PROVE  StructInv'
  BY <1>13 DEF StructInv, TypeOK, CallInv, Registered, Forget, Open
<1>14. CASE UNCHANGED vars
  BY <1>14 DEF vars, StructInv, TypeOK, CallInv, Registered
<1>15. QED
  BY <1>1, <1>2, <1>3, <1>4, <1>5, <1>6, <1>8, <1>9, <1>10, <1>11, <1>12, <1>13,
     <1>14, NextCases

\* The Group's state stays well typed; in particular no answer is ever the
\* zero value of a call whose function has not returned.
THEOREM TypeCorrect == Spec => []TypeOK
<1>1. StructInv => TypeOK BY DEF StructInv
<1>2. QED BY <1>1, StructInit, StructStep, PTL DEF Spec

\* An entry of m always leads to a call of its key that has not deregistered:
\* neither Complete nor Forget ever leaves a finished call to be joined.
THEOREM RegistryLeadsToOpenCalls == Spec => []RegisteredIsOpen
<1>1. StructInv => RegisteredIsOpen
  BY DEF StructInv, TypeOK, Registered, RegisteredIsOpen, OpenCalls
<1>2. QED BY <1>1, StructInit, StructStep, PTL DEF Spec

-----------------------------------------------------------------------------
\* Each open call of a key is paid for by the key's entry or by a Forget
Paid(k) == Cardinality(ForgottenCalls(k)) + (IF m[k] = NoCall THEN 0 ELSE 1)
RegistryInv == \A k \in Keys : Cardinality(OpenCalls(k)) <= Paid(k)

\* The sets InFlightBound counts are finite, so their cardinalities are numbers.
LEMMA CountsAreNumbers ==
  ASSUME TypeOK, NEW k \in Keys
  PROVE  /\ IsFiniteSet(OpenCalls(k)) /\ Cardinality(OpenCalls(k)) \in Nat
         /\ IsFiniteSet(ForgottenCalls(k)) /\ Cardinality(ForgottenCalls(k)) \in Nat
<1>1. OpenCalls(k) \subseteq Callers /\ ForgottenCalls(k) \subseteq Callers
  BY DEF OpenCalls, ForgottenCalls, TypeOK
<1>2. QED BY <1>1, CallersFinite, FS_Subset, FS_CardinalityType

LEMMA RegistryInit == Init => RegistryInv
<1> SUFFICES ASSUME Init, NEW k \in Keys PROVE Cardinality(OpenCalls(k)) <= Paid(k)
  BY DEF RegistryInv
<1>1. OpenCalls(k) = {} /\ ForgottenCalls(k) = {}
  BY DEF Init, OpenCalls, ForgottenCalls, Open
<1>2. QED BY <1>1, FS_EmptySet DEF Paid

\* A step that changes neither set nor the entry keeps the key paid for.
LEMMA PaidUnchanged ==
  ASSUME RegistryInv, NEW k \in Keys, OpenCalls(k)' = OpenCalls(k),
         ForgottenCalls(k)' = ForgottenCalls(k), m[k]' = m[k]
  PROVE  (Cardinality(OpenCalls(k)) <= Paid(k))'
BY DEF RegistryInv, Paid

LEMMA RegistryStep == StructInv /\ RegistryInv /\ [Next]_vars => RegistryInv'
<1> SUFFICES ASSUME StructInv, RegistryInv, [Next]_vars, NEW k \in Keys
             PROVE  (Cardinality(OpenCalls(k)) <= Paid(k))'
  BY DEF RegistryInv
<1> DEFINE Goal == (Cardinality(OpenCalls(k)) <= Paid(k))'
<1>t. /\ IsFiniteSet(OpenCalls(k)) /\ Cardinality(OpenCalls(k)) \in Nat
      /\ IsFiniteSet(ForgottenCalls(k)) /\ Cardinality(ForgottenCalls(k)) \in Nat
  BY CountsAreNumbers DEF StructInv
<1>i. Cardinality(OpenCalls(k)) <= Paid(k)
  BY DEF RegistryInv
<1>1. ASSUME NEW p \in Callers, NEW l \in Keys, NEW chs \in SUBSET Callers,
             NEW s \in {"leading", "receiving", "selecting"}, LeadStep(p, l, chs, s)
      PROVE  Goal
  <2>1. p \notin OpenCalls(k) /\ p \notin forgotten
    BY <1>1 DEF StructInv, CallInv, Registered, OpenCalls, Open, LeadStep, Enter
  <2>2. ForgottenCalls(k)' = ForgottenCalls(k)
    BY <1>1, <2>1 DEF StructInv, TypeOK, ForgottenCalls, LeadStep, Enter, Lead
  <2>3. CASE l = k
    <3>1. OpenCalls(k)' = OpenCalls(k) \union {p} /\ m[k] = NoCall /\ m[k]' # NoCall
      BY <1>1, <2>1, <2>3, ConstantsDistinct
         DEF StructInv, TypeOK, OpenCalls, Open, LeadStep, Enter, Lead
    <3>2. Cardinality(OpenCalls(k)') = Cardinality(OpenCalls(k)) + 1
      BY <3>1, <2>1, <1>t, FS_AddElement
    <3>3. QED BY <3>1, <3>2, <2>2, <1>t, <1>i DEF Paid
  <2>4. CASE l # k
    <3>1. OpenCalls(k)' = OpenCalls(k) /\ m[k]' = m[k]
      BY <1>1, <2>1, <2>4 DEF StructInv, TypeOK, OpenCalls, LeadStep, Enter, Lead
    <3>2. QED BY <3>1, <2>2, PaidUnchanged
  <2>5. QED BY <2>3, <2>4
<1>2. ASSUME NEW p \in Callers, NEW l \in Keys, Enter(p, l), UNCHANGED <<m, run>>
      PROVE  Goal
  <2>1. p \notin OpenCalls(k) /\ p \notin forgotten /\ run[p] \notin Open
    BY <1>2 DEF StructInv, CallInv, Registered, OpenCalls, Open, Enter
  <2>2. ForgottenCalls(k)' = ForgottenCalls(k)
    BY <1>2, <2>1 DEF StructInv, TypeOK, ForgottenCalls, Enter
  <2>3. OpenCalls(k)' = OpenCalls(k) /\ m[k]' = m[k]
    BY <1>2, <2>1 DEF StructInv, TypeOK, OpenCalls, Enter
  <2>4. QED BY <2>2, <2>3, PaidUnchanged
<1>3. ASSUME NEW c \in Callers, NEW s \in Open, run[c] \in Open,
             run' = [run EXCEPT ![c] = s], UNCHANGED <<m, key, forgotten>>
      PROVE  Goal
  <2>1. OpenCalls(k)' = OpenCalls(k) /\ ForgottenCalls(k)' = ForgottenCalls(k)
    BY <1>3 DEF StructInv, TypeOK, OpenCalls, ForgottenCalls
  <2>2. QED BY <1>3, <2>1, PaidUnchanged
<1>4. ASSUME NEW c \in Callers, Complete(c)
      PROVE  Goal
  <2>1. ForgottenCalls(k)' = ForgottenCalls(k)
    BY <1>4 DEF ForgottenCalls, Complete
  <2>2. CASE key[c] = k
    <3>1. c \in OpenCalls(k) /\ OpenCalls(k)' = OpenCalls(k) \ {c} /\ m[k]' = NoCall
      BY <1>4, <2>2 DEF StructInv, TypeOK, OpenCalls, Open, Complete
    <3>2. Cardinality(OpenCalls(k)') = Cardinality(OpenCalls(k)) - 1
      BY <3>1, <1>t, FS_RemoveElement
    <3>3. QED BY <3>1, <3>2, <2>1, <1>t, <1>i DEF Paid
  <2>3. CASE key[c] # k
    <3>1. OpenCalls(k)' = OpenCalls(k) /\ m[k]' = m[k]
      BY <1>4, <2>3 DEF StructInv, TypeOK, OpenCalls, Complete
    <3>2. QED BY <3>1, <2>1, PaidUnchanged
  <2>4. QED BY <2>2, <2>3
<1>5. ASSUME NEW l \in Keys, Forget(l)
      PROVE  Goal
  <2>1. OpenCalls(k)' = OpenCalls(k)
    BY <1>5 DEF OpenCalls, Forget
  <2>2. CASE l = k
    <3>1. /\ m[k] \notin ForgottenCalls(k) /\ m[k] # NoCall /\ m[k]' = NoCall
          /\ ForgottenCalls(k)' = ForgottenCalls(k) \union {m[k]}
      BY <1>5, <2>2 DEF StructInv, TypeOK, Registered, ForgottenCalls, Forget
    <3>2. Cardinality(ForgottenCalls(k)') = Cardinality(ForgottenCalls(k)) + 1
      BY <3>1, <1>t, FS_AddElement
    <3>3. QED BY <3>1, <3>2, <2>1, <1>t, <1>i DEF Paid
  <2>3. CASE l # k
    <3>1. ForgottenCalls(k)' = ForgottenCalls(k) /\ m[k]' = m[k]
      BY <1>5, <2>3 DEF StructInv, TypeOK, Registered, ForgottenCalls, Forget
    <3>2. QED BY <3>1, <2>1, PaidUnchanged
  <2>4. QED BY <2>2, <2>3
<1>6. ASSUME UNCHANGED <<m, run, key, forgotten>>
      PROVE  Goal
  BY <1>6, PaidUnchanged DEF OpenCalls, ForgottenCalls
<1>7. CASE Next
  <2>1. ASSUME NEW p \in Callers, NEW l \in Keys, NEW chs \in SUBSET Callers,
               NEW s \in {"waiting", "receiving", "selecting"}, JoinStep(p, l, chs, s)
        PROVE  Goal
    BY <2>1, <1>2 DEF JoinStep, Join
  <2>2. ASSUME NEW p \in Callers, NEW l \in Keys, RefuseStep(p, l)
        PROVE  Goal
    BY <2>2, <1>2 DEF RefuseStep
  <2>3. ASSUME NEW c \in Callers, NEW v \in Outcomes, FnReturn(c, v)
        PROVE  Goal
    BY <2>3, <1>3 DEF FnReturn, Open
  <2>4. ASSUME NEW c \in Callers, FnPanic(c)
        PROVE  Goal
    BY <2>4, <1>3 DEF FnPanic, Open
  <2>5. ASSUME NEW p \in Callers,
               WaitDone(p) \/ LeaderReturn(p) \/ Receive(p) \/ CtxDone(p) \/ Cancel(p)
        PROVE  Goal
    BY <2>5, <1>6 DEF WaitDone, LeaderReturn, Receive, CtxDone, Cancel, Return
  <2>6. QED BY <1>1, <1>4, <1>5, <1>7, <2>1, <2>2, <2>3, <2>4, <2>5, NextCases
<1>8. CASE UNCHANGED vars
  BY <1>6, <1>8 DEF vars
<1>9. QED BY <1>7, <1>8

\* Duplicate suppression: for any number of callers and any schedule, the
\* calls open for a key exceed the Forgets of that key by at most one.
THEOREM DuplicatesSuppressed == Spec => []InFlightBound
<1>1. StructInv /\ RegistryInv => InFlightBound
  <2> SUFFICES ASSUME StructInv, RegistryInv, NEW k \in Keys
               PROVE  Cardinality(OpenCalls(k)) <= 1 + Cardinality(ForgottenCalls(k))
    BY DEF InFlightBound
  <2>1. Cardinality(OpenCalls(k)) \in Nat /\ Cardinality(ForgottenCalls(k)) \in Nat
    BY CountsAreNumbers DEF StructInv
  <2>2. QED BY <2>1 DEF RegistryInv, Paid
<1>2. QED BY <1>1, StructInit, StructStep, RegistryInit, RegistryStep, PTL DEF Spec

-----------------------------------------------------------------------------
\* dups counts exactly the others on a call, only they have its channels, and
\* every answer under way or delivered is what the call's fields now say
Answer(c) == [val |-> res[c], shared |-> dups[c] > 0]

AnswerInv ==
  /\ \A c \in Callers : dups[c] > 0 <=> \E q \in Callers \ {c} : call[q] = c
  /\ \A c \in Callers : \A q \in chans[c] : call[q] = c
  /\ \A p \in Callers : inbox[p] # Empty =>
       call[p] \in Callers /\ run[call[p]] = "finished" /\ inbox[p] = Answer(call[p])
  /\ \A p \in Callers : ret[p] \in Result =>
       /\ call[p] \in Callers
       /\ \/ run[call[p]] = "finished"
          \/ run[call[p]] = "returned" /\ dups[call[p]] > 0
       /\ ret[p] = Answer(call[p])

LEMMA AnswerInit == Init => AnswerInv
BY ConstantsDistinct, ResultsDistinct DEF Init, AnswerInv

LEMMA AnswerStep == StructInv /\ AnswerInv /\ [Next]_vars => AnswerInv'
<1> SUFFICES ASSUME StructInv, AnswerInv, [Next]_vars PROVE AnswerInv'
  OBVIOUS
<1> USE ConstantsDistinct, ResultsDistinct DEF Answer
\* an invocation that has not entered has no call, no answer and no sharers
<1>0. ASSUME NEW p \in Callers, pc[p] = "idle"
      PROVE  /\ call[p] = NoCall /\ run[p] = "none" /\ inbox[p] = Empty
             /\ ret[p] \notin Result /\ \A q \in Callers : call[q] # p
  <2>1. call[p] = NoCall /\ run[p] = "none"
    BY <1>0 DEF StructInv, CallInv
  <2>2. \A q \in Callers : call[q] # p
    BY <2>1 DEF StructInv, CallInv
  <2>3. inbox[p] = Empty /\ ret[p] \notin Result
    BY <2>1 DEF AnswerInv
  <2>4. QED BY <2>1, <2>2, <2>3
<1>1. ASSUME NEW p \in Callers, NEW k \in Keys, NEW chs \in SUBSET Callers,
             NEW s \in {"leading", "receiving", "selecting"}, LeadStep(p, k, chs, s)
      PROVE  AnswerInv'
  <2>1. call' = [call EXCEPT ![p] = p] /\ run' = [run EXCEPT ![p] = "running"]
    BY <1>1 DEF LeadStep, Lead
  <2>2. UNCHANGED <<dups, res, inbox, ret>>
    BY <1>1 DEF LeadStep, Lead, Enter
  <2>3. chans' = [chans EXCEPT ![p] = chs] /\ chs \subseteq {p}
    BY <1>1 DEF LeadStep, Lead
  <2>4. pc[p] = "idle"
    BY <1>1 DEF LeadStep, Enter
  <2>5. (\A c \in Callers : dups[c] > 0 <=> \E q \in Callers \ {c} : call[q] = c)'
    BY <2>1, <2>2, <2>4, <1>0 DEF StructInv, TypeOK, AnswerInv
  <2>6. (\A c \in Callers : \A q \in chans[c] : call[q] = c)'
    BY <2>1, <2>3, <2>4, <1>0 DEF StructInv, TypeOK, AnswerInv
  <2>7. \A q \in Callers : inbox[q] # Empty \/ ret[q] \in Result =>
          /\ q # p /\ call'[q] = call[q] /\ call[q] \in Callers
          /\ run'[call[q]] = run[call[q]] /\ Answer(call[q])' = Answer(call[q])
    BY <2>1, <2>2, <2>4, <1>0 DEF StructInv, TypeOK, AnswerInv
  <2>8. (\A q \in Callers : inbox[q] # Empty =>
           call[q] \in Callers /\ run[call[q]] = "finished" /\ inbox[q] = Answer(call[q]))'
    BY <2>2, <2>7 DEF AnswerInv
  <2>9. ASSUME NEW q \in Callers, ret'[q] \in Result
        PROVE  /\ call'[q] \in Callers
               /\ \/ run'[call'[q]] = "finished"
                  \/ run'[call'[q]] = "returned" /\ dups'[call'[q]] > 0
               /\ ret'[q] = Answer(call[q])'
    <3>1. ret[q] = Answer(call[q]) /\ ret'[q] = ret[q] /\ dups' = dups
      BY <2>2, <2>9 DEF AnswerInv
    <3>2. \/ run[call[q]] = "finished"
          \/ run[call[q]] = "returned" /\ dups[call[q]] > 0
      BY <2>2, <2>9 DEF AnswerInv
    <3>3. /\ call'[q] = call[q] /\ call[q] \in Callers
          /\ run'[call[q]] = run[call[q]] /\ Answer(call[q])' = Answer(call[q])
      BY <2>2, <2>7, <2>9
    <3>4. QED BY <3>1, <3>2, <3>3
  <2>10. (\A q \in Callers : ret[q] \in Result =>
           /\ call[q] \in Callers
           /\ \/ run[call[q]] = "finished"
              \/ run[call[q]] = "returned" /\ dups[call[q]] > 0
           /\ ret[q] = Answer(call[q]))'
    BY <2>9
  <2>11. QED BY <2>5, <2>6, <2>8, <2>10 DEF AnswerInv
<1>2. ASSUME NEW p \in Callers, NEW k \in Keys, NEW chs \in SUBSET Callers,
             NEW s \in {"waiting", "receiving", "selecting"}, JoinStep(p, k, chs, s)
      PROVE  AnswerInv'
  <2>1. PICK c \in Callers : c = m[k] /\ run[c] \in Open
    BY <1>2 DEF StructInv, TypeOK, Registered, JoinStep, Join
  <2>2. /\ call' = [call EXCEPT ![p] = c]
        /\ dups' = [dups EXCEPT ![c] = @ + 1]
        /\ chans' = [chans EXCEPT ![c] = @ \union chs] /\ chs \subseteq {p}
        /\ UNCHANGED <<run, res, inbox, ret>> /\ pc[p] = "idle"
    BY <1>2, <2>1 DEF JoinStep, Join, Enter
  <2>3. c # p /\ run[c] # "finished" /\ dups[c] \in Nat
    BY <1>0, <2>1, <2>2 DEF Open, StructInv, TypeOK
  <2>4. (\A d \in Callers : dups[d] > 0 <=> \E q \in Callers \ {d} : call[q] = d)'
    BY <1>0, <2>2, <2>3 DEF StructInv, TypeOK, AnswerInv
  <2>5. (\A d \in Callers : \A q \in chans[d] : call[q] = d)'
    BY <1>0, <2>2, <2>3 DEF StructInv, TypeOK, AnswerInv
  <2>6. (\A q \in Callers : inbox[q] # Empty =>
           call[q] \in Callers /\ run[call[q]] = "finished" /\ inbox[q] = Answer(call[q]))'
    BY <1>0, <2>2, <2>3 DEF StructInv, TypeOK, AnswerInv
  <2>7. ASSUME NEW q \in Callers, ret[q] \in Result
        PROVE  /\ q # p /\ call'[q] = call[q] /\ call[q] \in Callers
               /\ (dups[call[q]] > 0) = (dups'[call[q]] > 0)
    BY <1>0, <2>2, <2>3, <2>7 DEF StructInv, TypeOK, AnswerInv, Open
  <2>8. (\A q \in Callers : ret[q] \in Result =>
           /\ call[q] \in Callers
           /\ \/ run[call[q]] = "finished"
              \/ run[call[q]] = "returned" /\ dups[call[q]] > 0
           /\ ret[q] = Answer(call[q]))'
    BY <2>2, <2>7, SMTT(15) DEF AnswerInv
  <2>9. QED BY <2>4, <2>5, <2>6, <2>8 DEF AnswerInv
<1>3. ASSUME NEW p \in Callers, NEW k \in Keys, RefuseStep(p, k)
      PROVE  AnswerInv'
  BY <1>3 DEF StructInv, TypeOK, AnswerInv, RefuseStep, Enter
<1>4. ASSUME NEW c \in Callers, NEW v \in Outcomes, FnReturn(c, v)
      PROVE  AnswerInv'
  BY <1>4 DEF StructInv, TypeOK, AnswerInv, FnReturn
<1>5. ASSUME NEW c \in Callers, FnPanic(c)
      PROVE  AnswerInv'
  BY <1>5 DEF StructInv, TypeOK, AnswerInv, FnPanic
<1>6. ASSUME NEW c \in Callers, Complete(c)
      PROVE  AnswerInv'
  BY <1>6 DEF StructInv, TypeOK, AnswerInv, Complete
<1>7. ASSUME NEW p \in Callers, NEW r, Return(p, r),
             \/ r = CtxErr
             \/ /\ call[p] \in Callers /\ r = Answer(call[p])
                /\ \/ run[call[p]] = "finished"
                   \/ run[call[p]] = "returned" /\ dups[call[p]] > 0,
             \A q \in Callers : inbox'[q] \in {inbox[q], Empty}
      PROVE  AnswerInv'
  BY <1>7 DEF StructInv, TypeOK, AnswerInv, Return
<1>8. ASSUME NEW p \in Callers, WaitDone(p)
      PROVE  AnswerInv'
  <2>1. call[p] \in Callers /\ run[call[p]] \in {"returned", "finished"} /\ pc[p] = "waiting"
    BY <1>8 DEF StructInv, CallInv, WaitDone
  <2>2. call[p] # p
    BY <2>1 DEF StructInv, CallInv
  <2>3. dups[call[p]] > 0
    BY <2>1, <2>2 DEF AnswerInv
  <2>4. QED BY <1>7, <1>8, <2>1, <2>3 DEF WaitDone
<1>9. ASSUME NEW p \in Callers, LeaderReturn(p)
      PROVE  AnswerInv'
  BY <1>7, <1>9 DEF LeaderReturn, StructInv, CallInv
<1>10. ASSUME NEW p \in Callers, Receive(p)
       PROVE  AnswerInv'
  <2>1. \A q \in Callers : inbox'[q] \in {inbox[q], Empty}
    BY <1>10 DEF Receive, StructInv, TypeOK
  <2>2. QED BY <1>7, <1>10, <2>1 DEF Receive, AnswerInv
<1>11. ASSUME NEW p \in Callers, CtxDone(p)
       PROVE  AnswerInv'
  BY <1>7, <1>11 DEF CtxDone
<1>12. ASSUME NEW p \in Callers, Cancel(p)
       PROVE  AnswerInv'
  BY <1>12 DEF AnswerInv, Cancel
<1>13. ASSUME NEW k \in Keys, Forget(k)
       PROVE  AnswerInv'
  BY <1>13 DEF AnswerInv, Forget
<1>14. CASE UNCHANGED vars
  BY <1>14 DEF vars, AnswerInv
<1>15. QED
  BY <1>1, <1>2, <1>3, <1>4, <1>5, <1>6, <1>8, <1>9, <1>10, <1>11, <1>12, <1>13,
     <1>14, NextCases

\* Every caller that gets an answer gets the outcome of the call it joined,
\* and `shared` is exact, for any number of callers and any schedule.
THEOREM AnswersAreShared == Spec => []AnswerIsShared
<1>1. StructInv /\ AnswerInv => AnswerIsShared
  <2> SUFFICES ASSUME StructInv, AnswerInv, NEW p \in Callers, ret[p] \in Result
               PROVE  /\ ret[p].val = res[call[p]]
                      /\ ret[p].shared <=> \E q \in Callers \ {p} : call[q] = call[p]
    BY DEF AnswerIsShared
  <2>1. call[p] \in Callers /\ ret[p] = Answer(call[p]) /\ run[call[p]] # "none"
    BY DEF AnswerInv
  <2>2. dups[call[p]] > 0 <=> \E q \in Callers \ {call[p]} : call[q] = call[p]
    BY <2>1 DEF AnswerInv
  <2>3. call[call[p]] = call[p]
    BY <2>1 DEF StructInv, CallInv
  <2>4. ret[p].val = res[call[p]] /\ ret[p].shared = (dups[call[p]] > 0)
    BY <2>1 DEF Answer
  <2>5. CASE call[p] = p
    BY <2>2, <2>4, <2>5
  <2>6. CASE call[p] # p
    BY <2>1, <2>2, <2>3, <2>4, <2>6
  <2>7. QED BY <2>5, <2>6
<1>2. QED BY <1>1, StructInit, StructStep, AnswerInit, AnswerStep, PTL DEF Spec
=============================================================================
