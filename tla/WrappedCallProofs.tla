-------------------------- MODULE WrappedCallProofs --------------------------
(***************************************************************************)
(* The safety of WrappedCall, for any callers, keys and versions.          *)
(*                                                                         *)
(* Every step is one of the Group or leaves it alone, so what              *)
(* SingleflightProofs proves of the Group holds here too (GroupInv).       *)
(* PathInv relates where an invocation is in the wrapper to where it is in *)
(* the Group.  VersionInv says how old what an execution reads may be,     *)
(* against the floors of its key and of those who may be given it.         *)
(***************************************************************************)
EXTENDS WrappedCall, FiniteSetTheorems, WellFoundedInduction, TLAPS

Group == INSTANCE SingleflightProofs WITH MayForget <- FALSE

GroupInv == Group!StructInv /\ Group!AnswerInv

TypeInv ==
  /\ cached \in [Keys -> Outcomes \union {NoEntry}]
  /\ src \in 0..MaxVersion
  /\ began \in [Callers -> 0..MaxVersion]
  /\ wpc \in [Callers -> {"idle", "missed", "inflight", "done", "panicked"}]
  /\ arg \in [Callers -> Keys \union {NoKey}]
  /\ wret \in [Callers -> Outcomes \union {NoOutcome}]
  /\ inFlight \in Int /\ lost \in Nat
  /\ floor \in [Keys -> 0..MaxVersion]
  /\ due \in [Callers -> 0..MaxVersion]

PathAt(p) ==
  /\ pc[p] \in {"idle", "leading", "waiting", "returned", "panicked"}
  /\ wpc[p] \in {"idle", "missed"} => pc[p] = "idle"
  /\ wpc[p] = "inflight" => pc[p] # "idle"
  /\ pc[p] \in {"leading", "waiting"} => wpc[p] = "inflight"
  /\ wpc[p] # "idle" => arg[p] \in Keys
  /\ wret[p] \in Outcomes => wpc[p] = "done"
  \* who entered the Group is on a call of its key, which its leader runs
  /\ pc[p] # "idle" => call[p] \in Callers /\ key[p] = arg[p]
  /\ call[p] \in Callers => key[call[p]] = key[p]
  /\ run[p] \in {"running", "returned"} => pc[p] = "leading"
  /\ pc[p] = "returned" => ret[p] \in SF!Result

PathInv == \A p \in Callers : PathAt(p)

\* p waits for, or has, what the execution of its call may read
Reads(p) == wpc[p] = "inflight" /\ run[call[p]] # "panicked"

ResultAge == \A c \in Callers : run[c] \in {"returned", "finished"} => res[c].ver >= began[c]
CachedAge == \A k \in Keys : /\ floor[k] <= src
                             /\ cached[k] # NoEntry => cached[k].ver >= floor[k]
ReadsAge == \A p \in Callers : Reads(p) =>
  began[call[p]] >= floor[arg[p]] /\ began[call[p]] >= due[p]
\* whoever has missed may join any execution of its key
MissedAge == \A q \in Callers : wpc[q] = "missed" =>
  /\ due[q] <= src
  /\ \A p \in Callers : Reads(p) /\ arg[p] = arg[q] => began[call[p]] >= due[q]

VersionInv == ResultAge /\ CachedAge /\ ReadsAge /\ MissedAge /\ FreshAfterDelete

IInv == GroupInv /\ TypeInv /\ PathInv /\ VersionInv /\ OnlyLoneAnswersCached /\ InFlightShort

-----------------------------------------------------------------------------
(* What is proved of the Group holds of the one in WrappedCall.            *)

\* The assumptions of Singleflight, for this instance of it.
LEMMA GroupAssumptions ==
  /\ Group!IsFiniteSet(Callers)
  /\ NoCall \notin Callers /\ NoKey \notin Keys /\ NoOutcome \notin Outcomes
  /\ FALSE \in BOOLEAN /\ MayPanic \in BOOLEAN
  /\ Empty \notin Group!Result /\ CtxErr \notin Group!Result /\ CtxErr # Empty
<1>1. Group!IsFiniteSet(Callers)
  BY CallersFinite DEF Group!IsFiniteSet, IsFiniteSet
<1>2. QED BY <1>1, MarkersDistinct, FlagsBoolean DEF SF!Result, Group!Result

LEMMA GroupInit == Init => Group!Init
BY DEF Init, SF!Init, Group!Init

\* Every step of WrappedCall is one of the Group, or leaves it alone.
LEMMA GroupNext ==
  ASSUME TypeInv, PathInv, [Next]_vars
  PROVE  [Group!Next]_(Group!vars)
<1> USE DEF Group!Next, Group!vars
<1>1. ASSUME NEW p \in Callers, EnterFlight(p)
      PROVE  [Group!Next]_(Group!vars)
  <2>1. arg[p] \in Keys
    BY <1>1 DEF PathInv, PathAt, EnterFlight
  <2>2. Group!Do(p, arg[p])
    BY <1>1 DEF EnterFlight, SF!Do, SF!Enter, SF!Lead, SF!Join,
                Group!Do, Group!Enter, Group!Lead, Group!Join
  <2>3. QED BY <2>1, <2>2
<1>2. ASSUME NEW c \in Callers, Compute(c)
      PROVE  [Group!Next]_(Group!vars)
  BY <1>2 DEF Compute, SF!FnReturn, Group!FnReturn
<1>3. ASSUME NEW p \in Callers, GroupStep(p)
      PROVE  [Group!Next]_(Group!vars)
  <2>1. Group!FnPanic(p) \/ Group!Complete(p) \/ Group!WaitDone(p) \/ Group!LeaderReturn(p)
    BY <1>3 DEF GroupStep, SF!FnPanic, SF!Complete, SF!WaitDone, SF!LeaderReturn, SF!Return,
                Group!FnPanic, Group!Complete, Group!WaitDone, Group!LeaderReturn, Group!Return
  <2>2. QED BY <2>1
<1>4. CASE UNCHANGED sfvars
  BY <1>4 DEF sfvars
<1>5. QED
  BY <1>1, <1>2, <1>3, <1>4
  DEF Next, Lookup, Finish, Unwind, Invalidate, Lose, Update, Reset, vars

LEMMA GroupStepKept ==
  ASSUME GroupInv, TypeInv, PathInv, [Next]_vars
  PROVE  GroupInv'
<1>1. Group!StructInv /\ [Group!Next]_(Group!vars) => Group!StructInv'
  BY Group!StructStep, GroupAssumptions
<1>2. Group!StructInv /\ Group!AnswerInv /\ [Group!Next]_(Group!vars) => Group!AnswerInv'
  BY Group!AnswerStep, GroupAssumptions
<1>3. QED BY <1>1, <1>2, GroupNext DEF GroupInv

LEMMA GroupInvInit == Init => GroupInv
BY GroupInit, Group!StructInit, Group!AnswerInit, GroupAssumptions DEF GroupInv

\* The facts about the Group that the wrapper rests on.
LEMMA GroupFacts ==
  ASSUME GroupInv
  PROVE  /\ \A p \in Callers :
              /\ pc[p] = "idle" => call[p] = NoCall /\ run[p] = "none"
              /\ \A q \in Callers : pc[p] = "idle" => call[q] # p
              /\ pc[p] = "leading" => call[p] = p
              /\ run[p] \in {"returned", "finished"} => res[p] \in Outcomes
              /\ run[p] # "none" => call[p] = p /\ key[p] \in Keys
              /\ dups[p] > 0 <=> \E q \in Callers \ {p} : call[q] = p
              /\ ret[p] \in SF!Result =>
                   /\ call[p] \in Callers
                   /\ \/ run[call[p]] = "finished"
                      \/ run[call[p]] = "returned" /\ dups[call[p]] > 0
                   /\ ret[p].val = res[call[p]] /\ ret[p].shared = (dups[call[p]] > 0)
         /\ \A k \in Keys : m[k] # NoCall =>
              /\ m[k] \in Callers /\ key[m[k]] = k
              /\ run[m[k]] \in {"running", "returned", "panicked"}
<1> USE DEF GroupInv, Group!StructInv, Group!TypeOK, Group!CallInv, Group!Registered,
            Group!Open, Group!AnswerInv, Group!Answer, Group!Result, SF!Result
<1>1. \A p \in Callers :
        /\ pc[p] = "idle" => call[p] = NoCall /\ run[p] = "none"
        /\ pc[p] = "leading" => call[p] = p
        /\ run[p] \in {"returned", "finished"} => res[p] \in Outcomes
        /\ run[p] # "none" => call[p] = p /\ key[p] \in Keys
  OBVIOUS
<1>2. \A p, q \in Callers : pc[p] = "idle" => call[q] # p
  BY <1>1
<1>3. \A p \in Callers : dups[p] > 0 <=> \E q \in Callers \ {p} : call[q] = p
  OBVIOUS
<1>4. ASSUME NEW p \in Callers, ret[p] \in SF!Result
      PROVE  /\ call[p] \in Callers
             /\ \/ run[call[p]] = "finished"
                \/ run[call[p]] = "returned" /\ dups[call[p]] > 0
             /\ ret[p].val = res[call[p]] /\ ret[p].shared = (dups[call[p]] > 0)
  <2>1. /\ call[p] \in Callers /\ ret[p] = [val |-> res[call[p]], shared |-> dups[call[p]] > 0]
        /\ \/ run[call[p]] = "finished"
           \/ run[call[p]] = "returned" /\ dups[call[p]] > 0
    BY <1>4
  <2>2. QED BY <2>1
<1>5. \A k \in Keys : m[k] # NoCall =>
        /\ m[k] \in Callers /\ key[m[k]] = k
        /\ run[m[k]] \in {"running", "returned", "panicked"}
  OBVIOUS
<1>6. QED BY <1>1, <1>2, <1>3, <1>4, <1>5

-----------------------------------------------------------------------------
(* Types and the path of an invocation.                                    *)

LEMMA MinIsLeast ==
  ASSUME NEW S \in SUBSET Nat, S # {}
  PROVE  Min(S) \in S /\ \A y \in S : Min(S) <= y
<1>1. PICK x \in S : \A y \in S : ~(<<y, x>> \in OpToRel(<, Nat))
  BY NatLessThanWellFounded, WFMin
<1>2. ASSUME NEW y \in S
      PROVE  x <= y
  <2>1. x \in Nat /\ y \in Nat
    OBVIOUS
  <2>2. ~(y < x)
    BY <1>1, <2>1 DEF OpToRel
  <2>3. QED BY <2>1, <2>2
<1>3. QED BY <1>2 DEF Min

\* The floor an Invalidate sets: what is under way for the key is no older.
LEMMA FloorIsLeast ==
  ASSUME TypeInv, PathInv, GroupInv, NEW k \in Keys
  PROVE  LET S == {src} \union {began[call[p]] : p \in Inside(k)}
         IN  /\ Min(S) \in 0..MaxVersion /\ Min(S) <= src
             /\ \A p \in Inside(k) : Min(S) <= began[call[p]]
<1> DEFINE S == {src} \union {began[call[p]] : p \in Inside(k)}
<1>1. \A p \in Inside(k) : call[p] \in Callers
  BY DEF PathInv, PathAt, Inside
<1>2. S \subseteq 0..MaxVersion /\ S # {}
  BY <1>1 DEF TypeInv
<1>3. Min(S) \in S /\ \A y \in S : Min(S) <= y
  <2> HIDE DEF S
  <2>1. S \in SUBSET Nat
    BY <1>2
  <2>2. QED BY <1>2, <2>1, MinIsLeast
<1>4. QED BY <1>2, <1>3

LEMMA TypeInit == Init => TypeInv
BY VersionBound DEF Init, TypeInv

LEMMA TypeStep ==
  ASSUME GroupInv, TypeInv, PathInv, [Next]_vars
  PROVE  TypeInv'
<1> USE DEF TypeInv, wvars
<1>1. ASSUME NEW p \in Callers, NEW k \in Keys, Lookup(p, k)
      PROVE  TypeInv'
  BY <1>1 DEF Lookup
<1>2. ASSUME NEW p \in Callers, EnterFlight(p)
      PROVE  TypeInv'
  BY <1>2 DEF EnterFlight
<1>3. ASSUME NEW p \in Callers, Compute(p) \/ GroupStep(p)
      PROVE  TypeInv'
  BY <1>3 DEF Compute, GroupStep
<1>4. ASSUME NEW p \in Callers, Finish(p)
      PROVE  TypeInv'
  <2>1. ret[p] \in SF!Result
    BY <1>4 DEF Finish, PathInv, PathAt
  <2>2. ret[p].val \in Outcomes
    BY <2>1 DEF SF!Result
  <2>3. cached' \in [Keys -> Outcomes \union {NoEntry}]
    BY <1>4, <2>2 DEF Finish, Store
  <2>4. QED BY <1>4, <2>2, <2>3 DEF Finish
<1>5. ASSUME NEW p \in Callers, Unwind(p)
      PROVE  TypeInv'
  BY <1>5 DEF Unwind
<1>6. ASSUME NEW k \in Keys, Invalidate(k)
      PROVE  TypeInv'
  BY <1>6, FloorIsLeast DEF Invalidate
<1>7. ASSUME NEW k \in Keys, Lose(k)
      PROVE  TypeInv'
  BY <1>7 DEF Lose
<1>8. CASE Update
  BY <1>8, VersionBound DEF Update
<1>9. CASE Reset
  <2>1. IsFiniteSet({p \in Callers : wpc[p] = "inflight"})
    BY CallersFinite, FS_Subset
  <2>2. Cardinality({p \in Callers : wpc[p] = "inflight"}) \in Nat
    BY <2>1, FS_CardinalityType
  <2>3. QED BY <1>9, <2>2 DEF Reset
<1>10. CASE UNCHANGED vars
  BY <1>10 DEF vars
<1>11. QED
  BY <1>1, <1>2, <1>3, <1>4, <1>5, <1>6, <1>7, <1>8, <1>9, <1>10 DEF Next

\* What PathInv needs of the Group: its variables are functions of their types.
LEMMA GroupTypes ==
  ASSUME GroupInv
  PROVE  /\ DOMAIN pc = Callers /\ DOMAIN call = Callers /\ DOMAIN key = Callers
         /\ DOMAIN run = Callers /\ DOMAIN res = Callers /\ DOMAIN ret = Callers
         /\ m \in [Keys -> Callers \union {NoCall}]
         /\ call \in [Callers -> Callers \union {NoCall}]
         /\ key \in [Callers -> Keys \union {NoKey}]
         /\ dups \in [Callers -> Nat]
BY DEF GroupInv, Group!StructInv, Group!TypeOK, Group!Open

LEMMA PathInit == Init => PathInv
<1> SUFFICES ASSUME Init, NEW p \in Callers
             PROVE  PathAt(p)
  BY DEF PathInv
<1>1. /\ pc[p] = "idle" /\ call[p] = NoCall /\ run[p] = "none"
      /\ wpc[p] = "idle" /\ wret[p] = NoOutcome
  BY DEF Init, SF!Init
<1>2. QED BY <1>1, MarkersDistinct DEF PathAt

LEMMA PathEnter ==
  ASSUME GroupInv, TypeInv, PathInv, NEW p \in Callers, EnterFlight(p)
  PROVE  PathInv'
<1> DEFINE k == arg[p]
<1> USE GroupTypes DEF TypeInv
<1>1. wpc[p] = "missed" /\ pc[p] = "idle" /\ k \in Keys /\ call[p] = NoCall /\ run[p] = "none"
      /\ \A q \in Callers : call[q] # p
  BY GroupFacts DEF PathInv, PathAt, EnterFlight
<1>2. /\ wpc' = [wpc EXCEPT ![p] = "inflight"] /\ key' = [key EXCEPT ![p] = k]
      /\ UNCHANGED <<arg, wret, ret, res>>
  BY DEF EnterFlight, SF!Do, SF!Enter
<1>3. CASE m[k] = NoCall
  <2>1. /\ call' = [call EXCEPT ![p] = p] /\ run' = [run EXCEPT ![p] = "running"]
        /\ pc' = [pc EXCEPT ![p] = "leading"]
    BY <1>3 DEF EnterFlight, SF!Do, SF!Lead, SF!Join
  <2>2. ASSUME NEW q \in Callers, q # p
        PROVE  PathAt(q)'
    BY <1>1, <1>2, <2>1, <2>2 DEF PathInv, PathAt
  <2>3. PathAt(p)'
    BY <1>1, <1>2, <2>1 DEF PathInv, PathAt
  <2>4. QED BY <2>2, <2>3 DEF PathInv
<1>4. CASE m[k] # NoCall
  <2>1. /\ call' = [call EXCEPT ![p] = m[k]] /\ UNCHANGED run
        /\ pc' = [pc EXCEPT ![p] = "waiting"]
    BY <1>4 DEF EnterFlight, SF!Do, SF!Lead, SF!Join
  <2>2. m[k] \in Callers /\ key[m[k]] = k /\ m[k] # p
    BY <1>1, <1>4, GroupFacts
  <2>3. ASSUME NEW q \in Callers, q # p
        PROVE  PathAt(q)'
    BY <1>1, <1>2, <2>1, <2>3 DEF PathInv, PathAt
  <2>4. PathAt(p)'
    BY <1>1, <1>2, <2>1, <2>2 DEF PathInv, PathAt
  <2>5. QED BY <2>3, <2>4 DEF PathInv
<1>5. QED BY <1>3, <1>4

LEMMA PathGroupStep ==
  ASSUME GroupInv, TypeInv, PathInv, NEW p \in Callers, Compute(p) \/ GroupStep(p)
  PROVE  PathInv'
<1> USE GroupTypes DEF TypeInv
<1>1. UNCHANGED <<wpc, arg, wret>>
  BY DEF Compute, GroupStep, wvars
<1>2. CASE Compute(p)
  <2>1. /\ run[p] = "running" /\ run' = [run EXCEPT ![p] = "returned"]
        /\ UNCHANGED <<pc, call, key, ret>>
    BY <1>2 DEF Compute, SF!FnReturn
  <2>2. QED BY <1>1, <2>1 DEF PathInv, PathAt
<1>3. CASE SF!FnPanic(p)
  <2>1. /\ pc[p] = "leading" /\ run' = [run EXCEPT ![p] = "panicked"]
        /\ pc' = [pc EXCEPT ![p] = "panicked"] /\ UNCHANGED <<call, key, ret>>
    BY <1>3 DEF SF!FnPanic
  <2>2. QED BY <1>1, <2>1 DEF PathInv, PathAt
<1>4. CASE SF!Complete(p)
  <2>1. run' = [run EXCEPT ![p] = "finished"] /\ UNCHANGED <<pc, call, key, ret>>
    BY <1>4 DEF SF!Complete
  <2>2. QED BY <1>1, <2>1 DEF PathInv, PathAt
<1>5. CASE SF!WaitDone(p) \/ SF!LeaderReturn(p)
  <2>1. PICK r : /\ pc' = [pc EXCEPT ![p] = "returned"] /\ ret' = [ret EXCEPT ![p] = r]
                 /\ pc[p] \in {"leading", "waiting"} /\ run[p] \notin {"running", "returned"}
                 /\ UNCHANGED <<run, call, key>> /\ r \in SF!Result
    <3>1. CASE SF!WaitDone(p)
      <4>1. call[p] \in Callers /\ run[call[p]] \in {"returned", "finished"} /\ pc[p] = "waiting"
        BY <3>1 DEF SF!WaitDone, PathInv, PathAt
      <4>2. res[call[p]] \in Outcomes
        BY <4>1, GroupFacts
      <4>3. [val |-> res[call[p]], shared |-> TRUE] \in SF!Result
        BY <4>2 DEF SF!Result
      <4>4. run[p] \notin {"running", "returned"}
        BY <4>1 DEF PathInv, PathAt
      <4>5. QED BY <3>1, <4>1, <4>3, <4>4 DEF SF!WaitDone, SF!Return
    <3>2. CASE SF!LeaderReturn(p)
      <4>1. pc[p] = "leading" /\ run[p] = "finished" /\ res[p] \in Outcomes
        BY <3>2, GroupFacts DEF SF!LeaderReturn
      <4>2. [val |-> res[p], shared |-> dups[p] > 0] \in SF!Result
        BY <4>1 DEF SF!Result
      <4>3. QED BY <3>2, <4>1, <4>2 DEF SF!LeaderReturn, SF!Return
    <3>3. QED BY <1>5, <3>1, <3>2
  <2>2. QED BY <1>1, <2>1 DEF PathInv, PathAt
<1>6. QED BY <1>2, <1>3, <1>4, <1>5 DEF GroupStep

LEMMA PathStep ==
  ASSUME GroupInv, TypeInv, PathInv, [Next]_vars
  PROVE  PathInv'
<1>1. ASSUME NEW p \in Callers, NEW k \in Keys, Lookup(p, k)
      PROVE  PathInv'
  <2>1. /\ wpc[p] = "idle" /\ pc[p] = "idle" /\ wret[p] \notin Outcomes
        /\ arg' = [arg EXCEPT ![p] = k]
        /\ UNCHANGED <<pc, call, key, run, ret>>
    BY <1>1 DEF Lookup, PathInv, PathAt, sfvars
  <2>2. call[p] = NoCall
    BY <2>1, GroupFacts
  <2>3. \/ wpc' = [wpc EXCEPT ![p] = "done"] /\ \E v : wret' = [wret EXCEPT ![p] = v]
        \/ wpc' = [wpc EXCEPT ![p] = "missed"] /\ UNCHANGED wret
    BY <1>1 DEF Lookup
  <2>4. QED BY <2>1, <2>2, <2>3, GroupTypes DEF PathInv, PathAt, TypeInv
<1>2. ASSUME NEW p \in Callers, Finish(p) \/ Unwind(p)
      PROVE  PathInv'
  <2>1. /\ wpc[p] = "inflight" /\ pc[p] \in {"returned", "panicked"}
        /\ wret[p] \notin Outcomes
        /\ UNCHANGED <<pc, call, key, run, ret, arg>>
    BY <1>2 DEF Finish, Unwind, PathInv, PathAt, sfvars
  <2>2. \/ wpc' = [wpc EXCEPT ![p] = "done"] /\ \E v : wret' = [wret EXCEPT ![p] = v]
        \/ wpc' = [wpc EXCEPT ![p] = "panicked"] /\ UNCHANGED wret
    BY <1>2 DEF Finish, Unwind
  <2>3. QED BY <2>1, <2>2, GroupTypes DEF PathInv, PathAt, TypeInv
<1>3. CASE UNCHANGED <<sfvars, wpc, arg, wret>>
  BY <1>3 DEF PathInv, PathAt, sfvars
<1>4. QED
  BY <1>1, <1>2, <1>3, PathEnter, PathGroupStep
  DEF Next, vars, wvars, Invalidate, Lose, Update, Reset

-----------------------------------------------------------------------------
(* The age of what is read.                                                *)

LEMMA VersionInit == Init => VersionInv
<1> SUFFICES ASSUME Init
             PROVE  VersionInv
  OBVIOUS
<1>1. \A p \in Callers : /\ run[p] = "none" /\ wpc[p] = "idle" /\ wret[p] = NoOutcome
  BY DEF Init, SF!Init
<1>2. \A k \in Keys : cached[k] = NoEntry /\ floor[k] = 0
  BY DEF Init
<1>3. src = 0
  BY DEF Init
<1>4. QED
  BY <1>1, <1>2, <1>3, MarkersDistinct
  DEF VersionInv, ResultAge, CachedAge, ReadsAge, MissedAge, FreshAfterDelete, Reads

LEMMA OutcomeVersion == \A v \in Outcomes : v.ver \in 0..MaxVersion
BY DEF Outcomes

LEMMA VersionLookup ==
  ASSUME TypeInv, PathInv, VersionInv,
         NEW p \in Callers, NEW k \in Keys, Lookup(p, k)
  PROVE  VersionInv'
<1> USE DEF TypeInv
<1>1. /\ wpc[p] = "idle" /\ arg' = [arg EXCEPT ![p] = k] /\ due' = [due EXCEPT ![p] = floor[k]]
      /\ UNCHANGED <<call, run, res, cached, src, began, floor>>
  BY DEF Lookup, sfvars
<1>2. \/ /\ wpc' = [wpc EXCEPT ![p] = "done"] /\ wret' = [wret EXCEPT ![p] = cached[k]]
         /\ cached[k] # NoEntry
      \/ wpc' = [wpc EXCEPT ![p] = "missed"] /\ UNCHANGED wret
  BY DEF Lookup
<1>3. \A q \in Callers : Reads(q)' <=> Reads(q) /\ q # p
  BY <1>1, <1>2 DEF Reads
<1>4. ResultAge' /\ CachedAge'
  BY <1>1 DEF VersionInv, ResultAge, CachedAge
<1>5. ReadsAge'
  BY <1>1, <1>3 DEF VersionInv, ReadsAge
<1>6. MissedAge'
  <2>1. ASSUME NEW q \in Callers, wpc'[q] = "missed", q # p
        PROVE  /\ due'[q] <= src'
               /\ \A r \in Callers : Reads(r)' /\ arg'[r] = arg'[q] => began'[call'[r]] >= due'[q]
    BY <1>1, <1>2, <1>3, <2>1 DEF VersionInv, MissedAge
  <2>2. /\ due'[p] <= src'
        /\ \A r \in Callers : Reads(r)' /\ arg'[r] = arg'[p] => began'[call'[r]] >= due'[p]
    BY <1>1, <1>3 DEF VersionInv, ReadsAge, CachedAge
  <2>3. QED BY <2>1, <2>2 DEF MissedAge
<1>7. FreshAfterDelete'
  BY <1>1, <1>2 DEF VersionInv, CachedAge, FreshAfterDelete, PathInv, PathAt
<1>8. QED BY <1>4, <1>5, <1>6, <1>7 DEF VersionInv

\* Entering: the leader reads the source from now on; whoever joins an execution
\* of its key joins one whose leader is inside, so ReadsAge and MissedAge bound it.
LEMMA VersionEnter ==
  ASSUME GroupInv, TypeInv, PathInv, VersionInv, NEW p \in Callers, EnterFlight(p)
  PROVE  VersionInv'
<1> DEFINE k == arg[p]
<1> USE GroupTypes DEF TypeInv
<1>1. wpc[p] = "missed" /\ pc[p] = "idle" /\ k \in Keys /\ run[p] = "none"
      /\ \A q \in Callers : call[q] # p
  BY GroupFacts DEF PathInv, PathAt, EnterFlight
<1>2. /\ wpc' = [wpc EXCEPT ![p] = "inflight"] /\ began' = [began EXCEPT ![p] = src]
      /\ UNCHANGED <<arg, wret, res, cached, src, floor, due>>
  BY DEF EnterFlight, SF!Do, SF!Enter
<1>3. PICK c \in Callers :
        /\ call' = [call EXCEPT ![p] = c]
        /\ \A q \in Callers \ {p} : run'[q] = run[q]
        /\ run'[p] \in {"none", "running"}
        /\ run'[c] # "panicked" =>
             /\ began'[c] >= floor[k] /\ began'[c] >= due[p]
             /\ \A q \in Callers : wpc[q] = "missed" /\ arg[q] = k => began'[c] >= due[q]
  <2>1. CASE m[k] = NoCall
    <3>1. call' = [call EXCEPT ![p] = p] /\ run' = [run EXCEPT ![p] = "running"]
      BY <2>1 DEF EnterFlight, SF!Do, SF!Lead, SF!Join
    <3>2. /\ began'[p] >= floor[k] /\ began'[p] >= due[p]
          /\ \A q \in Callers : wpc[q] = "missed" /\ arg[q] = k => began'[p] >= due[q]
      BY <1>1, <1>2 DEF VersionInv, CachedAge, MissedAge
    <3>3. QED BY <3>1, <3>2
  <2>2. CASE m[k] # NoCall
    <3>1. call' = [call EXCEPT ![p] = m[k]] /\ UNCHANGED run
      BY <2>2 DEF EnterFlight, SF!Do, SF!Lead, SF!Join
    <3>2. m[k] \in Callers /\ key[m[k]] = k /\ run[m[k]] \in {"running", "returned", "panicked"}
      BY <1>1, <2>2, GroupFacts
    <3>3. ASSUME run[m[k]] # "panicked"
          PROVE  Reads(m[k]) /\ call[m[k]] = m[k] /\ arg[m[k]] = k /\ m[k] # p
      <4>1. pc[m[k]] = "leading" /\ wpc[m[k]] = "inflight"
        BY <3>2, <3>3 DEF PathInv, PathAt
      <4>2. call[m[k]] = m[k]
        BY <3>2, <4>1, GroupFacts
      <4>3. arg[m[k]] = k
        BY <3>2, <4>1 DEF PathInv, PathAt
      <4>4. QED BY <1>1, <3>3, <4>1, <4>2, <4>3 DEF Reads
    <3>4. ASSUME run[m[k]] # "panicked"
          PROVE  /\ began'[m[k]] >= floor[k] /\ began'[m[k]] >= due[p]
                 /\ \A q \in Callers : wpc[q] = "missed" /\ arg[q] = k => began'[m[k]] >= due[q]
      BY <1>1, <1>2, <3>2, <3>3, <3>4 DEF VersionInv, ReadsAge, MissedAge
    <3>5. QED BY <1>1, <3>1, <3>2, <3>4
  <2>3. QED BY <2>1, <2>2
<1>4. \A q \in Callers \ {p} : Reads(q)' => Reads(q) /\ call'[q] = call[q]
                                            /\ began'[call[q]] = began[call[q]]
  <2> SUFFICES ASSUME NEW q \in Callers \ {p}, Reads(q)'
               PROVE  Reads(q) /\ call'[q] = call[q] /\ began'[call[q]] = began[call[q]]
    OBVIOUS
  <2>1. wpc[q] = "inflight" /\ call'[q] = call[q]
    BY <1>2, <1>3 DEF Reads
  <2>2. call[q] \in Callers /\ call[q] # p
    BY <1>1, <2>1 DEF PathInv, PathAt
  <2>3. QED BY <1>2, <1>3, <2>1, <2>2 DEF Reads
<1>5. Reads(p)' => run'[c] # "panicked" /\ call'[p] = c
  BY <1>3 DEF Reads
<1>6. ResultAge'
  BY <1>2, <1>3 DEF VersionInv, ResultAge
<1>7. CachedAge'
  BY <1>2 DEF VersionInv, CachedAge
<1>8. ReadsAge'
  BY <1>2, <1>3, <1>4, <1>5 DEF VersionInv, ReadsAge
<1>9. MissedAge'
  BY <1>2, <1>3, <1>4, <1>5 DEF VersionInv, MissedAge
<1>10. FreshAfterDelete'
  BY <1>2 DEF VersionInv, FreshAfterDelete
<1>11. QED BY <1>6, <1>7, <1>8, <1>9, <1>10 DEF VersionInv

LEMMA VersionGroupStep ==
  ASSUME GroupInv, TypeInv, PathInv, VersionInv,
         NEW p \in Callers, Compute(p) \/ GroupStep(p)
  PROVE  VersionInv'
<1> USE GroupTypes DEF TypeInv
<1>1. UNCHANGED <<wvars, call>>
  BY DEF Compute, GroupStep, SF!FnReturn, SF!FnPanic, SF!Complete, SF!WaitDone,
         SF!LeaderReturn, SF!Return
<1>2. ResultAge' /\ \A c \in Callers : run'[c] # "panicked" => run[c] # "panicked"
  <2>1. CASE Compute(p)
    <3>1. PICK v \in Outcomes : v.ver \in began[p]..src /\ SF!FnReturn(p, v)
      BY <2>1 DEF Compute
    <3>2. /\ run[p] = "running" /\ run' = [run EXCEPT ![p] = "returned"]
          /\ res' = [res EXCEPT ![p] = v] /\ v.ver >= began[p]
      BY <3>1 DEF SF!FnReturn
    <3>3. QED BY <1>1, <3>2 DEF VersionInv, ResultAge, wvars
  <2>2. CASE SF!FnPanic(p)
    BY <1>1, <2>2 DEF SF!FnPanic, VersionInv, ResultAge, wvars
  <2>3. CASE SF!Complete(p)
    BY <1>1, <2>3 DEF SF!Complete, VersionInv, ResultAge, wvars
  <2>4. CASE SF!WaitDone(p) \/ SF!LeaderReturn(p)
    BY <1>1, <2>4 DEF SF!WaitDone, SF!LeaderReturn, SF!Return, VersionInv, ResultAge, wvars
  <2>5. QED BY <2>1, <2>2, <2>3, <2>4 DEF GroupStep
<1>3. \A q \in Callers : Reads(q)' => Reads(q)
  BY <1>1, <1>2 DEF Reads, PathInv, PathAt, wvars
<1>4. CachedAge' /\ ReadsAge' /\ MissedAge' /\ FreshAfterDelete'
  BY <1>1, <1>3
  DEF wvars, VersionInv, CachedAge, ReadsAge, MissedAge, FreshAfterDelete
<1>5. QED BY <1>2, <1>4 DEF VersionInv

\* Returning: the answer is the result of the execution that was read, and so is
\* what is stored.
LEMMA VersionFinish ==
  ASSUME GroupInv, TypeInv, PathInv, VersionInv, NEW p \in Callers, Finish(p)
  PROVE  VersionInv'
<1> USE GroupTypes DEF TypeInv
<1>1. /\ wpc[p] = "inflight" /\ pc[p] = "returned" /\ arg[p] \in Keys
      /\ wpc' = [wpc EXCEPT ![p] = "done"] /\ wret' = [wret EXCEPT ![p] = ret[p].val]
      /\ UNCHANGED <<call, run, res, src, began, arg, floor, due>>
  BY DEF Finish, sfvars, PathInv, PathAt
<1>2. ret[p] \in SF!Result
  BY <1>1 DEF PathInv, PathAt
<1>3. /\ call[p] \in Callers /\ run[call[p]] \in {"returned", "finished"}
      /\ ret[p].val = res[call[p]]
  BY <1>2, GroupFacts
<1>4. ret[p].val.ver >= floor[arg[p]] /\ ret[p].val.ver >= due[p]
  <2>1. res[call[p]].ver >= began[call[p]]
    BY <1>3 DEF VersionInv, ResultAge
  <2>2. began[call[p]] >= floor[arg[p]] /\ began[call[p]] >= due[p]
    BY <1>1, <1>3 DEF VersionInv, ReadsAge, Reads
  <2>3. res[call[p]].ver \in Int
    BY <1>3, GroupFacts, OutcomeVersion
  <2>4. began[call[p]] \in Int /\ floor[arg[p]] \in Int /\ due[p] \in Int
    BY <1>1, <1>3
  <2>5. QED BY <1>3, <2>1, <2>2, <2>3, <2>4
<1>5. cached' = cached \/ cached' = [cached EXCEPT ![arg[p]] = ret[p].val]
  BY DEF Finish, Store
<1>6. \A q \in Callers : Reads(q)' => Reads(q) /\ q # p
  BY <1>1 DEF Reads
<1>7. ResultAge' /\ ReadsAge' /\ MissedAge'
  BY <1>1, <1>6 DEF VersionInv, ResultAge, ReadsAge, MissedAge
<1>8. CachedAge'
  BY <1>1, <1>4, <1>5 DEF VersionInv, CachedAge
<1>9. FreshAfterDelete'
  BY <1>1, <1>4 DEF VersionInv, FreshAfterDelete
<1>10. QED BY <1>7, <1>8, <1>9 DEF VersionInv

LEMMA VersionInvalidate ==
  ASSUME GroupInv, TypeInv, PathInv, VersionInv, NEW k \in Keys, Invalidate(k)
  PROVE  VersionInv'
<1> DEFINE f == Min({src} \union {began[call[p]] : p \in Inside(k)})
<1> USE DEF TypeInv
<1>1. /\ floor' = [floor EXCEPT ![k] = f] /\ cached' = [cached EXCEPT ![k] = NoEntry]
      /\ UNCHANGED <<call, run, res, src, began, wpc, arg, wret, due>>
  BY DEF Invalidate, sfvars
<1>2. f <= src /\ \A p \in Inside(k) : f <= began[call[p]]
  BY FloorIsLeast
<1> HIDE DEF f
<1>3. \A p \in Callers : Reads(p)' <=> Reads(p)
  BY <1>1 DEF Reads
<1>4. ResultAge' /\ MissedAge' /\ FreshAfterDelete'
  BY <1>1, <1>3 DEF VersionInv, ResultAge, MissedAge, FreshAfterDelete
<1>5. CachedAge'
  BY <1>1, <1>2 DEF VersionInv, CachedAge
<1>6. ReadsAge'
  <2> SUFFICES ASSUME NEW p \in Callers, Reads(p)
               PROVE  began[call[p]] >= floor'[arg[p]] /\ began[call[p]] >= due[p]
    BY <1>1, <1>3 DEF ReadsAge
  <2>1. began[call[p]] >= floor[arg[p]] /\ began[call[p]] >= due[p]
    BY DEF VersionInv, ReadsAge
  <2>2. CASE arg[p] = k
    <3>1. p \in Inside(k) /\ call[p] \in Callers
      BY <2>2 DEF Inside, Reads, PathInv, PathAt
    <3>2. f <= began[call[p]] /\ f \in Int /\ began[call[p]] \in Int
      BY <1>2, <3>1, FloorIsLeast DEF f
    <3>3. QED BY <1>1, <2>1, <2>2, <3>2
  <2>3. CASE arg[p] # k
    <3>1. floor'[arg[p]] = floor[arg[p]]
      BY <1>1, <2>3 DEF Reads, PathInv, PathAt
    <3>2. QED BY <2>1, <3>1
  <2>4. QED BY <2>2, <2>3
<1>7. QED BY <1>4, <1>5, <1>6 DEF VersionInv

LEMMA VersionStep ==
  ASSUME GroupInv, TypeInv, PathInv, VersionInv, [Next]_vars
  PROVE  VersionInv'
<1> USE DEF TypeInv
<1>1. ASSUME NEW p \in Callers, Unwind(p)
      PROVE  VersionInv'
  <2>1. /\ wpc' = [wpc EXCEPT ![p] = "panicked"]
        /\ UNCHANGED <<call, run, res, cached, src, began, arg, wret, floor, due>>
    BY <1>1 DEF Unwind, sfvars
  <2>2. \A q \in Callers : Reads(q)' => Reads(q)
    BY <2>1 DEF Reads
  <2>3. QED
    BY <2>1, <2>2
    DEF VersionInv, ResultAge, CachedAge, ReadsAge, MissedAge, FreshAfterDelete
<1>2. ASSUME NEW k \in Keys, Lose(k)
      PROVE  VersionInv'
  BY <1>2 DEF Lose, sfvars, VersionInv, ResultAge, CachedAge, ReadsAge, MissedAge,
              FreshAfterDelete, Reads
<1>3. CASE Update
  <2>1. /\ src' = src + 1
        /\ UNCHANGED <<call, run, res, cached, began, wpc, arg, wret, floor, due>>
    BY <1>3 DEF Update, sfvars
  <2>2. \A q \in Callers : Reads(q)' <=> Reads(q)
    BY <2>1 DEF Reads
  <2>3. ResultAge' /\ ReadsAge' /\ FreshAfterDelete'
    BY <2>1, <2>2 DEF VersionInv, ResultAge, ReadsAge, FreshAfterDelete
  <2>4. CachedAge' /\ MissedAge'
    BY <2>1, <2>2, VersionBound DEF VersionInv, CachedAge, MissedAge
  <2>5. QED BY <2>3, <2>4 DEF VersionInv
<1>4. CASE UNCHANGED <<sfvars, cached, src, began, wpc, arg, wret, floor, due>>
  BY <1>4 DEF sfvars, VersionInv, ResultAge, CachedAge, ReadsAge, MissedAge,
              FreshAfterDelete, Reads
<1>5. QED
  BY <1>1, <1>2, <1>3, <1>4, VersionLookup, VersionEnter, VersionGroupStep,
     VersionFinish, VersionInvalidate
  DEF Next, vars, wvars, Reset

-----------------------------------------------------------------------------
(* What is stored, and the gauge.                                          *)

\* A finished call stays as it is: nobody joins it, since the table leads to
\* open calls only.
LEMMA FinishedKept ==
  ASSUME GroupInv, TypeInv, PathInv, [Next]_vars, NEW c \in Callers, run[c] = "finished"
  PROVE  run'[c] = "finished" /\ key'[c] = key[c] /\ dups'[c] = dups[c] /\ res'[c] = res[c]
<1> USE GroupTypes
<1>1. ASSUME NEW p \in Callers, EnterFlight(p)
      PROVE  run'[c] = "finished" /\ key'[c] = key[c] /\ dups'[c] = dups[c] /\ res'[c] = res[c]
  <2>1. pc[p] = "idle" /\ arg[p] \in Keys /\ p # c
    BY <1>1, GroupFacts DEF PathInv, PathAt, EnterFlight
  <2>2. m[arg[p]] # NoCall => m[arg[p]] # c
    BY <2>1, GroupFacts
  <2>3. QED BY <1>1, <2>1, <2>2 DEF EnterFlight, SF!Do, SF!Enter, SF!Lead, SF!Join
<1>2. ASSUME NEW p \in Callers, Compute(p)
      PROVE  run'[c] = "finished" /\ key'[c] = key[c] /\ dups'[c] = dups[c] /\ res'[c] = res[c]
  BY <1>2 DEF Compute, SF!FnReturn
<1>3. ASSUME NEW p \in Callers, GroupStep(p)
      PROVE  run'[c] = "finished" /\ key'[c] = key[c] /\ dups'[c] = dups[c] /\ res'[c] = res[c]
  BY <1>3 DEF GroupStep, SF!FnPanic, SF!Complete, SF!WaitDone, SF!LeaderReturn, SF!Return
<1>4. CASE UNCHANGED sfvars
  BY <1>4 DEF sfvars
<1>5. QED
  BY <1>1, <1>2, <1>3, <1>4
  DEF Next, Lookup, Finish, Unwind, Invalidate, Lose, Update, Reset, vars

LEMMA StoredStep ==
  ASSUME GroupInv, TypeInv, PathInv, OnlyLoneAnswersCached, [Next]_vars
  PROVE  OnlyLoneAnswersCached'
<1> USE DEF TypeInv
<1> DEFINE Stored(k) == \E c \in Callers : /\ run[c] = "finished" /\ key[c] = k /\ dups[c] = 0
                                           /\ res[c] = cached[k]
                                           /\ cached[k].err => c \in CacheErrors
<1>1. ASSUME NEW k \in Keys, cached'[k] = cached[k], cached[k] # NoEntry
      PROVE  Stored(k)'
  <2>1. PICK c \in Callers : /\ run[c] = "finished" /\ key[c] = k /\ dups[c] = 0
                             /\ res[c] = cached[k]
                             /\ cached[k].err => c \in CacheErrors
    BY <1>1 DEF OnlyLoneAnswersCached
  <2>2. run'[c] = "finished" /\ key'[c] = k /\ dups'[c] = 0 /\ res'[c] = cached[k]
    BY <2>1, FinishedKept
  <2>3. QED BY <1>1, <2>1, <2>2
<1>2. ASSUME NEW p \in Callers, Finish(p), ~ret[p].shared,
             ret[p].val.err => p \in CacheErrors,
             cached' = [cached EXCEPT ![arg[p]] = ret[p].val]
      PROVE  Stored(arg[p])'
  <2>1. pc[p] = "returned" /\ arg[p] \in Keys /\ key[p] = arg[p] /\ ret[p] \in SF!Result
    BY <1>2 DEF Finish, PathInv, PathAt
  <2>2. /\ call[p] \in Callers /\ ret[p].val = res[call[p]]
        /\ run[call[p]] = "finished" /\ ~(dups[call[p]] > 0)
    BY <1>2, <2>1, GroupFacts
  <2>3. dups[call[p]] = 0
    BY <2>2, GroupTypes
  <2>4. call[p] = p
    BY <2>2, GroupFacts
  <2>5. UNCHANGED <<run, key, dups, res>> /\ cached'[arg[p]] = ret[p].val
    BY <1>2, <2>1 DEF Finish, sfvars
  <2>6. /\ run'[p] = "finished" /\ key'[p] = arg[p] /\ dups'[p] = 0
        /\ res'[p] = cached'[arg[p]]
    BY <2>1, <2>2, <2>3, <2>4, <2>5
  <2>7. cached'[arg[p]].err => p \in CacheErrors
    BY <1>2, <2>5
  <2>8. arg'[p] = arg[p]
    BY <1>2 DEF Finish
  <2>9. QED BY <2>6, <2>7, <2>8
<1> HIDE DEF Stored
<1>3. ASSUME NEW k \in Keys, cached'[k] # NoEntry
      PROVE  Stored(k)'
  <2>1. ASSUME cached'[k] # cached[k]
        PROVE  \E p \in Callers : /\ Finish(p) /\ arg[p] = k /\ ~ret[p].shared
                                  /\ ret[p].val.err => p \in CacheErrors
                                  /\ cached' = [cached EXCEPT ![arg[p]] = ret[p].val]
    <3>1. ASSUME NEW p \in Callers, Finish(p)
          PROVE  /\ arg[p] = k /\ ~ret[p].shared
                 /\ ret[p].val.err => p \in CacheErrors
                 /\ cached' = [cached EXCEPT ![arg[p]] = ret[p].val]
      <4>1. ~(ret[p].shared \/ (ret[p].val.err /\ p \notin CacheErrors))
        BY <2>1, <3>1 DEF Finish, Store
      <4>2. cached' = [cached EXCEPT ![arg[p]] = ret[p].val]
        BY <3>1, <4>1 DEF Finish, Store
      <4>3. arg[p] = k
        BY <2>1, <4>2
      <4>4. QED BY <4>1, <4>2, <4>3
    <3>2. cached' = cached \/ (\E p \in Callers : Finish(p))
          \/ \E j \in Keys : cached' = [cached EXCEPT ![j] = NoEntry]
      BY DEF Next, vars, wvars, Lookup, EnterFlight, Compute, GroupStep, Unwind, Invalidate,
             Lose, Update, Reset
    <3>3. \E p \in Callers : Finish(p)
      BY <1>3, <2>1, <3>2
    <3>4. QED BY <3>1, <3>3
  <2>2. CASE cached'[k] = cached[k]
    BY <1>1, <1>3, <2>2
  <2>3. CASE cached'[k] # cached[k]
    <3>1. PICK p \in Callers : /\ Finish(p) /\ arg[p] = k /\ ~ret[p].shared
                               /\ ret[p].val.err => p \in CacheErrors
                               /\ cached' = [cached EXCEPT ![arg[p]] = ret[p].val]
      BY <2>1, <2>3
    <3>2. Stored(arg[p])'
      BY <1>2, <3>1
    <3>3. arg'[p] = k
      BY <3>1 DEF Finish
    <3>4. QED BY <3>2, <3>3
  <2>4. QED BY <2>2, <2>3
<1>4. QED BY <1>3 DEF OnlyLoneAnswersCached, Stored

LEMMA GaugeStep ==
  ASSUME TypeInv, InFlightShort, [Next]_vars
  PROVE  InFlightShort'
<1> DEFINE S == {p \in Callers : wpc[p] = "inflight"}
<1>1. IsFiniteSet(S) /\ Cardinality(S) \in Nat
  BY CallersFinite, FS_Subset, FS_CardinalityType
<1>2. inFlight \in Int /\ lost \in Nat /\ DOMAIN wpc = Callers /\ inFlight = Cardinality(S) - lost
  BY DEF TypeInv, InFlightShort
<1>3. ASSUME NEW p \in Callers, EnterFlight(p)
      PROVE  InFlightShort'
  <2>1. S' = S \cup {p} /\ p \notin S /\ inFlight' = inFlight + 1 /\ lost' = lost
    BY <1>2, <1>3 DEF EnterFlight
  <2>2. Cardinality(S') = Cardinality(S) + 1
    BY <1>1, <2>1, FS_AddElement
  <2>3. QED BY <1>1, <1>2, <2>1, <2>2 DEF InFlightShort
<1>4. ASSUME NEW p \in Callers, Finish(p) \/ Unwind(p)
      PROVE  InFlightShort'
  <2>1. S' = S \ {p} /\ p \in S /\ inFlight' = inFlight - 1 /\ lost' = lost
    BY <1>2, <1>4 DEF Finish, Unwind
  <2>2. Cardinality(S') = Cardinality(S) - 1
    BY <1>1, <2>1, FS_RemoveElement
  <2>3. QED BY <1>1, <1>2, <2>1, <2>2 DEF InFlightShort
<1>5. CASE Reset
  BY <1>1, <1>5 DEF Reset, InFlightShort
<1>6. ASSUME UNCHANGED <<inFlight, lost>>, S' = S
      PROVE  InFlightShort'
  BY <1>6, <1>2 DEF InFlightShort
<1>7. ASSUME NEW p \in Callers, NEW k \in Keys, Lookup(p, k)
      PROVE  InFlightShort'
  BY <1>2, <1>6, <1>7 DEF Lookup
<1>8. CASE UNCHANGED <<wpc, inFlight, lost>>
  BY <1>6, <1>8
<1>9. QED
  BY <1>3, <1>4, <1>5, <1>7, <1>8
  DEF Next, vars, wvars, Compute, GroupStep, Invalidate, Lose, Update

-----------------------------------------------------------------------------
(* The theorems.                                                           *)

LEMMA Inductive == Spec => []IInv
<1>1. Init => IInv
  <2>1. Init => OnlyLoneAnswersCached
    BY DEF Init, OnlyLoneAnswersCached
  <2>2. Init => InFlightShort
    <3> SUFFICES ASSUME Init
                 PROVE  InFlightShort
      OBVIOUS
    <3>1. {p \in Callers : wpc[p] = "inflight"} = {} /\ inFlight = 0 /\ lost = 0
      BY DEF Init
    <3>2. QED BY <3>1, FS_EmptySet DEF InFlightShort
  <2>3. QED BY <2>1, <2>2, GroupInvInit, TypeInit, PathInit, VersionInit DEF IInv
<1>2. IInv /\ [Next]_vars => IInv'
  BY GroupStepKept, TypeStep, PathStep, VersionStep, StoredStep, GaugeStep DEF IInv
<1>3. QED BY <1>1, <1>2, PTL DEF Spec

\* The variables keep their types, the Group's among them: what a caller is
\* returned and what is stored is always an outcome of the function.
THEOREM TypeCorrect == Spec => []TypeOK
<1>1. IInv => TypeOK
  <2>1. Group!TypeOK => SF!TypeOK
    BY DEF Group!TypeOK, SF!TypeOK, Group!Open, SF!Open, Group!Result, SF!Result
  <2>2. QED BY <2>1 DEF IInv, GroupInv, Group!StructInv, TypeInv, TypeOK
<1>2. QED BY <1>1, Inductive, PTL

\* An invocation that begins after a Delete is answered with a version no older
\* than the oldest execution under way at the deletion, however late the stores.
THEOREM FreshnessHolds == Spec => []FreshAfterDelete
<1>1. IInv => FreshAfterDelete
  BY DEF IInv, VersionInv
<1>2. QED BY <1>1, Inductive, PTL

\* The gauge inFlight counts those inside, less those inside at the last Reset.
THEOREM GaugeHolds == Spec => []InFlightShort
<1>1. IInv => InFlightShort
  BY DEF IInv
<1>2. QED BY <1>1, Inductive, PTL

\* Only the answer of an execution nobody joined is stored, and an error only
\* where CacheErrors asks for it.
THEOREM LoneAnswersHold == Spec => []OnlyLoneAnswersCached
<1>1. IInv => OnlyLoneAnswersCached
  BY DEF IInv
<1>2. QED BY <1>1, Inductive, PTL

\* The wrapper uses the Group only through its operations: each of its behaviours
\* is one of a Group that is never told to Forget.
THEOREM GroupIsSingleflight == Spec => SF!Spec
<1>1. Init => SF!Init
  BY DEF Init
<1>2. IInv /\ [Next]_vars => [SF!Next]_(SF!vars)
  <2>1. IInv /\ [Next]_vars => [Group!Next]_(Group!vars)
    BY GroupNext DEF IInv
  <2>2. Group!Next => SF!Next
    BY DEF Group!Next, SF!Next, Group!Do, SF!Do, Group!DoChan, SF!DoChan,
           Group!DoContext, SF!DoContext, Group!Enter, SF!Enter, Group!Lead, SF!Lead,
           Group!Join, SF!Join, Group!FnReturn, SF!FnReturn, Group!FnPanic, SF!FnPanic,
           Group!Complete, SF!Complete, Group!WaitDone, SF!WaitDone,
           Group!LeaderReturn, SF!LeaderReturn, Group!Receive, SF!Receive,
           Group!CtxDone, SF!CtxDone, Group!Cancel, SF!Cancel,
           Group!Forget, SF!Forget, Group!Return, SF!Return
  <2>3. QED BY <2>1, <2>2 DEF Group!vars, SF!vars
<1>3. QED BY <1>1, <1>2, Inductive, PTL DEF Spec, SF!Spec
=============================================================================
