---------------------------- MODULE Singleflight ----------------------------
(***************************************************************************)
(* The duplicate-suppression Group of internal/singleflight: a table `m`   *)
(* from keys to in-flight calls, guarded by the mutex g.mu.  Each element  *)
(* of Callers is one invocation of Do, DoChan or DoContext by some         *)
(* goroutine; the call object it creates, if it creates one, and the       *)
(* channel it receives on, if it has one, go by the name of that caller.   *)
(* Every critical section of g.mu is one action.  wg.Done() comes before   *)
(* the critical section that deregisters the call, so the two are separate *)
(* steps, as are the function's execution and the caller's return.         *)
(***************************************************************************)
EXTENDS Naturals, FiniteSets

CONSTANTS
  Callers,    \* invocations of the Group's methods
  Keys,       \* keys of the calls
  Outcomes,   \* what fn may return: a (value, error) pair is one outcome
  NoCall,     \* "no call": an absent key of m, a caller without a call
  NoOutcome,  \* the zero val/err of a call whose fn has not returned
  NoKey,      \* key of a caller that has not called yet
  Empty,      \* an empty channel, or an invocation that has not returned
  CtxErr,     \* the (zero, ctx.Err(), false) result of a cancelled DoContext
  MayForget,  \* whether the environment calls Forget
  MayPanic    \* whether the supplied function may panic

ASSUME CallersFinite == IsFiniteSet(Callers)
ASSUME ConstantsDistinct ==
  /\ NoCall \notin Callers
  /\ NoKey \notin Keys
  /\ NoOutcome \notin Outcomes
ASSUME FlagsBoolean == MayForget \in BOOLEAN /\ MayPanic \in BOOLEAN

Result == [val : Outcomes, shared : BOOLEAN]

ASSUME ResultsDistinct == Empty \notin Result /\ CtxErr \notin Result /\ CtxErr # Empty

VARIABLES
  m,          \* the table: Keys -> registered call
  pc,         \* where each invocation is
  call,       \* the call an invocation created or joined
  key,        \* the key an invocation was made with
  run,        \* the life of the call a caller created
  res,        \* call.val and call.err
  dups,       \* call.dups
  chans,      \* call.chans; the order of the channels is of no consequence
  inbox,      \* the buffered (capacity 1) channel of an invocation
  cancelled,  \* whether the context of an invocation is done
  ret,        \* what an invocation returned
  forgotten   \* history: the calls that Forget took out of m

vars == <<m, pc, call, key, run, res, dups, chans, inbox, cancelled, ret, forgotten>>

Open == {"running", "returned", "panicked"}

TypeOK ==
  /\ m \in [Keys -> Callers \union {NoCall}]
  /\ pc \in [Callers -> {"idle", "leading", "waiting", "receiving", "selecting",
                         "returned", "panicked"}]
  /\ call \in [Callers -> Callers \union {NoCall}]
  /\ key \in [Callers -> Keys \union {NoKey}]
  /\ run \in [Callers -> Open \union {"none", "finished"}]
  /\ res \in [Callers -> Outcomes \union {NoOutcome}]
  /\ dups \in [Callers -> Nat]
  /\ chans \in [Callers -> SUBSET Callers]
  /\ inbox \in [Callers -> Result \union {Empty}]
  /\ cancelled \in [Callers -> BOOLEAN]
  /\ ret \in [Callers -> Result \union {Empty, CtxErr}]
  /\ forgotten \subseteq Callers

Init ==
  /\ m = [k \in Keys |-> NoCall]
  /\ pc = [p \in Callers |-> "idle"]
  /\ call = [p \in Callers |-> NoCall]
  /\ key = [p \in Callers |-> NoKey]
  /\ run = [p \in Callers |-> "none"]
  /\ res = [p \in Callers |-> NoOutcome]
  /\ dups = [p \in Callers |-> 0]
  /\ chans = [p \in Callers |-> {}]
  /\ inbox = [p \in Callers |-> Empty]
  /\ cancelled = [p \in Callers |-> FALSE]
  /\ ret = [p \in Callers |-> Empty]
  /\ forgotten = {}

-----------------------------------------------------------------------------
(* The critical section that opens Do and DoChan.  `chs` is {p} when the   *)
(* invocation brings a channel and {} when it does not.                    *)

(* Bug_ definitions here and below are deliberate faults: no action uses    *)
(* them, and each shows the property it is there to break can be broken.    *)

\* registers without looking for a call in flight
Bug_LeadBlindly(p, k, chs) ==
  /\ m' = [m EXCEPT ![k] = p]
  /\ call' = [call EXCEPT ![p] = p]
  /\ run' = [run EXCEPT ![p] = "running"]
  /\ chans' = [chans EXCEPT ![p] = chs]
  /\ UNCHANGED dups

\* does not count the duplicate
Bug_JoinUncounted(p, k, chs) ==
  /\ m[k] # NoCall
  /\ call' = [call EXCEPT ![p] = m[k]]
  /\ chans' = [chans EXCEPT ![m[k]] = @ \union chs]
  /\ UNCHANGED <<m, run, dups>>

\* does not append the channel
Bug_JoinUnheard(p, k, chs) ==
  /\ m[k] # NoCall
  /\ call' = [call EXCEPT ![p] = m[k]]
  /\ dups' = [dups EXCEPT ![m[k]] = @ + 1]
  /\ UNCHANGED <<m, run, chans>>

\* p finds no call for k: it registers a new one, which starts to run
Lead(p, k, chs) ==
  /\ m[k] = NoCall
  /\ m' = [m EXCEPT ![k] = p]
  /\ call' = [call EXCEPT ![p] = p]
  /\ run' = [run EXCEPT ![p] = "running"]
  /\ chans' = [chans EXCEPT ![p] = chs]
  /\ UNCHANGED dups

\* p finds a call for k: it counts as a duplicate and adds its channel
Join(p, k, chs) ==
  /\ m[k] # NoCall
  /\ call' = [call EXCEPT ![p] = m[k]]
  /\ dups' = [dups EXCEPT ![m[k]] = @ + 1]
  /\ chans' = [chans EXCEPT ![m[k]] = @ \union chs]
  /\ UNCHANGED <<m, run>>

Enter(p, k) ==
  /\ pc[p] = "idle"
  /\ key' = [key EXCEPT ![p] = k]
  /\ UNCHANGED <<res, inbox, forgotten>>

Do(p, k) ==
  /\ Enter(p, k)
  /\ \/ Lead(p, k, {}) /\ pc' = [pc EXCEPT ![p] = "leading"]
     \/ Join(p, k, {}) /\ pc' = [pc EXCEPT ![p] = "waiting"]
  /\ UNCHANGED <<cancelled, ret>>

\* `go g.doCall`: the caller keeps only its channel
DoChan(p, k) ==
  /\ Enter(p, k)
  /\ Lead(p, k, {p}) \/ Join(p, k, {p})
  /\ pc' = [pc EXCEPT ![p] = "receiving"]
  /\ UNCHANGED <<cancelled, ret>>

\* the context may be done before the call
DoContext(p, k) ==
  /\ Enter(p, k)
  /\ \/ /\ cancelled' = [cancelled EXCEPT ![p] = TRUE]
        /\ pc' = [pc EXCEPT ![p] = "returned"]
        /\ ret' = [ret EXCEPT ![p] = CtxErr]
        /\ UNCHANGED <<m, call, run, dups, chans>>
     \/ /\ Lead(p, k, {p}) \/ Join(p, k, {p})
        /\ pc' = [pc EXCEPT ![p] = "selecting"]
        /\ UNCHANGED <<cancelled, ret>>

-----------------------------------------------------------------------------
(* doCall, for the call created by c.                                      *)

\* fn returns v; wg.Done() releases the waiters of Do
FnReturn(c, v) ==
  /\ run[c] = "running"
  /\ res' = [res EXCEPT ![c] = v]
  /\ run' = [run EXCEPT ![c] = "returned"]
  /\ UNCHANGED <<m, pc, call, key, dups, chans, inbox, cancelled, ret, forgotten>>

\* fn panics under Do: the panic unwinds doCall past wg.Done() and delete.
\* (Under DoChan it has no caller to unwind into and ends the process.)
FnPanic(c) ==
  /\ MayPanic
  /\ run[c] = "running" /\ pc[c] = "leading"
  /\ run' = [run EXCEPT ![c] = "panicked"]
  /\ pc' = [pc EXCEPT ![c] = "panicked"]
  /\ UNCHANGED <<m, call, key, res, dups, chans, inbox, cancelled, ret, forgotten>>

\* answers the channels and leaves the call in the table
Bug_CompleteRegistered(c) ==
  /\ run[c] = "returned"
  /\ inbox' = [p \in Callers |-> IF p \in chans[c]
                                   THEN [val |-> res[c], shared |-> dups[c] > 0]
                                   ELSE inbox[p]]
  /\ run' = [run EXCEPT ![c] = "finished"]
  /\ UNCHANGED <<m, pc, call, key, res, dups, chans, cancelled, ret, forgotten>>

\* The closing critical section.  delete(g.m, key) takes out whatever call
\* is registered for the key; a send to a full channel would block.
Complete(c) ==
  /\ run[c] = "returned"
  /\ \A p \in chans[c] : inbox[p] = Empty
  /\ m' = [m EXCEPT ![key[c]] = NoCall]
  /\ inbox' = [p \in Callers |-> IF p \in chans[c]
                                   THEN [val |-> res[c], shared |-> dups[c] > 0]
                                   ELSE inbox[p]]
  /\ run' = [run EXCEPT ![c] = "finished"]
  /\ UNCHANGED <<pc, call, key, res, dups, chans, cancelled, ret, forgotten>>

-----------------------------------------------------------------------------
(* How invocations return.                                                 *)

Return(p, r) ==
  /\ pc' = [pc EXCEPT ![p] = "returned"]
  /\ ret' = [ret EXCEPT ![p] = r]
  /\ UNCHANGED <<m, call, key, run, res, dups, chans, cancelled, forgotten>>

\* does not wait for wg.Done()
Bug_WaitNot(p) ==
  /\ pc[p] = "waiting"
  /\ Return(p, [val |-> res[call[p]], shared |-> TRUE])
  /\ UNCHANGED inbox

\* c.wg.Wait() passes from wg.Done() on, before or after the deregistration
WaitDone(p) ==
  /\ pc[p] = "waiting"
  /\ run[call[p]] \in {"returned", "finished"}
  /\ Return(p, [val |-> res[call[p]], shared |-> TRUE])
  /\ UNCHANGED inbox

\* the leader reads c.dups after doCall, without the mutex
LeaderReturn(p) ==
  /\ pc[p] = "leading" /\ run[p] = "finished"
  /\ Return(p, [val |-> res[p], shared |-> dups[p] > 0])
  /\ UNCHANGED inbox

Receive(p) ==
  /\ pc[p] \in {"receiving", "selecting"} /\ inbox[p] # Empty
  /\ Return(p, inbox[p])
  /\ inbox' = [inbox EXCEPT ![p] = Empty]

\* select takes either ready branch: the answer may be there and be left
CtxDone(p) ==
  /\ pc[p] = "selecting" /\ cancelled[p]
  /\ Return(p, CtxErr)
  /\ UNCHANGED inbox

\* the context becomes done while the invocation waits
Cancel(p) ==
  /\ pc[p] = "selecting" /\ ~cancelled[p]
  /\ cancelled' = [cancelled EXCEPT ![p] = TRUE]
  /\ UNCHANGED <<m, pc, call, key, run, res, dups, chans, inbox, ret, forgotten>>

Forget(k) ==
  /\ MayForget
  /\ m[k] # NoCall
  /\ m' = [m EXCEPT ![k] = NoCall]
  /\ forgotten' = forgotten \union {m[k]}
  /\ UNCHANGED <<pc, call, key, run, res, dups, chans, inbox, cancelled, ret>>

InFlight == Cardinality({k \in Keys : m[k] # NoCall})

Next ==
  \/ \E p \in Callers, k \in Keys : Do(p, k) \/ DoChan(p, k) \/ DoContext(p, k)
  \/ \E c \in Callers, v \in Outcomes : FnReturn(c, v)
  \/ \E p \in Callers : \/ FnPanic(p) \/ Complete(p)
                        \/ WaitDone(p) \/ LeaderReturn(p) \/ Receive(p)
                        \/ CtxDone(p) \/ Cancel(p)
  \/ \E k \in Keys : Forget(k)

Spec == Init /\ [][Next]_vars

\* fn terminates, and while a goroutine can run, one does.  Nobody has to call,
\* to Forget or to cancel; no step can be taken for ever, so this is all the
\* fairness it needs.
Work ==
  \E p \in Callers :
    \/ \E v \in Outcomes : FnReturn(p, v)
    \/ FnPanic(p) \/ Complete(p) \/ WaitDone(p) \/ LeaderReturn(p) \/ Receive(p)
Fairness == WF_vars(Work)

FairSpec == Spec /\ Fairness

-----------------------------------------------------------------------------
(* Safety.                                                                 *)

OpenCalls(k) == {c \in Callers : key[c] = k /\ run[c] \in Open}
ForgottenCalls(k) == {c \in forgotten : key[c] = k}

\* Duplicate suppression, as the code provides it: the calls open for a key
\* never outnumber the Forgets of that key by more than one.  In particular,
\* without Forget there is at most one.  (Complete may delete the entry of a
\* newer call, so "at most one call that was not forgotten" is not what holds.)
InFlightBound ==
  \A k \in Keys : Cardinality(OpenCalls(k)) <= 1 + Cardinality(ForgottenCalls(k))

\* Do and DoChan: whoever got an answer got the outcome of the one call it
\* joined, and is told `shared` exactly when somebody else was on that call,
\* although the leader reads dups unlocked and waiters race deregistration.
AnswerIsShared ==
  \A p \in Callers : ret[p] \in Result =>
    /\ ret[p].val = res[call[p]]
    /\ ret[p].shared <=> \E q \in Callers \ {p} : call[q] = call[p]

\* InFlight counts no key that is idle: an entry of m always leads to a call
\* of that key which has yet to deregister, so a completed call is never
\* joined, however completions and Forgets of the key interleave.
RegisteredIsOpen ==
  \A k \in Keys : m[k] # NoCall => m[k] \in OpenCalls(k)

(* Liveness.                                                               *)

\* The comment on Do: "the duplicate caller waits for the original to
\* complete and receives the same results", and so does a channel's reader.
EveryCallerReturns ==
  \A p \in Callers :
    pc[p] \in {"leading", "waiting", "receiving", "selecting"}
      ~> pc[p] \in {"returned", "panicked"}

\* What remains true when functions may panic: every invocation returns, however
\* Forgets, cancellations and panics of other calls fall, unless the function
\* panicked in the very call that the invocation joined.
ReturnsUnlessPanicked ==
  \A p \in Callers :
    pc[p] \in {"leading", "waiting", "receiving", "selecting"}
      ~> \/ pc[p] \in {"returned", "panicked"}
         \/ \E c \in Callers : call[p] = c /\ run[c] = "panicked"
=============================================================================
