-------------------------------- MODULE Hooks --------------------------------
(***************************************************************************)
(* The hooks of a cache: how they are registered, composed and invoked.    *)
(* What a hook does is a sequence of atoms, each with the occasions on     *)
(* which it is done, so that a hook built by composition is again one; the *)
(* effects the atoms stand for are the caller's.  A condition is the set   *)
(* of the occasions it is true of.                                         *)
(***************************************************************************)
EXTENDS Integers, Sequences, FiniteSets, SequencesExt

CONSTANTS
  Keys,
  Contexts,           \* sets of pairs of a key and its value
  Args,               \* argument lists
  NoArgs,             \* nil, one of Args
  NilValue,           \* what a context answers for a key it does not have
  NilHook, NilCond

Background == {}
ASSUME OccasionParts == Background \in Contexts /\ NoArgs \in Args

Events == {"hit", "miss", "evict", "invalidate"}
\* EvictReason, by its string
EvictReasons == {"LRU", "TTL", "Capacity"}

\* HookPriorityHigh, HookPriorityMedium, HookPriorityLow
Priority == [High |-> 100, Medium |-> 50, Low |-> 10]

\* What hooks and conditions are told
Occasions == [key : Keys, ctx : Contexts, args : Args]
\* All the cache ever tells them: no caller's context, no arguments
FromCache(k) == [key |-> k, ctx |-> Background, args |-> NoArgs]

\* What calling a nil function does
PanicAtom == [does |-> "panic"]

\* A hook that does the atom a, whatever the occasion
Hook(a) == <<[on |-> Occasions, do |-> a]>>

\* the hooks that do atoms of A
HooksDoing(A) == {NilHook} \union Seq([on : SUBSET Occasions, do : A])

Prioritized(hook, priority) == [hook |-> hook, priority |-> priority]
Conditioned(hook, cond) == [hook |-> hook, cond |-> cond]

\* The zero Hooks: for each event, the lists in the order of their invocation
NoHooks == [e \in Events |-> [plain |-> <<>>, ctx |-> <<>>, priority |-> <<>>,
                              ctxPriority |-> <<>>, conditional |-> <<>>]]

\* the Hooks of such hooks
HooksOf(A) ==
  LET plain == Seq(HooksDoing(A))
      prioritized == Seq([hook : HooksDoing(A), priority : Int])
      conditional == Seq([hook : HooksDoing(A), cond : {NilCond} \union SUBSET Occasions])
  IN [Events -> [plain : plain, ctx : plain, priority : prioritized,
                 ctxPriority : prioritized, conditional : conditional]]

-----------------------------------------------------------------------------
(* Registration: AddOn... of each event.                                   *)

AddOn(h, e, hook) == [h EXCEPT ![e].plain = Append(@, hook)]
AddOnCtx(h, e, hook) == [h EXCEPT ![e].ctx = Append(@, hook)]
AddOnWithPriority(h, e, hook, p) ==
  [h EXCEPT ![e].priority = Append(@, Prioritized(hook, p))]
AddOnCtxWithPriority(h, e, hook, p) ==
  [h EXCEPT ![e].ctxPriority = Append(@, Prioritized(hook, p))]
AddOnCtxIf(h, e, hook, cond) ==
  [h EXCEPT ![e].conditional = Append(@, Conditioned(hook, cond))]

-----------------------------------------------------------------------------
(* Composition.                                                            *)

\* CombineOnHitHooks, CombineOnMissHooks and their Ctx forms pass over nil
Combine(hooks) == FlattenSeq(SelectSeq(hooks, LAMBDA h : h # NilHook))

\* ConditionalHook, ConditionalMissHook: a nil condition is never met; a nil
\* hook is called all the same
ConditionalHook(hook, cond) ==
  LET on == IF cond = NilCond THEN {} ELSE cond
      called == IF hook = NilHook THEN Hook(PanicAtom) ELSE hook
  IN [i \in DOMAIN called |-> [called[i] EXCEPT !.on = @ \intersect on]]

\* prefixed: the keys that have the prefix
KeyPrefixCondition(prefixed) == {o \in Occasions : o.key \in prefixed}

ContextValueCondition(ctxKey, expected) ==
  {o \in Occasions :
     IF \E v \in o.ctx : v[1] = ctxKey THEN <<ctxKey, expected>> \in o.ctx
                                       ELSE expected = NilValue}

\* Nil conditions are passed over: none at all is true under And, false under Or
AndCondition(conds) ==
  {o \in Occasions : \A c \in Range(conds) \ {NilCond} : o \in c}
OrCondition(conds) ==
  {o \in Occasions : \E c \in Range(conds) \ {NilCond} : o \in c}

-----------------------------------------------------------------------------
(* Invocation.                                                             *)

\* What a hook does on occasion o
Effects(hook, o) ==
  IF hook = NilHook THEN <<>>
  ELSE FlattenSeq([i \in DOMAIN hook |-> IF o \in hook[i].on THEN <<hook[i].do>> ELSE <<>>])

EffectsOfAll(hooks, o) == FlattenSeq([i \in DOMAIN hooks |-> Effects(hooks[i], o)])

\* runs the low priorities first
Bug_ByPriority(s) ==
  {[i \in DOMAIN s |-> s[f[i]].hook] :
     f \in {f \in Bijection(DOMAIN s, DOMAIN s) :
              \A i, j \in DOMAIN s : i < j => s[f[i]].priority <= s[f[j]].priority}}

\* sort.Slice, highest first, promises no order among equals
ByPriority(s) ==
  {[i \in DOMAIN s |-> s[f[i]].hook] :
     f \in {f \in Bijection(DOMAIN s, DOMAIN s) :
              \A i, j \in DOMAIN s : i < j => s[f[i]].priority >= s[f[j]].priority}}

Met(s, o) ==
  FlattenSeq([i \in DOMAIN s |->
    IF s[i].cond # NilCond /\ o \in s[i].cond THEN <<s[i].hook>> ELSE <<>>])

\* invokeOnHitWithCtx and invokeOnMissWithCtx: what may be done, in order
Invoke(h, e, o) ==
  LET l == h[e] IN
  {EffectsOfAll(l.plain \o l.ctx \o p \o cp \o Met(l.conditional, o), o) :
     p \in ByPriority(l.priority), cp \in ByPriority(l.ctxPriority)}

\* invokeOnEvict, which supplies the background context, and its Ctx form
InvokeOnEvict(h, k) == Invoke(h, "evict", FromCache(k))
InvokeOnInvalidate(h, o) == Invoke(h, "invalidate", o)
=============================================================================
