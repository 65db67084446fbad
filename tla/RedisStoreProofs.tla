-------------------------- MODULE RedisStoreProofs --------------------------
(***************************************************************************)
(* RedisStore for any processes, threads, keys, TTLs and calls: its types, *)
(* that a writer of a process excludes its readers, and, for the caches of *)
(* one process, that what was last written stands.  With two processes it  *)
(* does not, as the run RedisStoreShared shows.                            *)
(***************************************************************************)
EXTENDS RedisStore, SequenceTheorems, TLAPS

\* a call a thread is making
Call ==
  {c \in [name : Ops, key : Keys \union {Absent}, entry : Entry \union {Absent}] :
     /\ c.name \in {"Get", "Set", "Delete"} => c.key \in Keys
     /\ c.name = "Set" => c.entry \in Entry}

Plans == {<<>>, <<"get">>, <<"write">>, <<"keys">>, <<"write", "keys">>,
          <<"keys", "write", "keys">>}

TypeInv ==
  /\ clock \in 0..MaxTime /\ ops \in 0..MaxOps
  /\ server \in [Keys -> Entry \union {Absent}]
  /\ pc \in [Threads -> {"idle", "ready", "draining", "writing", "deleting", "listing",
                         "visiting", "reading", "settling"}]
  /\ op \in [Threads -> Call \union {Idle}]
  /\ plan \in [Threads -> Plans]
  /\ todo \in [Threads -> SUBSET Keys]
  /\ at \in [Threads -> Keys \union {Absent}]
  /\ got \in [Threads -> Entry \union {Absent}]
  /\ reads \in [Threads -> 0..2]
  /\ writer \in [Processes -> Threads \union {Nobody}]
  /\ last \in [Keys -> 0..MaxOps]

\* where a thread is, against its call, what is left of it and its read locks
LocalAt(t) ==
  /\ pc[t] # "idle" => op[t] \in Call
  /\ pc[t] # "idle" /\ plan[t] = <<"get">> => op[t].name = "Get"
  /\ pc[t] \in {"draining", "writing", "deleting"} => plan[t] \in {<<"write">>, <<"write", "keys">>}
  /\ pc[t] \in {"listing", "visiting"} => plan[t] # <<>> /\ Head(plan[t]) = "keys"
  /\ pc[t] \in {"reading", "settling"} =>
       at[t] \in Keys /\ plan[t] # <<>> /\ Head(plan[t]) \in {"get", "keys"}
  /\ reads[t] = CASE pc[t] \in {"listing", "visiting"} -> 1
                  [] pc[t] \in {"reading", "settling"} -> IF Head(plan[t]) = "keys" THEN 2 ELSE 1
                  [] OTHER -> 0

\* who has asked for the write lock is known as the writer, and one who has it
\* is alone in the process
LockAt(t) ==
  /\ pc[t] \in {"draining", "writing", "deleting"} => writer[Home(t)] = t
  /\ pc[t] \in {"writing", "deleting"} => \A u \in Peers(t) : reads[u] = 0

LockInv == TypeInv /\ \A t \in Threads : LocalAt(t) /\ LockAt(t)

\* what a Get is about to save is what was last written under the key
SettlingInv ==
  \A t \in Threads : pc[t] = "settling" => got[t] \in Entry /\ got[t].val = last[at[t]]

IInv == LockInv /\ SettlingInv /\ LastWriteStands

-----------------------------------------------------------------------------
(* Processes and plans.                                                    *)

LEMMA HomeFacts ==
  ASSUME NEW t \in Threads
  PROVE  /\ Home(t) \in Processes /\ t \in Home(t) /\ t \in Peers(t)
         /\ \A u \in Peers(t) : u \in Threads /\ Home(u) = Home(t)
<1>1. Home(t) \in Processes /\ t \in Home(t)
  BY DEF Home, Threads
<1>2. \A u \in Threads : Home(u) \in Processes /\ u \in Home(u)
  BY DEF Home, Threads
<1>3. ASSUME NEW u \in Peers(t)
      PROVE  u \in Threads /\ Home(u) = Home(t)
  <2>1. PICK P \in Processes : t \in P /\ u \in P
    BY <1>3 DEF Peers
  <2>2. u \in Threads
    BY <2>1 DEF Threads
  <2>3. Home(t) = P /\ Home(u) = P
    BY <1>1, <1>2, <2>1, <2>2, ProcessesDisjoint
  <2>4. QED BY <2>2, <2>3
<1>4. t \in Peers(t)
  BY <1>1 DEF Peers
<1>5. QED BY <1>1, <1>3, <1>4

LEMMA PlanFacts ==
  /\ \A p \in Plans : p # <<>> => Tail(p) \in Plans /\ Tail(p) # <<"get">>
  /\ \A p \in Plans : p # <<>> /\ Head(p) = "write" => p \in {<<"write">>, <<"write", "keys">>}
  /\ \A p \in Plans : p # <<>> /\ Head(p) = "get" => p = <<"get">>
  /\ \A p \in {<<"write">>, <<"write", "keys">>} : p # <<>>
BY DEF Plans

LEMMA CallsFacts ==
  ASSUME NEW name \in Ops
  PROVE  Calls(name) \in Plans /\ (Calls(name) = <<"get">> => name = "Get")
<1>1. name \in {"Get", "Set", "Delete", "Clear", "Close", "Len", "Stats"}
  BY OpsKnown
<1>2. QED BY <1>1 DEF Calls, Plans

-----------------------------------------------------------------------------
(* Types and locks.                                                        *)

Untouched(u) == UNCHANGED <<pc[u], op[u], plan[u], at[u], reads[u]>>

\* What is left to show of a step of one thread: the thread itself, that no
\* other loses the lock it asked for, and that a writer keeps new readers out.
LEMMA ThreadStep ==
  ASSUME LockInv, NEW t \in Threads,
         TypeInv', LocalAt(t)',
         \A u \in Threads \ {t} : Untouched(u),
         \A u \in Threads \ {t} : writer[Home(u)] = u => writer'[Home(u)] = u,
         reads'[t] <= reads[t] \/ writer[Home(t)] = Nobody,
         pc'[t] \in {"draining", "writing", "deleting"} => writer'[Home(t)] = t,
         pc'[t] \in {"writing", "deleting"} => \A u \in Peers(t) : reads'[u] = 0
  PROVE  LockInv'
<1>1. ASSUME NEW u \in Threads \ {t}
      PROVE  LocalAt(u)' /\ LockAt(u)'
  <2>1. Untouched(u) /\ LocalAt(u) /\ LockAt(u)
    BY <1>1 DEF LockInv
  <2>2. LocalAt(u)'
    BY <2>1 DEF Untouched, LocalAt
  <2>3. pc[u] \in {"draining", "writing", "deleting"} => writer'[Home(u)] = u
    BY <1>1, <2>1 DEF LockAt
  <2>4. ASSUME pc[u] \in {"writing", "deleting"}, NEW v \in Peers(u)
        PROVE  reads'[v] = 0
    <3>1. v \in Threads /\ Home(v) = Home(u)
      BY <1>1, HomeFacts
    <3>2. reads[v] = 0 /\ writer[Home(u)] = u
      BY <2>1, <2>4 DEF LockAt
    <3>3. CASE v # t
      BY <3>1, <3>2, <3>3 DEF Untouched
    <3>4. CASE v = t
      <4>1. writer[Home(t)] # Nobody
        BY <3>1, <3>2, <3>4, <1>1, MarkersDistinct
      <4>2. reads'[t] <= reads[t] /\ reads'[t] \in 0..2
        BY <4>1 DEF TypeInv
      <4>3. QED BY <3>2, <3>4, <4>2
    <3>5. QED BY <3>3, <3>4
  <2>5. LockAt(u)'
    BY <2>1, <2>3, <2>4 DEF LockAt, Untouched
  <2>6. QED BY <2>2, <2>5
<1>2. LockAt(t)'
  BY DEF LockAt
<1>3. QED BY <1>1, <1>2 DEF LockInv

\* what a thread that is not idle has: its call, its plan, its read locks
LEMMA CallOf ==
  ASSUME LockInv, NEW t \in Threads
  PROVE  /\ pc[t] # "idle" => op[t] \in Call
         /\ plan[t] \in Plans /\ LocalAt(t) /\ LockAt(t)
         /\ Home(t) \in Processes /\ t \in Peers(t)
BY HomeFacts DEF LockInv, TypeInv, LocalAt

LEMMA LockInit == Init => LockInv
<1> SUFFICES ASSUME Init PROVE LockInv
  OBVIOUS
<1>1. TypeInv
  BY Numbers DEF Init, TypeInv, Plans
<1>2. ASSUME NEW t \in Threads
      PROVE  LocalAt(t) /\ LockAt(t)
  BY DEF Init, LocalAt, LockAt
<1>3. QED BY <1>1, <1>2 DEF LockInv

LEMMA SetEntry ==
  ASSUME TypeInv, ops < MaxOps, NEW call \in Requests, call.name = "Set"
  PROVE  [val |-> ops + 1, exp |-> clock + call.ttl] \in Entry
<1>1. ops + 1 \in 1..MaxOps /\ clock \in 0..MaxTime
  BY Numbers DEF TypeInv
<1>2. call.ttl \in TTLs
  BY DEF Requests
<1>3. QED BY <1>1, <1>2 DEF Entry

LEMMA BeginLocks ==
  ASSUME LockInv, NEW t \in Threads, NEW call \in Requests, Begin(t, call)
  PROVE  LockInv'
<1> DEFINE entry == IF call.name = "Set" THEN [val |-> ops + 1, exp |-> clock + call.ttl]
                    ELSE Absent
           c == [name |-> call.name, key |-> call.key, entry |-> entry]
<1>1. call.name \in Ops /\ call.key \in Keys \union {Absent}
      /\ (call.name \in {"Get", "Set", "Delete"} => call.key # Absent)
  BY DEF Requests
<1>2. entry \in Entry \union {Absent} /\ (call.name = "Set" => entry \in Entry)
  BY SetEntry DEF Begin, LockInv
<1>3. c \in Call
  BY <1>1, <1>2 DEF Call
<1>4. Calls(call.name) \in Plans /\ (Calls(call.name) = <<"get">> => call.name = "Get")
  BY <1>1, CallsFacts
<1>5. op' = [op EXCEPT ![t] = c]
  BY DEF Begin
<1>6. TypeInv'
  BY <1>3, <1>4, <1>5, Numbers DEF LockInv, TypeInv, Begin
<1>7. LocalAt(t)'
  <2>1. pc'[t] = "ready" /\ op'[t] = c /\ plan'[t] = Calls(call.name) /\ reads'[t] = 0
    BY <1>5, CallOf DEF LockInv, TypeInv, Begin, LocalAt
  <2>2. QED BY <2>1, <1>3, <1>4 DEF LocalAt
<1>8. \A u \in Threads \ {t} : Untouched(u)
  BY DEF LockInv, TypeInv, Begin, Untouched
<1>9. pc'[t] = "ready" /\ reads'[t] = reads[t] /\ writer' = writer /\ reads[t] \in 0..2
  BY DEF LockInv, TypeInv, Begin
<1>10. QED BY <1>6, <1>7, <1>8, <1>9, ThreadStep

LEMMA FinishLocks ==
  ASSUME LockInv, NEW t \in Threads, Finish(t)
  PROVE  LockInv'
<1>1. TypeInv'
  BY DEF LockInv, TypeInv, Finish, time
<1>2. LocalAt(t)'
  <2>1. pc'[t] = "idle" /\ reads'[t] = 0
    BY CallOf DEF LockInv, TypeInv, Finish, LocalAt
  <2>2. QED BY <2>1 DEF LocalAt
<1>3. \A u \in Threads \ {t} : Untouched(u)
  BY DEF LockInv, TypeInv, Finish, Untouched
<1>4. pc'[t] = "idle" /\ reads'[t] = reads[t] /\ writer' = writer /\ reads[t] \in 0..2
  BY DEF LockInv, TypeInv, Finish
<1>5. QED BY <1>1, <1>2, <1>3, <1>4, ThreadStep

LEMMA WriterLocks ==
  ASSUME LockInv, NEW t \in Threads,
         WriteLock(t) \/ Drain(t) \/ ClearList(t)
  PROVE  LockInv'
<1>1. CASE WriteLock(t)
  <2>1. TypeInv'
    BY <1>1, HomeFacts DEF LockInv, TypeInv, WriteLock, time
  <2>2. plan[t] \in {<<"write">>, <<"write", "keys">>}
    BY <1>1, CallOf, PlanFacts DEF WriteLock, Calling
  <2>3. pc[t] = "ready" /\ pc'[t] = "draining"
    BY <1>1 DEF WriteLock, Calling, LockInv, TypeInv
  <2>4. LocalAt(t)'
    BY <1>1, <2>2, <2>3, CallOf DEF WriteLock, LocalAt
  <2>5. \A u \in Threads \ {t} : Untouched(u)
    BY <1>1 DEF LockInv, TypeInv, WriteLock, Untouched
  <2>6. writer'[Home(t)] = t /\ writer[Home(t)] = Nobody
    BY <1>1, HomeFacts DEF LockInv, TypeInv, WriteLock
  <2>7. ASSUME NEW u \in Threads \ {t}, writer[Home(u)] = u
        PROVE  writer'[Home(u)] = u
    <3>1. Home(u) # Home(t)
      BY <2>6, <2>7, MarkersDistinct
    <3>2. QED BY <1>1, <2>7, <3>1, HomeFacts DEF LockInv, TypeInv, WriteLock
  <2>8. QED BY <2>1, <2>3, <2>4, <2>5, <2>6, <2>7, ThreadStep
<1>2. CASE Drain(t)
  <2>1. TypeInv'
    BY <1>2 DEF LockInv, TypeInv, Drain, time
  <2>2. pc[t] = "draining" /\ pc'[t] = "writing"
    BY <1>2 DEF Drain, LockInv, TypeInv
  <2>3. LocalAt(t)'
    BY <1>2, <2>2, CallOf DEF Drain, LocalAt
  <2>4. \A u \in Threads \ {t} : Untouched(u)
    BY <1>2 DEF LockInv, TypeInv, Drain, Untouched
  <2>5. writer' = writer /\ writer[Home(t)] = t /\ reads' = reads /\ reads[t] \in 0..2
    BY <1>2, <2>2, CallOf DEF Drain, LockAt, LockInv, TypeInv
  <2>6. \A u \in Peers(t) : reads'[u] = 0
    BY <1>2 DEF Drain
  <2>7. QED BY <2>1, <2>3, <2>4, <2>5, <2>6, ThreadStep
<1>3. CASE ClearList(t)
  <2>1. TypeInv'
    BY <1>3 DEF LockInv, TypeInv, ClearList, Present, time
  <2>2. pc[t] = "writing" /\ pc'[t] = "deleting"
    BY <1>3 DEF ClearList, LockInv, TypeInv
  <2>3. LocalAt(t)'
    BY <1>3, <2>2, CallOf DEF ClearList, LocalAt
  <2>4. \A u \in Threads \ {t} : Untouched(u)
    BY <1>3 DEF LockInv, TypeInv, ClearList, Untouched
  <2>5. writer' = writer /\ writer[Home(t)] = t /\ reads' = reads /\ reads[t] \in 0..2
    BY <1>3, <2>2, CallOf DEF ClearList, LockAt, LockInv, TypeInv
  <2>6. \A u \in Peers(t) : reads'[u] = 0
    BY <1>3, <2>2, CallOf DEF ClearList, LockAt
  <2>7. QED BY <2>1, <2>3, <2>4, <2>5, <2>6, ThreadStep
<1>4. QED BY <1>1, <1>2, <1>3

LEMMA WrittenLocks ==
  ASSUME LockInv, NEW t \in Threads,
         WriteFail(t) \/ StoreSet(t) \/ StoreDelete(t) \/ ClearDelete(t)
  PROVE  LockInv'
<1>1. pc[t] \in {"writing", "deleting"} /\ Unlock(t)
  BY DEF WriteFail, StoreSet, StoreDelete, ClearDelete
<1>2. op[t] \in Call /\ plan[t] \in Plans /\ plan[t] # <<>>
  BY <1>1, CallOf, PlanFacts DEF LocalAt
<1>3. pc'[t] = "ready" /\ writer'[Home(t)] = Nobody
      /\ writer' \in [Processes -> Threads \union {Nobody}]
      /\ pc' = [pc EXCEPT ![t] = "ready"]
  BY <1>1, HomeFacts DEF LockInv, TypeInv, Unlock
<1>4. \E rest \in Plans : rest # <<"get">> /\ plan' = [plan EXCEPT ![t] = rest]
  <2>1. Tail(plan[t]) \in Plans /\ Tail(plan[t]) # <<"get">> /\ <<>> \in Plans
    BY <1>2, PlanFacts DEF Plans
  <2>2. plan' = [plan EXCEPT ![t] = <<>>] \/ plan' = [plan EXCEPT ![t] = Tail(plan[t])]
    BY DEF WriteFail, StoreSet, StoreDelete, ClearDelete
  <2>3. <<>> # <<"get">>
    OBVIOUS
  <2>4. QED BY <2>1, <2>2, <2>3
<1>5. op' = op /\ reads' = reads /\ at' = at /\ got' = got /\ UNCHANGED time
  BY DEF WriteFail, StoreSet, StoreDelete, ClearDelete
<1>6. server' \in [Keys -> Entry \union {Absent}] /\ last' \in [Keys -> 0..MaxOps]
      /\ todo' \in [Threads -> SUBSET Keys]
  <2>1. CASE WriteFail(t)
    BY <2>1 DEF WriteFail, LockInv, TypeInv
  <2>2. CASE StoreSet(t)
    <3>1. op[t].key \in Keys /\ op[t].entry \in Entry
      BY <1>2, <2>2 DEF StoreSet, Call
    <3>2. Saved(op[t].entry) \in Entry \union {Absent}
      BY <3>1 DEF Saved
    <3>3. op[t].entry.val \in 0..MaxOps
      BY <3>1, Numbers DEF Entry
    <3>4. QED BY <2>2, <3>1, <3>2, <3>3 DEF StoreSet, LockInv, TypeInv
  <2>3. CASE StoreDelete(t)
    <3>1. op[t].key \in Keys
      BY <1>2, <2>3 DEF StoreDelete, Call
    <3>2. QED BY <2>3, <3>1, Numbers DEF StoreDelete, LockInv, TypeInv
  <2>4. CASE ClearDelete(t)
    BY <2>4, Numbers DEF ClearDelete, LockInv, TypeInv
  <2>5. QED BY <2>1, <2>2, <2>3, <2>4
<1>7. TypeInv'
  BY <1>3, <1>4, <1>5, <1>6 DEF LockInv, TypeInv, time
<1>8. LocalAt(t)'
  <2>1. reads[t] = 0
    BY <1>1, CallOf DEF LocalAt
  <2>2. plan'[t] # <<"get">>
    BY <1>4 DEF LockInv, TypeInv
  <2>3. QED BY <1>2, <1>3, <1>5, <2>1, <2>2 DEF LocalAt
<1>9. \A u \in Threads \ {t} : Untouched(u)
  BY <1>3, <1>4, <1>5 DEF LockInv, TypeInv, Untouched
<1>10. ASSUME NEW u \in Threads \ {t}, writer[Home(u)] = u
       PROVE  writer'[Home(u)] = u
  <2>1. writer[Home(t)] = t
    BY <1>1, CallOf DEF LockAt
  <2>2. Home(u) # Home(t)
    BY <1>10, <2>1
  <2>3. QED BY <1>1, <1>10, <2>2, HomeFacts DEF LockInv, TypeInv, Unlock
<1>11. reads'[t] <= reads[t]
  BY <1>5 DEF LockInv, TypeInv
<1>12. QED BY <1>3, <1>7, <1>8, <1>9, <1>10, <1>11, ThreadStep

\* A reader is one that asks for no write lock, before the step and after it.
LEMMA ReaderStep ==
  ASSUME LockInv, NEW t \in Threads,
         TypeInv', LocalAt(t)', UNCHANGED writer,
         \A u \in Threads \ {t} : Untouched(u),
         reads'[t] <= reads[t] \/ writer[Home(t)] = Nobody,
         pc'[t] \notin {"draining", "writing", "deleting"}
  PROVE  LockInv'
BY ThreadStep

LEMMA KeysLocks ==
  ASSUME LockInv, NEW t \in Threads,
         KeysLock(t) \/ List(t) \/ Visit(t) \/ KeysUnlock(t)
  PROVE  LockInv'
<1>1. CASE KeysLock(t)
  <2>1. pc[t] = "ready" /\ reads[t] = 0 /\ pc'[t] = "listing" /\ reads'[t] = 1
    <3>1. pc[t] = "ready" /\ reads[t] = 0
      BY <1>1, CallOf DEF LocalAt, KeysLock, Calling
    <3>2. QED BY <1>1, <3>1 DEF LockInv, TypeInv, KeysLock, ReadLock
  <2>2. TypeInv'
    BY <1>1, <2>1 DEF LockInv, TypeInv, KeysLock, ReadLock, time
  <2>3. LocalAt(t)'
    BY <1>1, <2>1, CallOf DEF LocalAt, KeysLock, Calling
  <2>4. \A u \in Threads \ {t} : Untouched(u)
    BY <1>1 DEF LockInv, TypeInv, KeysLock, ReadLock, Untouched
  <2>5. QED BY <1>1, <2>1, <2>2, <2>3, <2>4, ReaderStep DEF KeysLock, ReadLock
<1>2. CASE List(t)
  <2>1. pc[t] = "listing" /\ pc'[t] = "visiting" /\ reads' = reads /\ reads[t] = 1
    BY <1>2, CallOf DEF LockInv, TypeInv, LocalAt, List
  <2>2. \E K \in SUBSET Keys : todo' = [todo EXCEPT ![t] = K]
    BY <1>2 DEF List, Present
  <2>3. TypeInv'
    BY <1>2, <2>2 DEF LockInv, TypeInv, List, time
  <2>4. LocalAt(t)'
    BY <1>2, <2>1, CallOf DEF LocalAt, List
  <2>5. \A u \in Threads \ {t} : Untouched(u)
    BY <1>2 DEF LockInv, TypeInv, List, Untouched
  <2>6. QED BY <1>2, <2>1, <2>3, <2>4, <2>5, ReaderStep DEF List
<1>3. CASE Visit(t)
  <2>1. /\ pc[t] = "visiting" /\ reads[t] = 1 /\ plan[t] # <<>> /\ Head(plan[t]) = "keys"
        /\ pc'[t] = "reading" /\ reads'[t] = 2
    BY <1>3, CallOf DEF LockInv, TypeInv, LocalAt, Visit, ReadLock
  <2>2. PICK k \in todo[t] : at' = [at EXCEPT ![t] = k] /\ todo' = [todo EXCEPT ![t] = @ \ {k}]
    BY <1>3 DEF Visit
  <2>3. k \in Keys
    BY <2>2 DEF LockInv, TypeInv
  <2>4. TypeInv'
    BY <1>3, <2>1, <2>2, <2>3 DEF LockInv, TypeInv, Visit, ReadLock, time
  <2>5. LocalAt(t)'
    BY <1>3, <2>1, <2>2, <2>3, CallOf DEF LockInv, TypeInv, LocalAt, Visit
  <2>6. \A u \in Threads \ {t} : Untouched(u)
    BY <1>3, <2>2 DEF LockInv, TypeInv, Visit, ReadLock, Untouched
  <2>7. QED BY <1>3, <2>1, <2>4, <2>5, <2>6, ReaderStep DEF Visit, ReadLock
<1>4. CASE KeysUnlock(t)
  <2>1. /\ pc[t] = "visiting" /\ reads[t] = 1 /\ plan[t] # <<>>
        /\ pc'[t] = "ready" /\ reads'[t] = 0
    BY <1>4, CallOf DEF LockInv, TypeInv, LocalAt, KeysUnlock
  <2>2. Tail(plan[t]) \in Plans /\ Tail(plan[t]) # <<"get">>
    BY <2>1, CallOf, PlanFacts
  <2>3. TypeInv'
    BY <1>4, <2>1, <2>2 DEF LockInv, TypeInv, KeysUnlock, time
  <2>4. LocalAt(t)'
    BY <1>4, <2>1, <2>2, CallOf DEF LockInv, TypeInv, LocalAt, KeysUnlock
  <2>5. \A u \in Threads \ {t} : Untouched(u)
    BY <1>4 DEF LockInv, TypeInv, KeysUnlock, Untouched
  <2>6. QED BY <1>4, <2>1, <2>3, <2>4, <2>5, ReaderStep DEF KeysUnlock
<1>5. QED BY <1>1, <1>2, <1>3, <1>4

LEMMA GetLocks ==
  ASSUME LockInv, NEW t \in Threads, GetLock(t) \/ Hit(t)
  PROVE  LockInv'
<1>1. CASE GetLock(t)
  <2>1. /\ pc[t] = "ready" /\ reads[t] = 0 /\ pc'[t] = "reading" /\ reads'[t] = 1
        /\ plan[t] # <<>> /\ Head(plan[t]) = "get"
    <3>1. pc[t] = "ready" /\ reads[t] = 0 /\ plan[t] # <<>> /\ Head(plan[t]) = "get"
      BY <1>1, CallOf DEF LocalAt, GetLock, Calling
    <3>2. QED BY <1>1, <3>1 DEF LockInv, TypeInv, GetLock, ReadLock
  <2>2. op[t] \in Call /\ op[t].name = "Get"
    BY <2>1, CallOf, PlanFacts DEF LocalAt
  <2>3. op[t].key \in Keys
    BY <2>2 DEF Call
  <2>4. TypeInv'
    BY <1>1, <2>1, <2>3 DEF LockInv, TypeInv, GetLock, ReadLock, time
  <2>5. LocalAt(t)'
    BY <1>1, <2>1, <2>2, <2>3 DEF LockInv, TypeInv, LocalAt, GetLock
  <2>6. \A u \in Threads \ {t} : Untouched(u)
    BY <1>1 DEF LockInv, TypeInv, GetLock, ReadLock, Untouched
  <2>7. QED BY <1>1, <2>1, <2>4, <2>5, <2>6, ReaderStep DEF GetLock, ReadLock
<1>2. CASE Hit(t)
  <2>1. pc[t] = "reading" /\ pc'[t] = "settling" /\ reads' = reads /\ at[t] \in Keys
    BY <1>2, CallOf DEF LockInv, TypeInv, LocalAt, Hit
  <2>2. TypeInv'
    BY <1>2, <2>1 DEF LockInv, TypeInv, Hit, time
  <2>3. LocalAt(t)'
    BY <1>2, <2>1, CallOf DEF LocalAt, Hit
  <2>4. \A u \in Threads \ {t} : Untouched(u)
    BY <1>2 DEF LockInv, TypeInv, Hit, Untouched
  <2>5. reads[t] \in 0..2
    BY DEF LockInv, TypeInv
  <2>6. QED BY <1>2, <2>1, <2>2, <2>3, <2>4, <2>5, ReaderStep DEF Hit
<1>3. QED BY <1>1, <1>2

LEMMA GetUnlocks ==
  ASSUME LockInv, NEW t \in Threads, Miss(t) \/ Settle(t)
  PROVE  LockInv'
<1>1. pc[t] \in {"reading", "settling"} /\ GetUnlock(t)
  BY DEF Miss, Settle
<1>2. UNCHANGED <<time, op, todo, writer, last>>
  BY DEF Miss, Settle
<1>3. /\ op[t] \in Call /\ at[t] \in Keys /\ got[t] \in Entry \union {Absent}
      /\ plan[t] # <<>> /\ Head(plan[t]) \in {"get", "keys"}
      /\ reads[t] = IF Head(plan[t]) = "keys" THEN 2 ELSE 1
  BY <1>1, CallOf DEF LocalAt, LockInv, TypeInv
<1>4. server' \in [Keys -> Entry \union {Absent}]
  <2>1. CASE Miss(t)
    BY <2>1 DEF Miss, LockInv, TypeInv
  <2>2. CASE Settle(t)
    <3>1. Saved(got[t]) \in Entry \union {Absent}
      BY <1>3 DEF Saved
    <3>2. QED BY <2>2, <1>3, <3>1 DEF Settle, LockInv, TypeInv
  <2>3. QED BY <2>1, <2>2
<1>5. Tail(plan[t]) \in Plans /\ Tail(plan[t]) # <<"get">>
  BY <1>3, CallOf, PlanFacts
<1>6. \/ /\ Head(plan[t]) = "keys" /\ pc' = [pc EXCEPT ![t] = "visiting"] /\ plan' = plan
         /\ reads[t] = 2
      \/ /\ Head(plan[t]) # "keys" /\ pc' = [pc EXCEPT ![t] = "ready"]
         /\ plan' = [plan EXCEPT ![t] = Tail(@)] /\ reads[t] = 1
  BY <1>1, <1>3 DEF GetUnlock
<1>7. /\ reads' = [reads EXCEPT ![t] = @ - 1] /\ reads'[t] \in 0..2 /\ reads'[t] <= reads[t]
      /\ at' = [at EXCEPT ![t] = Absent] /\ got' = [got EXCEPT ![t] = Absent]
  BY <1>1, <1>6 DEF GetUnlock, LockInv, TypeInv
<1>8. TypeInv'
  BY <1>2, <1>4, <1>5, <1>6, <1>7, ZenonT(30) DEF LockInv, TypeInv, time
<1>9. LocalAt(t)'
  <2>1. op'[t] \in Call
    BY <1>2, <1>3
  <2>2. CASE Head(plan[t]) = "keys"
    <3>1. pc'[t] = "visiting" /\ plan'[t] = plan[t] /\ reads'[t] = 1
      BY <1>6, <1>7, <2>2 DEF LockInv, TypeInv
    <3>2. plan'[t] # <<"get">>
      BY <3>1, <2>2
    <3>3. QED BY <1>3, <2>1, <2>2, <3>1, <3>2 DEF LocalAt
  <2>3. CASE Head(plan[t]) # "keys"
    <3>1. pc'[t] = "ready" /\ plan'[t] = Tail(plan[t]) /\ reads'[t] = 0
      BY <1>6, <1>7, <2>3 DEF LockInv, TypeInv
    <3>2. QED BY <1>5, <2>1, <3>1 DEF LocalAt
  <2>4. QED BY <2>2, <2>3
<1>10. \A u \in Threads \ {t} : Untouched(u)
  BY <1>2, <1>6, <1>7 DEF LockInv, TypeInv, Untouched
<1>11. pc'[t] \notin {"draining", "writing", "deleting"}
  BY <1>6 DEF LockInv, TypeInv
<1>12. QED BY <1>2, <1>7, <1>8, <1>9, <1>10, <1>11, ReaderStep

LEMMA LockNext == LockInv /\ [Next]_vars => LockInv'
<1> SUFFICES ASSUME LockInv, [Next]_vars PROVE LockInv'
  OBVIOUS
<1>1. ASSUME NEW t \in Threads, NEW call \in Requests, Begin(t, call)
      PROVE  LockInv'
  BY <1>1, BeginLocks
<1>2. ASSUME NEW t \in Threads, Step(t)
      PROVE  LockInv'
  BY <1>2, WriterLocks, WrittenLocks, KeysLocks, GetLocks, GetUnlocks, FinishLocks DEF Step
<1>3. ASSUME NEW k \in Keys, Drop(k)
      PROVE  LockInv'
  <2>1. TypeInv'
    BY <1>3 DEF LockInv, TypeInv, Drop, time
  <2>2. \A t \in Threads : LocalAt(t)' /\ LockAt(t)'
    BY <1>3 DEF LockInv, Drop, LocalAt, LockAt
  <2>3. QED BY <2>1, <2>2 DEF LockInv
<1>4. CASE Tick
  <2>1. TypeInv'
    BY <1>4, Numbers DEF LockInv, TypeInv, Tick
  <2>2. \A t \in Threads : LocalAt(t)' /\ LockAt(t)'
    BY <1>4 DEF LockInv, Tick, LocalAt, LockAt
  <2>3. QED BY <2>1, <2>2 DEF LockInv
<1>5. CASE UNCHANGED vars
  BY <1>5 DEF vars, LockInv, TypeInv, LocalAt, LockAt
<1>6. QED BY <1>1, <1>2, <1>3, <1>4, <1>5 DEF Next

LEMMA LockCorrect == Spec => []LockInv
BY LockInit, LockNext, PTL DEF Spec

\* Every variable keeps its type: in particular a thread holds s.mu for reading
\* at most twice, a Keys and the Get inside it.
THEOREM TypeCorrect == Spec => []TypeOK
<1>1. ASSUME LockInv
      PROVE  TypeOK
  <2>1. \A t \in Threads : op[t] # Idle => op[t].name \in Ops
                                          /\ op[t].entry \in Entry \union {Absent}
    BY <1>1 DEF LockInv, TypeInv, Call
  <2>2. \A t \in Threads : \A i \in DOMAIN plan[t] : plan[t][i] \in {"get", "keys", "write"}
    <3>1. \A p \in Plans : \A i \in DOMAIN p : p[i] \in {"get", "keys", "write"}
      <4> SUFFICES ASSUME NEW p \in Plans, NEW i \in DOMAIN p
                   PROVE  p[i] \in {"get", "keys", "write"}
        OBVIOUS
      <4>1. CASE p = <<>>
        BY <4>1
      <4>2. CASE p \in {<<"get">>, <<"write">>, <<"keys">>}
        BY <4>2
      <4>3. CASE p = <<"write", "keys">>
        BY <4>3
      <4>4. CASE p = <<"keys", "write", "keys">>
        BY <4>4
      <4>5. QED BY <4>1, <4>2, <4>3, <4>4 DEF Plans
    <3>2. QED BY <1>1, <3>1 DEF LockInv, TypeInv
  <2>3. TypeInv
    BY <1>1 DEF LockInv
  <2>4. QED BY <2>1, <2>2, <2>3, Zenon DEF TypeInv, TypeOK
<1>2. LockInv => TypeOK
  BY <1>1
<1>3. QED BY <1>2, LockCorrect, PTL

\* Of the threads of a process, one that writes keeps out the others that write
\* and all that read: s.mu, taken in two steps, is a lock.
WriterAlone ==
  \A t \in Threads : pc[t] \in {"writing", "deleting"} =>
    \A u \in Peers(t) \ {t} :
      pc[u] \notin {"writing", "deleting", "listing", "visiting", "reading", "settling"}

LEMMA WritingAlone == LockInv => WriterAlone
<1> SUFFICES ASSUME LockInv, NEW t \in Threads, pc[t] \in {"writing", "deleting"},
                    NEW u \in Peers(t) \ {t}
             PROVE  pc[u] \notin {"writing", "deleting", "listing", "visiting",
                                  "reading", "settling"}
  BY DEF WriterAlone
<1>1. u \in Threads /\ Home(u) = Home(t)
  BY HomeFacts
<1>2. writer[Home(t)] = t /\ reads[u] = 0
  BY CallOf DEF LockAt
<1>3. pc[u] \notin {"writing", "deleting"}
  BY <1>1, <1>2, CallOf DEF LockAt
<1>4. pc[u] \notin {"listing", "visiting", "reading", "settling"}
  BY <1>1, <1>2, CallOf DEF LocalAt
<1>5. QED BY <1>3, <1>4

\* A writer of the store excludes the readers and the other writers of its
\* process, whatever the mix of calls and however they fail.
THEOREM WriterExcludes == Spec => []WriterAlone
BY LockCorrect, WritingAlone, PTL

-----------------------------------------------------------------------------
(* What was last written, for the caches of one process.                   *)

LEMMA LastInit == Init => SettlingInv /\ LastWriteStands
BY DEF Init, SettlingInv, LastWriteStands, Present

\* While a thread writes, none of the process is between its GET and its SETEX.
LEMMA NoneSettling ==
  ASSUME LockInv, \A P, Q \in Processes : P = Q,
         NEW t \in Threads, pc[t] \in {"writing", "deleting"}, NEW u \in Threads
  PROVE  pc[u] # "settling"
<1>1. Home(u) = Home(t) /\ t \in Home(t) /\ u \in Home(u) /\ Home(t) \in Processes
  BY HomeFacts
<1>2. u \in Peers(t)
  BY <1>1 DEF Peers
<1>3. QED BY <1>2, WritingAlone DEF WriterAlone

LEMMA LastWritten ==
  ASSUME IInv, \A P, Q \in Processes : P = Q, NEW t \in Threads,
         StoreSet(t) \/ StoreDelete(t) \/ ClearDelete(t)
  PROVE  SettlingInv' /\ LastWriteStands'
<1>1. pc[t] \in {"writing", "deleting"} /\ pc' = [pc EXCEPT ![t] = "ready"]
  BY DEF StoreSet, StoreDelete, ClearDelete, Unlock
<1>2. SettlingInv'
  <2>1. \A u \in Threads : pc'[u] # "settling"
    BY <1>1, NoneSettling DEF IInv, LockInv, TypeInv
  <2>2. QED BY <2>1 DEF SettlingInv
<1>3. LastWriteStands'
  <2>1. CASE StoreSet(t)
    BY <2>1 DEF StoreSet, Saved, IInv, LockInv, TypeInv, LastWriteStands, Present
  <2>2. CASE StoreDelete(t)
    BY <2>2 DEF StoreDelete, IInv, LockInv, TypeInv, LastWriteStands, Present
  <2>3. CASE ClearDelete(t)
    BY <2>3 DEF ClearDelete, IInv, LockInv, TypeInv, LastWriteStands, Present
  <2>4. QED BY <2>1, <2>2, <2>3
<1>4. QED BY <1>2, <1>3

\* The other steps leave the history alone: a Hit reads what was last written,
\* and a Settle writes it back.
LEMMA LastKept ==
  ASSUME IInv, NEW t \in Threads, Hit(t) \/ Settle(t)
  PROVE  SettlingInv' /\ LastWriteStands'
<1>1. CASE Hit(t)
  <2>1. server[at[t]] \in Entry /\ server[at[t]].val = last[at[t]]
    BY <1>1, CallOf DEF Hit, LocalAt, IInv, LockInv, TypeInv, LastWriteStands, Present
  <2>2. SettlingInv'
    BY <1>1, <2>1 DEF Hit, SettlingInv, IInv, LockInv, TypeInv
  <2>3. LastWriteStands'
    BY <1>1 DEF Hit, LastWriteStands, Present, IInv
  <2>4. QED BY <2>2, <2>3
<1>2. CASE Settle(t)
  <2>1. got[t] \in Entry /\ got[t].val = last[at[t]] /\ at[t] \in Keys
    BY <1>2, CallOf DEF Settle, SettlingInv, LocalAt, IInv
  <2>2. /\ pc'[t] # "settling" /\ last' = last
        /\ \A u \in Threads \ {t} : pc'[u] = pc[u] /\ at'[u] = at[u] /\ got'[u] = got[u]
    BY <1>2 DEF Settle, GetUnlock, IInv, LockInv, TypeInv
  <2>3. SettlingInv'
    BY <2>2 DEF SettlingInv, IInv
  <2>4. LastWriteStands'
    BY <1>2, <2>1, <2>2 DEF Settle, Saved, LastWriteStands, Present, IInv, LockInv, TypeInv
  <2>5. QED BY <2>3, <2>4
<1>3. QED BY <1>1, <1>2

\* Steps that neither enter nor leave a settling, and write nothing but what the
\* server drops.
LEMMA LastUntouched ==
  ASSUME IInv, UNCHANGED last,
         \A u \in Threads : pc'[u] = "settling" =>
           pc[u] = "settling" /\ at'[u] = at[u] /\ got'[u] = got[u],
         \A k \in Keys : server'[k] \in {server[k], Absent}
  PROVE  SettlingInv' /\ LastWriteStands'
BY DEF SettlingInv, LastWriteStands, Present, IInv

LEMMA LastNext ==
  ASSUME \A P, Q \in Processes : P = Q
  PROVE  IInv /\ [Next]_vars => IInv'
<1> SUFFICES ASSUME IInv, [Next]_vars
             PROVE  SettlingInv' /\ LastWriteStands'
  BY LockNext DEF IInv
<1>1. ASSUME NEW t \in Threads, NEW call \in Requests, Begin(t, call)
      PROVE  SettlingInv' /\ LastWriteStands'
  BY <1>1, LastUntouched DEF Begin, IInv, LockInv, TypeInv
<1>2. ASSUME NEW t \in Threads, Step(t)
      PROVE  SettlingInv' /\ LastWriteStands'
  <2>1. CASE StoreSet(t) \/ StoreDelete(t) \/ ClearDelete(t)
    BY <2>1, LastWritten
  <2>2. CASE Hit(t) \/ Settle(t)
    BY <2>2, LastKept
  <2>3. CASE WriteLock(t) \/ Drain(t) \/ ClearList(t) \/ WriteFail(t) \/ Finish(t)
    BY <2>3, LastUntouched
       DEF WriteLock, Drain, ClearList, WriteFail, Finish, Unlock, IInv, LockInv, TypeInv
  <2>4. CASE KeysLock(t) \/ List(t) \/ KeysUnlock(t)
    BY <2>4, LastUntouched DEF KeysLock, List, KeysUnlock, IInv, LockInv, TypeInv
  <2>5. CASE Visit(t) \/ GetLock(t)
    <3>1. /\ pc' = [pc EXCEPT ![t] = "reading"] /\ UNCHANGED <<server, got, last>>
          /\ \A u \in Threads \ {t} : at'[u] = at[u]
      BY <2>5 DEF Visit, GetLock, IInv, LockInv, TypeInv
    <3>2. QED BY <3>1, LastUntouched DEF IInv, LockInv, TypeInv
  <2>6. CASE Miss(t)
    BY <2>6, LastUntouched DEF Miss, GetUnlock, IInv, LockInv, TypeInv
  <2>7. QED BY <1>2, <2>1, <2>2, <2>3, <2>4, <2>5, <2>6 DEF Step
<1>3. ASSUME NEW k \in Keys, Drop(k)
      PROVE  SettlingInv' /\ LastWriteStands'
  BY <1>3, LastUntouched DEF Drop, IInv, LockInv, TypeInv
<1>4. CASE Tick
  BY <1>4, LastUntouched DEF Tick
<1>5. CASE UNCHANGED vars
  BY <1>5, LastUntouched DEF vars
<1>6. QED BY <1>1, <1>2, <1>3, <1>4, <1>5 DEF Next

\* Where one process has the server to itself, the server holds, under a key,
\* nothing or what was last written under it: no Get, Len or Stats brings back
\* what a Set replaced or a Delete, Clear or Close took out.
THEOREM LastWriteHolds ==
  ASSUME \A P, Q \in Processes : P = Q
  PROVE  Spec => []LastWriteStands
<1>1. Init => IInv
  BY LockInit, LastInit DEF IInv
<1>2. IInv /\ [Next]_vars => IInv'
  BY LastNext
<1>3. IInv => LastWriteStands
  BY DEF IInv
<1>4. QED BY <1>1, <1>2, <1>3, PTL DEF Spec
=============================================================================
