----------------------------- MODULE RedisStore -----------------------------
(***************************************************************************)
(* Caches over redis.Store: processes that share the entries of one Redis  *)
(* server.  In each process a thread calls a method of Cache, which holds  *)
(* c.mu from Begin to Finish (Stats does not) and makes a sequence of      *)
(* calls on the store, each under the store's s.mu.  Each command to the   *)
(* server is one action.  s.mu is a Go RWMutex: once a writer waits,       *)
(* nobody takes a read lock any more, not even a thread that has one.      *)
(***************************************************************************)
EXTENDS Naturals, Sequences, FiniteSets

CONSTANTS
  Processes,  \* each the set of its threads
  Keys,
  TTLs,       \* TTLs of entries, defaults applied; one beyond MaxTime is "none"
  MaxTime,    \* bound on the clock
  MaxOps,     \* bound on the calls
  Ops,        \* which methods are called
  MayFail,    \* whether commands may fail
  Absent, Idle, Nobody

ASSUME ProcessesDisjoint == \A P, Q \in Processes : P # Q => P \intersect Q = {}
ASSUME OpsKnown == Ops \subseteq {"Get", "Set", "Delete", "Clear", "Close", "Len", "Stats"}
ASSUME Numbers == MaxTime \in Nat /\ MaxOps \in Nat /\ TTLs \subseteq Nat \ {0}
ASSUME MayFailBoolean == MayFail \in BOOLEAN

Threads == UNION Processes
Peers(t) == UNION {P \in Processes : t \in P}
Home(t) == CHOOSE P \in Processes : t \in P

VARIABLES
  clock, ops,
  server,   \* the entry under a key
  pc,       \* where a thread is
  op,       \* the call it makes
  plan,     \* the calls on the store it has yet to make
  todo,     \* keys that a Keys or a Clear was told of and has not dealt with
  at,       \* the key a thread reads
  got,      \* the entry it read
  reads,    \* how many times it holds s.mu for reading
  writer,   \* of each process, the thread that waits for or has s.mu for writing
  last      \* history: what was last written under a key

vars == <<clock, ops, server, pc, op, plan, todo, at, got, reads, writer, last>>
time == <<clock, ops>>

\* a value is known by the number of the call that set it; 0 is a deletion
Entry == [val : 1..MaxOps, exp : {c + ttl : c \in 0..MaxTime, ttl \in TTLs}]

ASSUME MarkersDistinct == Absent \notin Entry /\ Nobody \notin Threads

TypeOK ==
  /\ clock \in 0..MaxTime /\ ops \in 0..MaxOps
  /\ server \in [Keys -> Entry \union {Absent}]
  /\ pc \in [Threads -> {"idle", "ready", "draining", "writing", "deleting", "listing",
                         "visiting", "reading", "settling"}]
  /\ \A t \in Threads : op[t] # Idle => op[t].name \in Ops /\ op[t].entry \in Entry \union {Absent}
  /\ \A t \in Threads : \A i \in DOMAIN plan[t] : plan[t][i] \in {"get", "keys", "write"}
  /\ todo \in [Threads -> SUBSET Keys]
  /\ at \in [Threads -> Keys \union {Absent}]
  /\ got \in [Threads -> Entry \union {Absent}]
  /\ reads \in [Threads -> 0..2]
  /\ writer \in [Processes -> Threads \union {Nobody}]
  /\ last \in [Keys -> 0..MaxOps]

Init ==
  /\ clock = 0 /\ ops = 0
  /\ server = [k \in Keys |-> Absent]
  /\ pc = [t \in Threads |-> "idle"]
  /\ op = [t \in Threads |-> Idle]
  /\ plan = [t \in Threads |-> <<>>]
  /\ todo = [t \in Threads |-> {}]
  /\ at = [t \in Threads |-> Absent]
  /\ got = [t \in Threads |-> Absent]
  /\ reads = [t \in Threads |-> 0]
  /\ writer = [P \in Processes |-> Nobody]
  /\ last = [k \in Keys |-> 0]

-----------------------------------------------------------------------------
(* The methods of Cache.                                                   *)

\* what each calls on the store; a writer counts the keys in the end, but Close
Calls(name) ==
  CASE name = "Get" -> <<"get">>
    [] name \in {"Set", "Delete"} -> <<"write", "keys">>
    [] name = "Clear" -> <<"keys", "write", "keys">>
    [] name = "Close" -> <<"write">>
    [] name \in {"Len", "Stats"} -> <<"keys">>

\* what may be called, with a key and a TTL where the method has them
Requests ==
  {r \in [name : Ops, key : Keys \union {Absent}, ttl : TTLs \union {Absent}] :
     /\ r.key # Absent <=> r.name \in {"Get", "Set", "Delete"}
     /\ r.ttl # Absent <=> r.name = "Set"}

Writes(name) == name \in {"Set", "Delete", "Clear", "Close"}

\* c.mu: a writer excludes everybody but Stats, which does not take it
Admitted(t, name) ==
  name # "Stats" =>
    \A u \in Peers(t) : op[u] # Idle /\ op[u].name # "Stats" =>
                          ~Writes(name) /\ ~Writes(op[u].name)

\* a Set computes the expiry of its entry before it takes the lock
Begin(t, call) ==
  /\ pc[t] = "idle" /\ ops < MaxOps
  /\ Admitted(t, call.name)
  /\ ops' = ops + 1
  /\ op' = [op EXCEPT ![t] =
       [name |-> call.name, key |-> call.key,
        entry |-> IF call.name = "Set" THEN [val |-> ops + 1, exp |-> clock + call.ttl]
                  ELSE Absent]]
  /\ plan' = [plan EXCEPT ![t] = Calls(call.name)]
  /\ pc' = [pc EXCEPT ![t] = "ready"]
  /\ UNCHANGED <<clock, server, todo, at, got, reads, writer, last>>

Finish(t) ==
  /\ pc[t] = "ready" /\ plan[t] = <<>>
  /\ pc' = [pc EXCEPT ![t] = "idle"]
  /\ op' = [op EXCEPT ![t] = Idle]
  /\ UNCHANGED <<time, server, plan, todo, at, got, reads, writer, last>>

Calling(t, call) == pc[t] = "ready" /\ plan[t] # <<>> /\ Head(plan[t]) = call

-----------------------------------------------------------------------------
(* Set, Delete and Clear of the store.                                     *)

\* s.mu.Lock() first keeps new readers out
WriteLock(t) ==
  /\ Calling(t, "write") /\ writer[Home(t)] = Nobody
  /\ writer' = [writer EXCEPT ![Home(t)] = t]
  /\ pc' = [pc EXCEPT ![t] = "draining"]
  /\ UNCHANGED <<time, server, op, plan, todo, at, got, reads, last>>

\* does not wait for the readers there are
Bug_Drain(t) ==
  /\ pc[t] = "draining"
  /\ pc' = [pc EXCEPT ![t] = "writing"]
  /\ UNCHANGED <<time, server, op, plan, todo, at, got, reads, writer, last>>

\* and then waits for those there are
Drain(t) ==
  /\ pc[t] = "draining"
  /\ \A u \in Peers(t) : reads[u] = 0
  /\ pc' = [pc EXCEPT ![t] = "writing"]
  /\ UNCHANGED <<time, server, op, plan, todo, at, got, reads, writer, last>>

Unlock(t) ==
  /\ writer' = [writer EXCEPT ![Home(t)] = Nobody]
  /\ pc' = [pc EXCEPT ![t] = "ready"]

\* a failed write returns its error; the keys are not counted
WriteFail(t) ==
  /\ MayFail /\ pc[t] \in {"writing", "deleting"}
  /\ Unlock(t)
  /\ plan' = [plan EXCEPT ![t] = <<>>]
  /\ todo' = [todo EXCEPT ![t] = {}]
  /\ UNCHANGED <<time, server, op, at, got, reads, last>>

\* saveEntryToRedis: SETEX with what remains of the TTL, or DEL when nothing does
Saved(e) == IF e.exp > clock THEN e ELSE Absent

StoreSet(t) ==
  /\ pc[t] = "writing" /\ op[t].name = "Set"
  /\ server' = [server EXCEPT ![op[t].key] = Saved(op[t].entry)]
  /\ last' = [last EXCEPT ![op[t].key] = op[t].entry.val]
  /\ Unlock(t)
  /\ plan' = [plan EXCEPT ![t] = Tail(@)]
  /\ UNCHANGED <<time, op, todo, at, got, reads>>

StoreDelete(t) ==
  /\ pc[t] = "writing" /\ op[t].name = "Delete"
  /\ server' = [server EXCEPT ![op[t].key] = Absent]
  /\ last' = [last EXCEPT ![op[t].key] = 0]
  /\ Unlock(t)
  /\ plan' = [plan EXCEPT ![t] = Tail(@)]
  /\ UNCHANGED <<time, op, todo, at, got, reads>>

Present == {k \in Keys : server[k] # Absent}

\* Clear is two commands: KEYS, and DEL of those keys; Close is a Clear
ClearList(t) ==
  /\ pc[t] = "writing" /\ op[t].name \in {"Clear", "Close"}
  /\ todo' = [todo EXCEPT ![t] = Present]
  /\ pc' = [pc EXCEPT ![t] = "deleting"]
  /\ UNCHANGED <<time, server, op, plan, at, got, reads, writer, last>>

ClearDelete(t) ==
  /\ pc[t] = "deleting"
  /\ server' = [k \in Keys |-> IF k \in todo[t] THEN Absent ELSE server[k]]
  /\ last' = [k \in Keys |-> IF k \in todo[t] THEN 0 ELSE last[k]]
  /\ todo' = [todo EXCEPT ![t] = {}]
  /\ Unlock(t)
  /\ plan' = [plan EXCEPT ![t] = Tail(@)]
  /\ UNCHANGED <<time, op, at, got, reads>>

-----------------------------------------------------------------------------
(* Keys and Get of the store.                                              *)

ReadLock(t) ==
  /\ writer[Home(t)] = Nobody
  /\ reads' = [reads EXCEPT ![t] = @ + 1]

KeysLock(t) ==
  /\ Calling(t, "keys") /\ ReadLock(t)
  /\ pc' = [pc EXCEPT ![t] = "listing"]
  /\ UNCHANGED <<time, server, op, plan, todo, at, got, writer, last>>

\* KEYS; when it fails there are no keys
List(t) ==
  /\ pc[t] = "listing"
  /\ \E answer \in {Present} \union (IF MayFail THEN {{}} ELSE {}) :
       todo' = [todo EXCEPT ![t] = answer]
  /\ pc' = [pc EXCEPT ![t] = "visiting"]
  /\ UNCHANGED <<time, server, op, plan, at, got, reads, writer, last>>

\* Keys calls Get for each key, and Get takes s.mu a second time
Visit(t) ==
  /\ pc[t] = "visiting" /\ ReadLock(t)
  /\ \E k \in todo[t] : /\ at' = [at EXCEPT ![t] = k]
                        /\ todo' = [todo EXCEPT ![t] = @ \ {k}]
  /\ pc' = [pc EXCEPT ![t] = "reading"]
  /\ UNCHANGED <<time, server, op, plan, got, writer, last>>

KeysUnlock(t) ==
  /\ pc[t] = "visiting" /\ todo[t] = {}
  /\ reads' = [reads EXCEPT ![t] = @ - 1]
  /\ plan' = [plan EXCEPT ![t] = Tail(@)]
  /\ pc' = [pc EXCEPT ![t] = "ready"]
  /\ UNCHANGED <<time, server, op, todo, at, got, writer, last>>

GetLock(t) ==
  /\ Calling(t, "get") /\ ReadLock(t)
  /\ at' = [at EXCEPT ![t] = op[t].key]
  /\ pc' = [pc EXCEPT ![t] = "reading"]
  /\ UNCHANGED <<time, server, op, plan, todo, got, writer, last>>

\* returns without its deferred unlock
Bug_GetUnlock(t) ==
  /\ at' = [at EXCEPT ![t] = Absent]
  /\ got' = [got EXCEPT ![t] = Absent]
  /\ UNCHANGED reads
  /\ IF Head(plan[t]) = "keys"
       THEN pc' = [pc EXCEPT ![t] = "visiting"] /\ UNCHANGED plan
       ELSE pc' = [pc EXCEPT ![t] = "ready"] /\ plan' = [plan EXCEPT ![t] = Tail(@)]

\* Get returns to Keys, or to Cache
GetUnlock(t) ==
  /\ at' = [at EXCEPT ![t] = Absent]
  /\ got' = [got EXCEPT ![t] = Absent]
  /\ reads' = [reads EXCEPT ![t] = @ - 1]
  /\ IF Head(plan[t]) = "keys"
       THEN pc' = [pc EXCEPT ![t] = "visiting"] /\ UNCHANGED plan
       ELSE pc' = [pc EXCEPT ![t] = "ready"] /\ plan' = [plan EXCEPT ![t] = Tail(@)]

\* GET finds nothing, or fails, which counts as nothing
Miss(t) ==
  /\ pc[t] = "reading"
  /\ MayFail \/ server[at[t]] = Absent
  /\ GetUnlock(t)
  /\ UNCHANGED <<time, server, op, todo, writer, last>>

Hit(t) ==
  /\ pc[t] = "reading" /\ server[at[t]] # Absent
  /\ got' = [got EXCEPT ![t] = server[at[t]]]
  /\ pc' = [pc EXCEPT ![t] = "settling"]
  /\ UNCHANGED <<time, server, op, plan, todo, at, reads, writer, last>>

\* An entry that has expired is deleted, any other touched and written back;
\* the error of either command is ignored
Settle(t) ==
  /\ pc[t] = "settling"
  /\ \/ server' = [server EXCEPT ![at[t]] = Saved(got[t])]
     \/ MayFail /\ UNCHANGED server
  /\ GetUnlock(t)
  /\ UNCHANGED <<time, op, todo, writer, last>>

-----------------------------------------------------------------------------
\* The server drops a key when its TTL, in whole seconds, is over: up to a tick
\* before its entry expires, or after
Drop(k) ==
  /\ server[k] # Absent /\ clock + 1 >= server[k].exp
  /\ server' = [server EXCEPT ![k] = Absent]
  /\ UNCHANGED <<time, pc, op, plan, todo, at, got, reads, writer, last>>

Tick ==
  /\ clock < MaxTime
  /\ clock' = clock + 1
  /\ UNCHANGED <<ops, server, pc, op, plan, todo, at, got, reads, writer, last>>

Step(t) ==
  \/ WriteLock(t) \/ Drain(t) \/ WriteFail(t) \/ StoreSet(t) \/ StoreDelete(t)
  \/ ClearList(t) \/ ClearDelete(t)
  \/ KeysLock(t) \/ List(t) \/ Visit(t) \/ KeysUnlock(t)
  \/ GetLock(t) \/ Miss(t) \/ Hit(t) \/ Settle(t)
  \/ Finish(t)

Next ==
  \/ \E t \in Threads, call \in Requests : Begin(t, call)
  \/ \E t \in Threads : Step(t)
  \/ \E k \in Keys : Drop(k)
  \/ Tick

Spec == Init /\ [][Next]_vars

\* Threads are scheduled and commands return, with an answer or an error
FairSpec == Spec /\ \A t \in Threads : WF_vars(Step(t))

-----------------------------------------------------------------------------
\* Get's comment "Update last access time and save back to Redis": the entry it
\* saves is the one there was.  So the server holds, under a key, nothing or
\* what was last written under it, and no Get, Len or Stats brings back what a
\* Set replaced or a Delete, Clear or Close took out.
LastWriteStands == \A k \in Present : server[k].val = last[k]

\* a count of the keys whose lock a writer has asked for
Overtaken(P) ==
  \E t, u \in P : pc[t] = "visiting" /\ todo[t] # {} /\ pc[u] = "draining"

\* Every call returns, over any mix of readers, writers and failed commands,
\* unless a Stats is caught counting the keys by a writer.
ReturnsUnlessOvertaken ==
  \A t \in Threads : pc[t] # "idle" ~> pc[t] = "idle" \/ Overtaken(Home(t))

\* The README's "Thread safe - Concurrent access support": every call returns.
EveryCallReturns == \A t \in Threads : pc[t] # "idle" ~> pc[t] = "idle"
=============================================================================
