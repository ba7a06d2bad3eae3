--------------------------- MODULE TwoLevelCache ---------------------------
(***************************************************************************)
(* The two-level cache in front of roles, connections and profiles: one key  *)
(* of one TwoLevelCache, its memory entry (L1), its Redis entry (L2), the    *)
(* ordered queue of Redis mutations and the per-key lock of get_or_fetch.    *)
(*                                                                         *)
(* The value behind the key is the number of writes the database has seen,   *)
(* so an entry is stale when it is smaller than db.  Readers use             *)
(* get_or_fetch or the batch reader; writers write the database and then     *)
(* put, invalidate or clear_all.  Handlers are used again and again.         *)
(***************************************************************************)
EXTENDS Naturals, FiniteSets, Sequences

CONSTANTS
    Handlers,   \* coroutines that read and write
    Locks,      \* identities of asyncio.Lock objects, numbers from 1
    MaxPending, \* _REDIS_MAX_PENDING: droppable operations stop here
    MaxWrites,  \* bound: writes to the database
    MaxFaults   \* bound: failures, lost or late Redis calls, restarts

\* A lock is referenced by the dictionary or by a waiting handler, so one more
\* than the handlers is enough.
ASSUME LockAssumption == IsFiniteSet(Handlers) /\ Locks = 1..(Cardinality(Handlers) + 1)
ASSUME BoundAssumption == MaxPending \in Nat \ {0} /\ MaxWrites \in Nat /\ MaxFaults \in Nat

VARIABLES
    db,         \* the value in the database
    mem,        \* the memory entry, or Miss
    red,        \* the Redis entry, or Miss
    queue,      \* Redis mutations chained to one another, oldest first
    stray,      \* abandoned Redis writes that may still arrive
    lock,       \* _locks[key]: the current lock, 0 for none
    mine,       \* per handler: the lock it holds or waits for, 0 for none
    pc,         \* per handler: control point
    kind,       \* per handler: the operation
    val,        \* per handler: the value read, or written
    faults,     \* faults still to happen
    last,       \* history: what the last accepted mutation or sweep asked Redis to hold, until lost
    lost,       \* history: an accepted mutation failed, is astray or died with the process
    dropped,    \* history: the bound dropped a mutation, and nothing is lost yet
    raced,      \* history: an entry was filled across an invalidation
    reopened,   \* history: an entry vanished or a fetch failed while others waited
    revoked     \* history: the newest write was followed by a clear_all that ran in full

stores == <<db, mem, red, queue, stray, lock>>
locals == <<mine, pc, kind, val>>
history == <<last, lost, dropped, raced, reopened, revoked>>
vars == <<stores, locals, faults, history>>

Miss == MaxWrites + 1     \* CACHE_MISS
Values == 0..MaxWrites
Slots == Values \cup {Miss}
Points == {"idle", "wait", "redis", "hit", "fetch", "store", "batch", "batch_put", "op", "sweeping"}
AllKinds == {"read", "put", "invalidate", "clear"}
Ops == [op : {"set", "del"}, v : Slots] \cup [op : {"sweep"}, v : {Miss}, of : Values]

Busy == {h \in Handlers : pc[h] # "idle"}
Inside == {"redis", "hit", "fetch", "store"}
Stale(s) == s # Miss /\ s < db

Fault == faults > 0 /\ faults' = faults - 1
Works == faults' = faults

(***************************************************************************)
(* The mutation queue                                                       *)
(***************************************************************************)
SetOp(v) == [op |-> "set", v |-> v]
DeleteOp == [op |-> "del", v |-> Miss]
SweepOp(n) == [op |-> "sweep", v |-> Miss, of |-> n]   \* the sweep after write n

\* Mutation: past the bound a sweep is dropped like any other operation.
_enqueue_redis_mutation_DropsSweeps(o) ==
    LET room == Len(queue) < MaxPending IN
    /\ queue' = IF room THEN Append(queue, o) ELSE queue
    /\ last' = IF ~lost /\ (room \/ o.op = "sweep") THEN o.v ELSE last
    /\ dropped' = (~lost /\ (dropped \/ ~room)) /\ lost' = lost

\* Past the bound the newest operation is dropped, except a sweep.
_enqueue_redis_mutation(o) ==
    LET room == o.op = "sweep" \/ Len(queue) < MaxPending IN
    /\ queue' = IF room THEN Append(queue, o) ELSE queue
    /\ last' = IF ~lost /\ (room \/ o.op = "sweep") THEN o.v ELSE last
    /\ dropped' = (~lost /\ (dropped \/ ~room)) /\ lost' = lost

_redis_put_background(v) == _enqueue_redis_mutation(SetOp(v))
_redis_del_background == _enqueue_redis_mutation(DeleteOp)

\* An operation is over; the clear_all that waits for it returns.
Swept(o, ok) ==
    LET waiting == {h \in Handlers : pc[h] = "sweeping" /\ o.op = "sweep" /\ o.of = val[h]} IN
    /\ pc' = [h \in Handlers |-> IF h \in waiting THEN "idle" ELSE pc[h]]
    /\ val' = [h \in Handlers |-> IF h \in waiting THEN Miss ELSE val[h]]
    /\ kind' = [h \in Handlers |-> IF h \in waiting THEN "read" ELSE kind[h]]
    /\ revoked' = (revoked \/ (waiting # {} /\ ok /\ o.of = db))

\* An accepted mutation does not happen; what was asked for before is moot.
Lose == lost' = TRUE /\ last' = Miss /\ dropped' = FALSE

\* _run: the oldest operation runs, every other one waits for it.  It reaches
\* Redis, fails, or is abandoned at its time limit and may arrive later.
RunMutation ==
    /\ queue # << >> /\ queue' = Tail(queue)
    /\ LET o == Head(queue) IN
       \/ Works /\ red' = o.v /\ Swept(o, TRUE) /\ UNCHANGED <<stray, last, lost, dropped>>
       \/ Fault /\ red' = red /\ Lose /\ stray' = stray /\ Swept(o, FALSE)
       \/ Fault /\ o.op # "sweep" /\ red' = red /\ Lose /\ stray' = stray \cup {o} /\ Swept(o, FALSE)
    /\ UNCHANGED <<db, mem, lock, mine, raced, reopened>>

\* An abandoned write reaches Redis after all.
Arrive(o) ==
    /\ o \in stray /\ stray' = stray \ {o} /\ red' = o.v
    /\ UNCHANGED <<db, mem, queue, lock, locals, faults, history>>

(***************************************************************************)
(* get_or_fetch                                                             *)
(***************************************************************************)
Init ==
    /\ db = 0 /\ mem \in {Miss, 0} /\ red \in {Miss, 0}
    /\ queue = << >> /\ stray = {} /\ lock = 0
    /\ mine = [h \in Handlers |-> 0] /\ pc = [h \in Handlers |-> "idle"]
    /\ kind = [h \in Handlers |-> "read"] /\ val = [h \in Handlers |-> Miss]
    /\ faults = MaxFaults
    /\ last = red /\ lost = FALSE /\ dropped = FALSE /\ raced = FALSE /\ reopened = FALSE /\ revoked = FALSE

\* The call ends and drops whatever lock the dictionary holds by then.
Return(h) ==
    /\ pc' = [pc EXCEPT ![h] = "idle"] /\ mine' = [mine EXCEPT ![h] = 0]
    /\ lock' = 0 /\ val' = [val EXCEPT ![h] = Miss] /\ kind' = kind

Goto(h, l) == pc' = [pc EXCEPT ![h] = l] /\ UNCHANGED <<mine, lock, kind>>

\* A call that used no lock ends.
End(h) ==
    /\ pc' = [pc EXCEPT ![h] = "idle"] /\ val' = [val EXCEPT ![h] = Miss]
    /\ kind' = [kind EXCEPT ![h] = "read"]

NewLock == CHOOSE l \in Locks : l # lock /\ \A g \in Handlers : mine[g] # l

\* Mutation: every miss waits on a lock of its own.
get_or_fetch_OwnLock(h) ==
    /\ pc[h] = "idle" /\ mem = Miss
    /\ mine' = [mine EXCEPT ![h] = NewLock] /\ lock' = NewLock
    /\ pc' = [pc EXCEPT ![h] = "wait"] /\ kind' = [kind EXCEPT ![h] = "read"]
    /\ UNCHANGED <<db, mem, red, queue, stray, val, faults, history>>

\* A memory miss takes the key's lock, creating it if needed (a hit changes
\* nothing).
get_or_fetch(h) ==
    LET l == IF lock = 0 THEN NewLock ELSE lock IN
    /\ pc[h] = "idle" /\ mem = Miss
    /\ mine' = [mine EXCEPT ![h] = l] /\ lock' = l
    /\ pc' = [pc EXCEPT ![h] = "wait"] /\ kind' = [kind EXCEPT ![h] = "read"]
    /\ UNCHANGED <<db, mem, red, queue, stray, val, faults, history>>

\* The lock is granted and memory is checked again.
Locked(h) ==
    /\ pc[h] = "wait" /\ \A g \in Handlers : mine[g] = mine[h] => pc[g] \notin Inside
    /\ IF mem # Miss THEN Return(h) ELSE Goto(h, "redis") /\ val' = val
    /\ UNCHANGED <<db, mem, red, queue, stray, faults, history>>

\* Redis answers; a miss, a failure or a time-out falls through to the fetch.
\* An answer given while mutations are queued may be about to change.
RedisGet(h) ==
    /\ pc[h] = "redis"
    /\ \/ Works /\ red # Miss /\ Goto(h, "hit") /\ val' = [val EXCEPT ![h] = red]
          /\ raced' = (raced \/ queue # << >>)
       \/ Works /\ red = Miss /\ Goto(h, "fetch") /\ UNCHANGED <<val, raced>>
       \/ Fault /\ Goto(h, "fetch") /\ UNCHANGED <<val, raced>>
    /\ UNCHANGED <<db, mem, red, queue, stray, last, lost, dropped, reopened, revoked>>

\* Mutation: a hit in Redis is written back to Redis.
RedisHit_WritesBack(h) ==
    /\ pc[h] = "hit" /\ mem' = val[h] /\ Return(h) /\ Works
    /\ _enqueue_redis_mutation(SetOp(val[h]))
    /\ UNCHANGED <<db, red, stray, raced, reopened, revoked>>

\* A hit in Redis fills memory only.
RedisHit(h) ==
    /\ pc[h] = "hit" /\ mem' = val[h] /\ Return(h)
    /\ UNCHANGED <<db, red, queue, stray, faults, history>>

\* fetch() reads the database; its failure reaches the caller.
Fetch(h) ==
    /\ pc[h] = "fetch"
    /\ \/ Works /\ Goto(h, "store") /\ val' = [val EXCEPT ![h] = db] /\ reopened' = reopened
       \/ Fault /\ Return(h) /\ reopened' = TRUE
    /\ UNCHANGED <<db, mem, red, queue, stray, last, lost, dropped, raced, revoked>>

\* The value goes to memory and, in order, to Redis.
Store(h) ==
    /\ pc[h] = "store" /\ mem' = val[h] /\ Return(h)
    /\ _enqueue_redis_mutation(SetOp(val[h]))
    /\ UNCHANGED <<db, red, stray, faults, raced, reopened, revoked>>

(***************************************************************************)
(* _mention_triples: memory, else the database, without lock or Redis read  *)
(***************************************************************************)
_mention_triples(h) ==
    /\ pc[h] = "idle" /\ mem = Miss /\ kind' = [kind EXCEPT ![h] = "read"]
    /\ pc' = [pc EXCEPT ![h] = "batch"] /\ mine' = mine
    /\ UNCHANGED <<stores, val, faults, history>>

BatchRead(h) ==
    /\ pc[h] = "batch" /\ Goto(h, "batch_put") /\ val' = [val EXCEPT ![h] = db]
    /\ UNCHANGED <<db, mem, red, queue, stray, faults, history>>

\* put: memory and, in order, Redis.
BatchPut(h) ==
    /\ pc[h] = "batch_put" /\ mem' = val[h]
    /\ End(h) /\ _redis_put_background(val[h])
    /\ UNCHANGED <<db, red, stray, lock, mine, faults, raced, reopened, revoked>>

(***************************************************************************)
(* Writers                                                                  *)
(***************************************************************************)
\* The database write returns; what follows on the cache depends on the caller.
Write(h, k) ==
    /\ pc[h] = "idle" /\ k # "read" /\ db < MaxWrites /\ db' = db + 1
    /\ val' = [val EXCEPT ![h] = db + 1] /\ kind' = [kind EXCEPT ![h] = k]
    /\ pc' = [pc EXCEPT ![h] = "op"] /\ mine' = mine /\ revoked' = FALSE
    /\ UNCHANGED <<mem, red, queue, stray, lock, faults, last, lost, dropped, raced, reopened>>

\* Some reader holds a value that is older than what h wrote.
HeldBack(h) == \E g \in Handlers : pc[g] \in {"hit", "store", "batch_put"} /\ val[g] < val[h]

put(h) ==
    /\ pc[h] = "op" /\ kind[h] = "put" /\ mem' = val[h]
    /\ _redis_put_background(val[h])
    /\ raced' = (raced \/ HeldBack(h) \/ val[h] < db)
    /\ End(h)
    /\ UNCHANGED <<db, red, stray, lock, mine, faults, reopened, revoked>>

\* Mutation: only the memory entry is dropped.
invalidate_MemoryOnly(h) ==
    /\ pc[h] = "op" /\ kind[h] = "invalidate" /\ mem' = Miss /\ lock' = 0
    /\ raced' = (raced \/ HeldBack(h)) /\ reopened' = (reopened \/ lock # 0)
    /\ End(h)
    /\ UNCHANGED <<db, red, queue, stray, mine, faults, last, lost, dropped, revoked>>

\* The lock goes too: its holder keeps fetching and the next miss starts anew.
invalidate(h) ==
    /\ pc[h] = "op" /\ kind[h] = "invalidate" /\ mem' = Miss /\ lock' = 0
    /\ _redis_del_background
    /\ raced' = (raced \/ HeldBack(h)) /\ reopened' = (reopened \/ Busy # {h})
    /\ End(h)
    /\ UNCHANGED <<db, red, stray, mine, faults, revoked>>

\* Memory goes at once; the caller waits for the sweep of Redis.
clear_all(h) ==
    /\ pc[h] = "op" /\ kind[h] = "clear" /\ mem' = Miss
    /\ _enqueue_redis_mutation(SweepOp(val[h]))
    /\ raced' = (raced \/ HeldBack(h)) /\ reopened' = (reopened \/ Busy # {h})
    /\ pc' = [pc EXCEPT ![h] = "sweeping"]
    /\ UNCHANGED <<db, red, stray, lock, mine, kind, val, faults, revoked>>

\* _CLEAR_ALL_TIMEOUT_S passes; the sweep keeps running.
ClearTimeout(h) ==
    /\ pc[h] = "sweeping" /\ Fault /\ End(h)
    /\ UNCHANGED <<stores, mine, history>>

(***************************************************************************)
(* Time and restarts                                                        *)
(***************************************************************************)
ExpireMemory ==
    /\ mem # Miss /\ mem' = Miss /\ reopened' = (reopened \/ Busy # {})
    /\ UNCHANGED <<db, red, queue, stray, lock, locals, faults, last, lost, dropped, raced, revoked>>

ExpireRedis ==
    /\ red # Miss /\ red' = Miss
    /\ UNCHANGED <<db, mem, queue, stray, lock, locals, faults, history>>

\* The process stops: drain_redis_mutations runs the queue as far as its time
\* allows and cancels the rest; memory and every coroutine go.
Restart ==
    /\ Fault /\ mem' = Miss /\ queue' = << >> /\ lock' = 0
    /\ IF queue # << >> \/ \E h \in Handlers : pc[h] = "op" THEN Lose ELSE UNCHANGED <<last, lost, dropped>>
    /\ mine' = [h \in Handlers |-> 0] /\ pc' = [h \in Handlers |-> "idle"]
    /\ val' = [h \in Handlers |-> Miss] /\ kind' = [h \in Handlers |-> "read"]
    /\ UNCHANGED <<db, red, stray, raced, reopened, revoked>>

Step(h) ==
    \/ Locked(h) \/ RedisGet(h) \/ RedisHit(h) \/ Fetch(h) \/ Store(h)
    \/ BatchRead(h) \/ BatchPut(h)
    \/ put(h) \/ invalidate(h) \/ clear_all(h)

Next ==
    \/ \E h \in Handlers : get_or_fetch(h) \/ _mention_triples(h) \/ Step(h) \/ ClearTimeout(h)
    \/ \E h \in Handlers, k \in AllKinds : Write(h, k)
    \/ RunMutation \/ (\E o \in stray : Arrive(o))
    \/ ExpireMemory \/ ExpireRedis \/ Restart

\* Coroutines and queued tasks run, calls return within their time limits, and
\* entries expire.  Nobody has to call the cache.
Fairness ==
    /\ \A h \in Handlers : WF_vars(Step(h))
    /\ WF_vars(RunMutation) /\ WF_vars(ExpireMemory) /\ WF_vars(ExpireRedis)

Spec == Init /\ [][Next]_vars /\ Fairness

(***************************************************************************)
(* Properties                                                               *)
(***************************************************************************)
TypeOK ==
    /\ db \in Values /\ mem \in Slots /\ red \in Slots
    /\ queue \in Seq(Ops) /\ stray \subseteq Ops /\ lock \in Locks \cup {0}
    /\ mine \in [Handlers -> Locks \cup {0}] /\ pc \in [Handlers -> Points]
    /\ kind \in [Handlers -> AllKinds] /\ val \in [Handlers -> Slots]
    /\ faults \in 0..MaxFaults /\ last \in Slots /\ revoked \in BOOLEAN
    /\ lost \in BOOLEAN /\ dropped \in BOOLEAN /\ raced \in BOOLEAN /\ reopened \in BOOLEAN

\* Once every writer has told the cache, no entry is stale, however reads,
\* expiries and the queue interleave, unless one of four things happened: a
\* reader held an older value across an invalidation, an answer of Redis
\* overtook a queued mutation, a later writer's put was overtaken, or a
\* mutation was lost or dropped (get_or_fetch, put, invalidate, clear_all).
FreshUnlessRaced ==
    (~raced /\ ~lost /\ ~dropped /\ \A h \in Handlers : pc[h] # "op")
    => ~Stale(mem) /\ (queue = << >> => ~Stale(red))

\* With the queue drained Redis holds what the last sweep or accepted mutation
\* asked for, or nothing, whatever the bound dropped before: no slower write
\* lands after a newer delete or sweep, and a full queue costs puts and deletes
\* but never a sweep.  Only an accepted operation that failed, was abandoned or
\* died with the process is excepted (_enqueue_redis_mutation).
MutationsInOrder == (queue = << >> /\ ~lost) => red \in {Miss, last}

\* Concurrent misses run one fetch, as long as no fetch fails and no entry is
\* dropped under the waiters (the per-key lock of get_or_fetch).
SingleFlight ==
    ~reopened => Cardinality({h \in Handlers : pc[h] \in {"redis", "hit", "fetch", "store"}}) <= 1

\* When the writes stop, stale entries disappear for good: a stale value read
\* from Redis never renews itself (get_or_fetch, the TTLs).
StaleGoesAway == <>[](~Stale(mem) /\ ~Stale(red))

\* After a clear_all that swept Redis, memory serves nothing older than the write
\* it followed (set_owner: "no process reads a stale founder role
\* after the transfer completes").
RevokedIsGone == revoked => ~Stale(mem)
=============================================================================
