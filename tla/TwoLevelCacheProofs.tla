------------------------ MODULE TwoLevelCacheProofs ------------------------
(***************************************************************************)
(* Proofs about TwoLevelCache, for any number of readers and writers, any    *)
(* bound on the queue and any number of writes and failures.  None of them   *)
(* uses the fairness of Spec.                                                *)
(***************************************************************************)
EXTENDS TwoLevelCache, FiniteSetTheorems, TLAPS

\* The types the arguments need, that a value to be stored is one, and that only
\* a reader at the lock has one.
Holding == {"hit", "store", "batch_put"}
Shape ==
    /\ db \in Values /\ mem \in Slots /\ red \in Slots /\ last \in Slots
    /\ queue \in Seq(Ops) /\ stray \subseteq Ops
    /\ pc \in [Handlers -> Points] /\ val \in [Handlers -> Slots] /\ DOMAIN mine = Handlers
    /\ \A h \in Handlers : pc[h] \in Holding \cup {"op"} => val[h] # Miss
    /\ \A h \in Handlers : pc[h] \notin Inside \cup {"wait"} => mine[h] = 0

\* Nothing is astray, and the newest queued mutation is the one that counts.
Ordered ==
    lost \/ (/\ stray = {}
             /\ queue = << >> => red \in {Miss, last}
             /\ queue # << >> => queue[Len(queue)].v = last)

\* While memory has no entry every reader is at the one lock; one of them is
\* inside it.
Flight ==
    reopened \/ (/\ mem = Miss => \A h \in Handlers :
                       pc[h] \in Inside \cup {"wait"} => mine[h] = lock /\ lock # 0
                 /\ \A g, h \in Handlers : pc[g] \in Inside /\ pc[h] \in Inside => g = h)

\* Every write newer than v has yet to reach the cache.
Covers(v) == \A n \in Values : v < n /\ n <= db => \E w \in Handlers : pc[w] = "op" /\ val[w] = n

\* So it is for memory, for what Redis is to hold and for what readers hold.
Fresh ==
    raced \/ lost \/ dropped \/ (/\ Covers(mem) /\ Covers(last)
                                 /\ \A h \in Handlers : pc[h] \in Holding => Covers(val[h]))

(***************************************************************************)
(* What the operators do                                                    *)
(***************************************************************************)
LEMMA OpsAre ==
    /\ \A v \in Slots : SetOp(v) \in Ops /\ SetOp(v).v = v
    /\ DeleteOp \in Ops /\ DeleteOp.v = Miss
    /\ \A n \in Values : SweepOp(n) \in Ops /\ SweepOp(n).v = Miss
    /\ \A o \in Ops : o.v \in Slots
BY DEF SetOp, DeleteOp, SweepOp, Ops, Slots

\* A mutation goes to the end of the queue, or the bound drops it, which is
\* remembered; a sweep is never dropped.
LEMMA EnqueueIs ==
    ASSUME Shape, NEW o \in Ops, _enqueue_redis_mutation(o)
    PROVE  /\ queue' \in Seq(Ops) /\ last' \in Slots /\ (lost <=> lost')
           /\ dropped => dropped' \/ lost'
           /\ \/ lost
              \/ dropped' /\ o.op # "sweep" /\ UNCHANGED <<queue, last>>
              \/ last' = o.v /\ queue' # << >> /\ queue'[Len(queue')].v = last'
<1>1. (lost <=> lost') /\ (dropped => dropped' \/ lost')
    BY DEF _enqueue_redis_mutation
<1>2. CASE ~(o.op = "sweep" \/ Len(queue) < MaxPending)
    <2>1. o.op # "sweep" /\ UNCHANGED <<queue, last>>
        BY <1>2 DEF _enqueue_redis_mutation
    <2>2. lost \/ dropped'
        BY <1>2 DEF _enqueue_redis_mutation
    <2> QED BY <1>1, <2>1, <2>2 DEF Shape
<1>3. CASE o.op = "sweep" \/ Len(queue) < MaxPending
    <2>1. queue' = Append(queue, o) /\ ((lost /\ last' = last) \/ last' = o.v)
        BY <1>3 DEF _enqueue_redis_mutation
    <2>2. queue' \in Seq(Ops) /\ Len(queue') = Len(queue) + 1 /\ queue'[Len(queue')] = o
        BY <2>1 DEF Shape
    <2>3. queue' # << >>
        BY <2>2 DEF Shape
    <2>4. last' \in Slots
        BY <2>1, OpsAre DEF Shape
    <2> QED BY <1>1, <2>1, <2>2, <2>3, <2>4
<1> QED BY <1>2, <1>3

\* The oldest mutation leaves the queue; the newest stays the newest.
LEMMA DequeueIs ==
    ASSUME Shape, queue # << >>, queue' = Tail(queue)
    PROVE  /\ queue' \in Seq(Ops) /\ Head(queue) \in Ops
           /\ queue' = << >> => Head(queue) = queue[Len(queue)]
           /\ queue' # << >> => queue'[Len(queue')] = queue[Len(queue)]
<1>1. Len(queue) \in Nat \ {0} /\ Len(queue') = Len(queue) - 1 /\ queue' \in Seq(Ops) /\ Head(queue) = queue[1]
    BY DEF Shape
<1>2. \A i \in 1..Len(queue') : queue'[i] = queue[i + 1]
    BY <1>1 DEF Shape
<1>3. queue' = << >> => Len(queue) = 1
    <2>1. queue' = << >> => Len(queue') = 0
        OBVIOUS
    <2> QED BY <1>1, <2>1
<1>4. queue' # << >> => Len(queue') \in 1..Len(queue')
    BY <1>1
<1> QED BY <1>1, <1>2, <1>3, <1>4 DEF Shape

\* The end of an operation wakes only a clear_all that waits for it.
LEMMA SweptIs ==
    ASSUME Shape, NEW o, NEW ok, Swept(o, ok)
    PROVE  /\ pc' \in [Handlers -> Points] /\ val' \in [Handlers -> Slots]
           /\ \A h \in Handlers : (pc'[h] = pc[h] /\ val'[h] = val[h]) \/ (pc[h] = "sweeping" /\ pc'[h] = "idle")
<1> DEFINE waiting == {h \in Handlers : pc[h] = "sweeping" /\ o.op = "sweep" /\ o.of = val[h]}
<1>1. /\ pc' = [h \in Handlers |-> IF h \in waiting THEN "idle" ELSE pc[h]]
      /\ val' = [h \in Handlers |-> IF h \in waiting THEN Miss ELSE val[h]]
    BY DEF Swept
<1>2. \A h \in waiting : pc[h] = "sweeping"
    OBVIOUS
<1> HIDE DEF waiting
<1> QED BY <1>1, <1>2 DEF Shape, Points, Slots

(***************************************************************************)
(* Types                                                                    *)
(***************************************************************************)
LEMMA ShapeInit == Init => Shape
BY BoundAssumption DEF Init, Shape, Values, Slots, Miss, Points, Holding, Inside

LEMMA ShapeNext == Shape /\ [Next]_vars => Shape'
<1> SUFFICES ASSUME Shape, [Next]_vars PROVE Shape'
    OBVIOUS
<1>0. /\ MaxWrites \in Nat /\ Miss \in Slots /\ Miss \notin Values
      /\ \A v \in Slots : v # Miss => v \in Values
    BY BoundAssumption DEF Miss, Slots, Values
<1> USE <1>0 DEF stores, locals, history, Points, Holding, Inside
<1>1. CASE UNCHANGED vars
    BY <1>1 DEF vars, Shape
<1>2. ASSUME NEW h \in Handlers, get_or_fetch(h) \/ _mention_triples(h) PROVE Shape'
    BY <1>2 DEF get_or_fetch, _mention_triples, Shape
<1>3. ASSUME NEW h \in Handlers, Locked(h) \/ RedisGet(h) \/ RedisHit(h) PROVE Shape'
    BY <1>3 DEF Locked, RedisGet, RedisHit, Goto, Return, Shape
<1>4. ASSUME NEW h \in Handlers, Fetch(h) \/ BatchRead(h) PROVE Shape'
    BY <1>4 DEF Fetch, BatchRead, Goto, Return, Shape, Slots
<1>5. ASSUME NEW h \in Handlers, Store(h) PROVE Shape'
    <2>1. queue' \in Seq(Ops) /\ last' \in Slots
        BY <1>5, OpsAre, EnqueueIs DEF Store, Shape
    <2> QED BY <1>5, <2>1 DEF Store, Return, Shape
<1>6. ASSUME NEW h \in Handlers, BatchPut(h) \/ put(h) PROVE Shape'
    <2>1. queue' \in Seq(Ops) /\ last' \in Slots
        BY <1>6, OpsAre, EnqueueIs DEF BatchPut, put, _redis_put_background, Shape
    <2>2. CASE BatchPut(h)
        BY <2>1, <2>2 DEF BatchPut, End, Shape
    <2>3. CASE put(h)
        BY <2>1, <2>3 DEF put, End, Shape
    <2> QED BY <1>6, <2>2, <2>3
<1>7. ASSUME NEW h \in Handlers, invalidate(h) PROVE Shape'
    <2>1. queue' \in Seq(Ops) /\ last' \in Slots
        BY <1>7, OpsAre, EnqueueIs DEF invalidate, _redis_del_background
    <2> QED BY <1>7, <2>1 DEF invalidate, End, Shape
<1>8. ASSUME NEW h \in Handlers, clear_all(h) PROVE Shape'
    <2>1. queue' \in Seq(Ops) /\ last' \in Slots
        BY <1>8, OpsAre, EnqueueIs DEF clear_all, Shape
    <2> QED BY <1>8, <2>1 DEF clear_all, Shape
<1>9. ASSUME NEW h \in Handlers, ClearTimeout(h) PROVE Shape'
    BY <1>9 DEF ClearTimeout, End, Shape
<1>10. ASSUME NEW h \in Handlers, NEW k \in AllKinds, Write(h, k) PROVE Shape'
    <2>1. db + 1 \in Values
        BY <1>10 DEF Write, Values, Shape
    <2> QED BY <1>10, <2>1 DEF Write, Shape, Slots
<1>11. CASE RunMutation
    <2>1. queue' \in Seq(Ops) /\ Head(queue) \in Ops /\ Head(queue).v \in Slots
        BY <1>11, DequeueIs, OpsAre DEF RunMutation
    <2>2. /\ pc' \in [Handlers -> Points] /\ val' \in [Handlers -> Slots]
          /\ \A h \in Handlers : (pc'[h] = pc[h] /\ val'[h] = val[h]) \/ (pc[h] = "sweeping" /\ pc'[h] = "idle")
        BY <1>11, SweptIs DEF RunMutation
    <2>3. red' \in Slots /\ stray' \subseteq Ops /\ last' \in Slots /\ UNCHANGED <<db, mem, mine>>
        BY <1>11, <2>1 DEF RunMutation, Lose, Shape
    <2> QED BY <2>1, <2>2, <2>3 DEF Shape
<1>12. ASSUME NEW o \in stray, Arrive(o) PROVE Shape'
    BY <1>12, OpsAre DEF Arrive, Shape
<1>13. CASE ExpireMemory \/ ExpireRedis
    BY <1>13 DEF ExpireMemory, ExpireRedis, Shape
<1>14. CASE Restart
    <2>1. last' \in Slots
        BY <1>14 DEF Restart, Lose, Shape
    <2> QED BY <1>14, <2>1 DEF Restart, Shape
<1> QED
    BY <1>1, <1>2, <1>3, <1>4, <1>5, <1>6, <1>7, <1>8, <1>9, <1>10, <1>11, <1>12, <1>13, <1>14
    DEF Next, Step

(***************************************************************************)
(* The order of mutations                                                   *)
(***************************************************************************)
LEMMA OrderedInit == Init => Ordered
BY DEF Init, Ordered

\* A mutation that is queued becomes the newest one; one that is dropped leaves
\* the queue and Redis alone.
LEMMA OrderedEnqueue ==
    ASSUME Shape, Ordered, NEW o \in Ops, _enqueue_redis_mutation(o), UNCHANGED <<red, stray>>
    PROVE  Ordered'
BY EnqueueIs DEF Ordered

LEMMA OrderedNext == Shape /\ Ordered /\ [Next]_vars => Ordered'
<1> SUFFICES ASSUME Shape, Ordered, [Next]_vars PROVE Ordered'
    OBVIOUS
<1> USE DEF stores, history
<1>1. CASE UNCHANGED <<red, queue, stray, last, lost>>
    BY <1>1 DEF Ordered
<1>2. ASSUME NEW h \in Handlers, get_or_fetch(h) \/ _mention_triples(h) \/ ClearTimeout(h) PROVE Ordered'
    BY <1>1, <1>2 DEF get_or_fetch, _mention_triples, ClearTimeout
<1>3. ASSUME NEW h \in Handlers, Locked(h) \/ RedisGet(h) \/ RedisHit(h) \/ Fetch(h) \/ BatchRead(h)
      PROVE  Ordered'
    BY <1>1, <1>3 DEF Locked, RedisGet, RedisHit, Fetch, BatchRead
<1>4. ASSUME NEW h \in Handlers, Store(h) \/ BatchPut(h) \/ put(h) PROVE Ordered'
    <2>1. SetOp(val[h]) \in Ops /\ _enqueue_redis_mutation(SetOp(val[h])) /\ UNCHANGED <<red, stray>>
        BY <1>4, OpsAre DEF Store, BatchPut, put, _redis_put_background, Shape
    <2> QED BY <2>1, OrderedEnqueue
<1>5. ASSUME NEW h \in Handlers, invalidate(h) PROVE Ordered'
    BY <1>5, OpsAre, OrderedEnqueue DEF invalidate, _redis_del_background
<1>6. ASSUME NEW h \in Handlers, clear_all(h) PROVE Ordered'
    <2>1. val[h] \in Values
        BY <1>6 DEF clear_all, Shape, Slots
    <2> QED BY <1>6, <2>1, OpsAre, OrderedEnqueue DEF clear_all
<1>7. ASSUME NEW h \in Handlers, NEW k \in AllKinds, Write(h, k) PROVE Ordered'
    BY <1>1, <1>7 DEF Write
<1>8. CASE RunMutation
    <2>1. queue # << >> /\ queue' = Tail(queue)
        BY <1>8 DEF RunMutation
    <2>2. lost' = TRUE \/ (red' = Head(queue).v /\ UNCHANGED <<stray, last, lost>>)
        BY <1>8 DEF RunMutation, Lose
    <2> QED BY <2>1, <2>2, DequeueIs DEF Ordered
<1>9. ASSUME NEW o \in stray, Arrive(o) PROVE Ordered'
    BY <1>9 DEF Arrive, Ordered
<1>10. CASE ExpireMemory \/ ExpireRedis
    BY <1>10 DEF ExpireMemory, ExpireRedis, Ordered
<1>11. CASE Restart
    <2>1. /\ lost' = TRUE \/ (queue = << >> /\ UNCHANGED <<last, lost>>)
          /\ queue' = << >> /\ UNCHANGED <<red, stray>>
        BY <1>11 DEF Restart, Lose
    <2> QED BY <2>1 DEF Ordered
<1>12. CASE UNCHANGED vars
    BY <1>1, <1>12 DEF vars
<1> QED BY <1>2, <1>3, <1>4, <1>5, <1>6, <1>7, <1>8, <1>9, <1>10, <1>11, <1>12 DEF Next, Step

\* With the queue drained Redis holds what the last sweep or accepted mutation
\* asked for, or nothing, for any bound and whatever the bound dropped; only an
\* accepted operation that failed, was abandoned or died with the process is
\* excepted (_enqueue_redis_mutation).
THEOREM MutationsRunInOrder == Spec => []MutationsInOrder
<1>1. Spec => [](Shape /\ Ordered)
    BY ShapeInit, ShapeNext, OrderedInit, OrderedNext, PTL DEF Spec
<1>2. Ordered => MutationsInOrder
    BY DEF Ordered, MutationsInOrder
<1> QED BY <1>1, <1>2, PTL

(***************************************************************************)
(* One fetch for concurrent misses                                          *)
(***************************************************************************)
\* A lock that nobody waits for is a new one.
LEMMA FreeLock ==
    ASSUME lock = 0, \A g \in Handlers : mine[g] = 0
    PROVE  NewLock # 0
<1>1. Cardinality(Handlers) \in Nat /\ 1 \in Locks /\ 0 \notin Locks
    BY LockAssumption, FS_CardinalityType
<1>2. \E l \in Locks : l # lock /\ \A g \in Handlers : mine[g] # l
    BY <1>1
<1> QED BY <1>1, <1>2 DEF NewLock

LEMMA FlightInit == Init => Flight
BY DEF Init, Flight, Inside

\* Steps that start nobody, keep the entry and the locks.
LEMMA FlightKept ==
    ASSUME Flight, mem' # Miss \/ UNCHANGED <<mem, lock, mine>>, reopened => reopened',
           \A h \in Handlers : pc'[h] \in Inside => pc[h] \in Inside,
           \A h \in Handlers : pc'[h] = "wait" => pc[h] \in Inside \cup {"wait"}
    PROVE  Flight'
BY DEF Flight, Miss

\* Steps that leave nobody at the lock.
LEMMA FlightOver ==
    ASSUME \A h \in Handlers : pc'[h] \notin Inside \cup {"wait"}
    PROVE  Flight'
BY DEF Flight

LEMMA FlightNext == Shape /\ Flight /\ [Next]_vars => Flight'
<1> SUFFICES ASSUME Shape, Flight, [Next]_vars PROVE Flight'
    OBVIOUS
<1> USE DEF stores, locals, history
<1>1. ASSUME NEW h \in Handlers, get_or_fetch(h) PROVE Flight'
    <2>1. CASE reopened
        BY <1>1, <2>1 DEF get_or_fetch, Flight
    <2>2. CASE ~reopened
        <3>1. mem = Miss /\ pc[h] = "idle" /\ pc' = [pc EXCEPT ![h] = "wait"] /\ mem' = mem
              /\ lock' = (IF lock = 0 THEN NewLock ELSE lock) /\ mine' = [mine EXCEPT ![h] = lock']
            BY <1>1 DEF get_or_fetch
        <3>2. \A g \in Handlers : pc[g] \in Inside \cup {"wait"} => mine[g] = lock /\ lock # 0
            BY <2>2, <3>1 DEF Flight
        <3>3. lock = 0 => NewLock # 0
            BY <3>2, FreeLock DEF Shape
        <3>4. \A g \in Handlers : pc'[g] \in Inside \cup {"wait"} => mine'[g] = lock' /\ lock' # 0
            BY <3>1, <3>2, <3>3 DEF Shape
        <3>5. \A g, f \in Handlers : pc'[g] \in Inside /\ pc'[f] \in Inside => g = f
            BY <2>2, <3>1 DEF Flight, Shape, Inside
        <3> QED BY <3>4, <3>5 DEF Flight
    <2> QED BY <2>1, <2>2
<1>2. ASSUME NEW h \in Handlers, _mention_triples(h) \/ BatchRead(h) \/ ClearTimeout(h) PROVE Flight'
    BY <1>2, FlightKept DEF _mention_triples, BatchRead, ClearTimeout, Goto, End, Shape, Inside
<1>3. ASSUME NEW h \in Handlers, Locked(h) PROVE Flight'
    <2>1. CASE mem # Miss
        BY <1>3, <2>1, FlightKept DEF Locked, Return, Shape, Inside, Miss
    <2>2. CASE mem = Miss
        <3>1. /\ pc[h] = "wait" /\ pc' = [pc EXCEPT ![h] = "redis"] /\ UNCHANGED <<mem, lock, mine, reopened>>
              /\ \A g \in Handlers : mine[g] = mine[h] => pc[g] \notin Inside
            BY <1>3, <2>2 DEF Locked, Goto
        <3>2. ~reopened => \A g \in Handlers : pc[g] \notin Inside
            BY <2>2, <3>1 DEF Flight
        <3> QED BY <3>1, <3>2 DEF Flight, Shape, Inside
    <2> QED BY <2>1, <2>2
<1>4. ASSUME NEW h \in Handlers, RedisGet(h) PROVE Flight'
    BY <1>4, FlightKept DEF RedisGet, Goto, Shape, Inside
<1>5. ASSUME NEW h \in Handlers, Fetch(h) PROVE Flight'
    <2>1. CASE reopened' = TRUE
        BY <2>1 DEF Flight
    <2>2. CASE Goto(h, "store") /\ reopened' = reopened
        BY <1>5, <2>2, FlightKept DEF Fetch, Goto, Shape, Inside
    <2> QED BY <1>5, <2>1, <2>2 DEF Fetch
<1>6. ASSUME NEW h \in Handlers, RedisHit(h) \/ Store(h) PROVE Flight'
    <2>1. mem' # Miss' /\ pc' = [pc EXCEPT ![h] = "idle"] /\ reopened' = reopened
        BY <1>6 DEF RedisHit, Store, Return, Shape, Holding, Miss
    <2> QED BY <2>1, FlightKept DEF Shape, Inside, Miss
<1>7. ASSUME NEW h \in Handlers, BatchPut(h) \/ put(h) PROVE Flight'
    <2>1. mem' # Miss' /\ pc' = [pc EXCEPT ![h] = "idle"] /\ reopened' = reopened
        BY <1>7 DEF BatchPut, put, End, Shape, Holding, Miss
    <2> QED BY <2>1, FlightKept DEF Shape, Inside, Miss
<1>8. ASSUME NEW h \in Handlers, invalidate(h) \/ clear_all(h) PROVE Flight'
    <2>1. /\ reopened' <=> reopened \/ Busy # {h}
          /\ pc' = [pc EXCEPT ![h] = "idle"] \/ pc' = [pc EXCEPT ![h] = "sweeping"]
        BY <1>8 DEF invalidate, clear_all, End
    <2>2. CASE reopened'
        BY <2>2 DEF Flight
    <2>3. CASE ~reopened'
        <3>1. \A g \in Handlers : pc'[g] \notin Inside \cup {"wait"}
            BY <2>1, <2>3 DEF Busy, Shape, Inside
        <3> QED BY <3>1, FlightOver
    <2> QED BY <2>2, <2>3
<1>9. ASSUME NEW h \in Handlers, NEW k \in AllKinds, Write(h, k) PROVE Flight'
    BY <1>9, FlightKept DEF Write, Shape, Inside
<1>10. CASE RunMutation
    <2>1. \A h \in Handlers : pc'[h] = pc[h] \/ pc'[h] = "idle"
        BY <1>10, SweptIs DEF RunMutation
    <2> QED BY <1>10, <2>1, FlightKept DEF RunMutation, Inside
<1>11. ASSUME NEW o \in stray, Arrive(o) PROVE Flight'
    BY <1>11, FlightKept DEF Arrive
<1>12. CASE ExpireMemory
    <2>1. (reopened' <=> reopened \/ Busy # {}) /\ pc' = pc
        BY <1>12 DEF ExpireMemory
    <2>2. CASE reopened'
        BY <2>2 DEF Flight
    <2>3. CASE ~reopened'
        BY <2>1, <2>3, FlightOver DEF Busy, Inside
    <2> QED BY <2>2, <2>3
<1>13. CASE ExpireRedis
    BY <1>13, FlightKept DEF ExpireRedis
<1>14. CASE Restart
    BY <1>14, FlightOver DEF Restart, Inside
<1>15. CASE UNCHANGED vars
    BY <1>15, FlightKept DEF vars
<1> QED
    BY <1>1, <1>2, <1>3, <1>4, <1>5, <1>6, <1>7, <1>8, <1>9, <1>10, <1>11, <1>12, <1>13, <1>14, <1>15
    DEF Next, Step

\* Concurrent misses run one fetch, however many readers there are, as long as
\* no fetch fails and no entry is dropped under them (get_or_fetch).
THEOREM FlightsAreSingle == Spec => []SingleFlight
<1>1. Spec => [](Shape /\ Flight)
    BY ShapeInit, ShapeNext, FlightInit, FlightNext, PTL DEF Spec
<1>2. Flight => SingleFlight
    <2> SUFFICES ASSUME Flight, ~reopened
                 PROVE  Cardinality({h \in Handlers : pc[h] \in Inside}) <= 1
        BY DEF SingleFlight, Inside
    <2> DEFINE S == {h \in Handlers : pc[h] \in Inside}
    <2>1. CASE S = {}
        BY <2>1, FS_EmptySet
    <2>2. CASE S # {}
        <3>1. PICK h \in S : S = {h}
            BY <2>2 DEF Flight
        <3>2. Cardinality({h}) = 1
            BY FS_Singleton
        <3> HIDE DEF S
        <3>3. Cardinality(S) <= 1
            BY <3>1, <3>2
        <3> QED BY <3>3 DEF S
    <2> QED BY <2>1, <2>2
<1> QED BY <1>1, <1>2, PTL

(***************************************************************************)
(* Fresh entries                                                            *)
(***************************************************************************)
LEMMA FreshInit == Init => Fresh
BY BoundAssumption DEF Init, Fresh, Covers, Values, Miss, Holding

\* No write is newer than a miss or than the database.
LEMMA CoversTop ==
    ASSUME Shape
    PROVE  Covers(Miss) /\ Covers(db)
BY BoundAssumption DEF Shape, Covers, Values, Miss

\* The same of a value after the step.
Covered(v) ==
    \A n \in Values : v < n /\ n <= db' => \E w \in Handlers : pc'[w] = "op" /\ val'[w] = n

LEMMA FreshFrom ==
    ASSUME Covered(mem'), Covered(last'), \A h \in Handlers : pc'[h] \in Holding => Covered(val'[h])
    PROVE  Fresh'
BY DEF Covered, Covers, Fresh

\* A step that keeps the pending writers and stores nothing but what was covered.
Same == db' = db /\ \A w \in Handlers : pc[w] = "op" => pc'[w] = "op" /\ val'[w] = val[w]
LEMMA FreshKept ==
    ASSUME Same, Covers(mem'), Covers(last'), \A h \in Handlers : pc'[h] \in Holding => Covers(val'[h])
    PROVE  Fresh'
BY FreshFrom DEF Same, Covers, Covered

\* The cache is told of the write of h: what is at least as new stays covered.
Told(h) ==
    /\ db' = db /\ pc[h] = "op" /\ val[h] \in Values
    /\ \A w \in Handlers \ {h} : pc[w] = "op" => pc'[w] = "op" /\ val'[w] = val[w]
LEMMA CoversTold ==
    ASSUME Shape, NEW h \in Handlers, Told(h), NEW v \in Slots, Covers(v), ~(v < val[h])
    PROVE  Covered(v)
<1> SUFFICES ASSUME NEW n \in Values, v < n, n <= db
             PROVE  \E w \in Handlers : pc'[w] = "op" /\ val'[w] = n
    BY DEF Told, Covered
<1>1. PICK w \in Handlers : pc[w] = "op" /\ val[w] = n
    BY DEF Covers
<1>2. w # h
    BY <1>1
<1> QED BY <1>1, <1>2 DEF Told

\* The history is kept.
Kept == (raced => raced') /\ (lost => lost') /\ (dropped => dropped' \/ lost')

LEMMA Remembers ==
    ASSUME Shape, [Next]_vars
    PROVE  Kept
<1> USE DEF stores, history, _enqueue_redis_mutation, Kept
<1>1. ASSUME NEW h \in Handlers, get_or_fetch(h) \/ _mention_triples(h) \/ ClearTimeout(h)
      PROVE  Kept
    BY <1>1 DEF get_or_fetch, _mention_triples, ClearTimeout
<1>2. ASSUME NEW h \in Handlers, Locked(h) \/ RedisGet(h) \/ RedisHit(h) \/ Fetch(h) \/ BatchRead(h)
      PROVE  Kept
    <2>1. CASE RedisGet(h)
        <3>1. lost' = lost /\ dropped' = dropped /\ (raced' = raced \/ (raced' <=> raced \/ queue # << >>))
            BY <2>1 DEF RedisGet
        <3> QED BY <3>1
    <2> QED BY <1>2, <2>1 DEF Locked, RedisHit, Fetch, BatchRead
<1>3. ASSUME NEW h \in Handlers, Store(h) \/ BatchPut(h) \/ put(h)
      PROVE  Kept
    <2>1. _enqueue_redis_mutation(SetOp(val[h])) /\ SetOp(val[h]) \in Ops
        BY <1>3, OpsAre DEF Store, BatchPut, put, _redis_put_background, Shape
    <2>2. (lost => lost') /\ (dropped => dropped' \/ lost')
        BY <2>1, EnqueueIs
    <2>3. raced => raced'
        BY <1>3 DEF Store, BatchPut, put
    <2> QED BY <2>2, <2>3
<1>4. ASSUME NEW h \in Handlers, invalidate(h) \/ clear_all(h)
      PROVE  Kept
    <2>1. \E o \in Ops : _enqueue_redis_mutation(o)
        <3>1. CASE invalidate(h)
            BY <3>1, OpsAre DEF invalidate, _redis_del_background
        <3>2. CASE clear_all(h)
            BY <3>2, OpsAre DEF clear_all, Shape, Slots
        <3> QED BY <1>4, <3>1, <3>2
    <2>2. (lost => lost') /\ (dropped => dropped' \/ lost')
        BY <2>1, EnqueueIs
    <2>3. raced => raced'
        BY <1>4 DEF invalidate, clear_all
    <2> QED BY <2>2, <2>3
<1>5. ASSUME NEW h \in Handlers, NEW k \in AllKinds, Write(h, k)
      PROVE  Kept
    BY <1>5 DEF Write
<1>6. CASE RunMutation \/ ExpireMemory \/ ExpireRedis \/ Restart
    <2>1. CASE RunMutation
        <3>1. raced' = raced /\ (lost' = TRUE \/ (lost' = lost /\ dropped' = dropped))
            BY <2>1 DEF RunMutation, Lose
        <3> QED BY <3>1
    <2>2. CASE Restart
        <3>1. raced' = raced /\ (lost' = TRUE \/ (lost' = lost /\ dropped' = dropped))
            BY <2>2 DEF Restart, Lose
        <3> QED BY <3>1
    <2> QED BY <1>6, <2>1, <2>2 DEF ExpireMemory, ExpireRedis
<1>7. ASSUME NEW o \in stray, Arrive(o) PROVE Kept
    BY <1>7 DEF Arrive
<1>8. CASE UNCHANGED vars
    BY <1>8 DEF vars
<1> QED BY <1>1, <1>2, <1>3, <1>4, <1>5, <1>6, <1>7, <1>8 DEF Next, Step

LEMMA FreshNext == Shape /\ Ordered /\ Fresh /\ [Next]_vars => Fresh'
<1> SUFFICES ASSUME Shape, Ordered, Fresh, [Next]_vars, ~raced', ~lost', ~dropped' PROVE Fresh'
    BY DEF Fresh
<1>0. /\ ~raced /\ ~lost /\ ~dropped /\ Shape' /\ Miss' = Miss
      /\ Covers(mem) /\ Covers(last) /\ Covers(Miss) /\ Covers(db)
      /\ \A h \in Handlers : pc[h] \in Holding => Covers(val[h])
    BY Remembers, ShapeNext, CoversTop DEF Fresh, Miss, Kept
<1> USE DEF stores, locals, history
<1>1. ASSUME NEW h \in Handlers, get_or_fetch(h) \/ _mention_triples(h) \/ Locked(h) \/ ClearTimeout(h)
      PROVE  Fresh'
    <2>1. UNCHANGED <<db, mem, last>>
        BY <1>1 DEF get_or_fetch, _mention_triples, Locked, ClearTimeout
    <2>2. /\ pc[h] \in {"idle", "wait", "sweeping"}
          /\ \E l \in {"wait", "batch", "redis", "idle"} : pc' = [pc EXCEPT ![h] = l]
          /\ val' = val \/ val' = [val EXCEPT ![h] = Miss]
        BY <1>1 DEF get_or_fetch, _mention_triples, Locked, ClearTimeout, Goto, Return, End
    <2>3. \A g \in Handlers : pc'[g] \in Holding \cup {"op"} => pc[g] = pc'[g] /\ val'[g] = val[g]
        BY <2>2 DEF Shape, Holding
    <2>4. \A g \in Handlers : pc[g] = "op" => pc'[g] = "op" /\ val'[g] = val[g]
        BY <2>2 DEF Shape
    <2> QED BY <1>0, <2>1, <2>3, <2>4, FreshKept DEF Same
<1>2. ASSUME NEW h \in Handlers, RedisGet(h) PROVE Fresh'
    <2>1. pc[h] = "redis" /\ UNCHANGED <<db, mem, last>>
        BY <1>2 DEF RedisGet
    <2>2. \/ pc' = [pc EXCEPT ![h] = "hit"] /\ val' = [val EXCEPT ![h] = last]
          \/ pc' = [pc EXCEPT ![h] = "fetch"] /\ val' = val
        BY <1>0, <1>2 DEF RedisGet, Goto, Ordered
    <2>3. \A g \in Handlers : pc[g] = "op" => pc'[g] = "op" /\ val'[g] = val[g]
        BY <2>1, <2>2 DEF Shape
    <2>4. \A g \in Handlers : pc'[g] \in Holding =>
             (pc[g] = pc'[g] /\ val'[g] = val[g]) \/ val'[g] = last
        BY <2>2 DEF Shape, Holding
    <2> QED BY <1>0, <2>1, <2>3, <2>4, FreshKept DEF Same
<1>3. ASSUME NEW h \in Handlers, Fetch(h) \/ BatchRead(h) PROVE Fresh'
    <2>1. pc[h] \in {"fetch", "batch"} /\ UNCHANGED <<db, mem, last>>
        BY <1>3 DEF Fetch, BatchRead
    <2>2. \/ pc' = [pc EXCEPT ![h] = "store"] /\ val' = [val EXCEPT ![h] = db]
          \/ pc' = [pc EXCEPT ![h] = "batch_put"] /\ val' = [val EXCEPT ![h] = db]
          \/ pc' = [pc EXCEPT ![h] = "idle"] /\ val' = [val EXCEPT ![h] = Miss]
        BY <1>3 DEF Fetch, BatchRead, Goto, Return
    <2>3. \A g \in Handlers : pc[g] = "op" => pc'[g] = "op" /\ val'[g] = val[g]
        BY <2>1, <2>2 DEF Shape
    <2>4. \A g \in Handlers : pc'[g] \in Holding => (pc[g] = pc'[g] /\ val'[g] = val[g]) \/ val'[g] = db
        BY <2>2 DEF Shape, Holding
    <2> QED BY <1>0, <2>1, <2>3, <2>4, FreshKept DEF Same
<1>4. ASSUME NEW h \in Handlers, RedisHit(h) \/ Store(h) \/ BatchPut(h) PROVE Fresh'
    <2>1. pc[h] \in Holding /\ db' = db /\ mem' = val[h] /\ pc' = [pc EXCEPT ![h] = "idle"]
          /\ val' = [val EXCEPT ![h] = Miss]
        BY <1>4 DEF RedisHit, Store, BatchPut, Return, End, Holding
    <2>2. last' = last \/ last' = val[h]
        <3>1. SetOp(val[h]) \in Ops /\ SetOp(val[h]).v = val[h]
            BY OpsAre DEF Shape
        <3> QED BY <1>4, <3>1, EnqueueIs DEF RedisHit, Store, BatchPut, _redis_put_background
    <2>3. \A g \in Handlers : pc[g] = "op" => pc'[g] = "op" /\ val'[g] = val[g]
        BY <2>1 DEF Shape, Holding
    <2>4. \A g \in Handlers : pc'[g] \in Holding => pc[g] = pc'[g] /\ val'[g] = val[g]
        BY <2>1 DEF Shape, Holding
    <2> QED BY <1>0, <2>1, <2>2, <2>3, <2>4, FreshKept DEF Same
<1>5. ASSUME NEW h \in Handlers, put(h) \/ invalidate(h) \/ clear_all(h) PROVE Fresh'
    <2>1. /\ db' = db /\ pc[h] = "op" /\ ~HeldBack(h) /\ val[h] \in Values
          /\ \/ mem' = val[h] /\ ~(val[h] < db)
             \/ mem' = Miss
        BY <1>0, <1>5 DEF put, invalidate, clear_all, Shape, Slots
    <2>2. last' = mem'
        <3>1. CASE put(h)
            BY <3>1, OpsAre, EnqueueIs DEF put, _redis_put_background, Shape
        <3>2. CASE invalidate(h)
            BY <3>2, OpsAre, EnqueueIs DEF invalidate, _redis_del_background
        <3>3. CASE clear_all(h)
            BY <2>1, <3>3, OpsAre, EnqueueIs DEF clear_all
        <3> QED BY <1>5, <3>1, <3>2, <3>3
    <2>3. \A g \in Handlers \ {h} : pc'[g] = pc[g] /\ val'[g] = val[g]
        BY <1>5 DEF put, invalidate, clear_all, End, Shape
    <2>4. pc'[h] \notin Holding
        BY <1>5 DEF put, invalidate, clear_all, End, Shape, Holding
    <2>5. Told(h)
        BY <2>1, <2>3 DEF Told
    <2>6. Covers(mem') /\ mem' \in Slots /\ ~(mem' < val[h])
        BY <1>0, <2>1, BoundAssumption DEF Covers, Values, Slots, Miss, Shape
    <2>7. Covered(mem')
        BY <2>5, <2>6, CoversTold
    <2>8. ASSUME NEW g \in Handlers, pc'[g] \in Holding PROVE Covered(val'[g])
        <3>1. g # h /\ pc[g] \in Holding /\ val'[g] = val[g] /\ val[g] \in Slots
            BY <2>3, <2>4, <2>8 DEF Shape
        <3>2. ~(val[g] < val[h])
            BY <2>1, <3>1 DEF HeldBack, Holding
        <3> QED BY <1>0, <2>5, <3>1, <3>2, CoversTold
    <2> QED BY <2>2, <2>7, <2>8, FreshFrom
<1>6. ASSUME NEW h \in Handlers, NEW k \in AllKinds, Write(h, k) PROVE Fresh'
    <2>1. /\ pc[h] = "idle" /\ db' = db + 1 /\ db \in Nat /\ UNCHANGED <<mem, last>>
          /\ pc' = [pc EXCEPT ![h] = "op"] /\ val' = [val EXCEPT ![h] = db + 1]
        BY <1>6 DEF Write, Shape, Values
    <2>2. /\ pc'[h] = "op" /\ val'[h] = db + 1
          /\ \A g \in Handlers \ {h} : pc'[g] = pc[g] /\ val'[g] = val[g]
        BY <2>1 DEF Shape
    <2>3. ASSUME NEW v, Covers(v) PROVE Covered(v)
        <3> SUFFICES ASSUME NEW n \in Values, v < n, n <= db + 1
                     PROVE  \E w \in Handlers : pc'[w] = "op" /\ val'[w] = n
            BY <2>1 DEF Covered
        <3>1. CASE n = db + 1
            BY <2>2, <3>1
        <3>2. CASE n # db + 1
            <4>1. n <= db
                BY <2>1, <3>2 DEF Values
            <4>2. PICK w \in Handlers : pc[w] = "op" /\ val[w] = n
                BY <2>3, <4>1 DEF Covers
            <4> QED BY <2>1, <2>2, <4>2
        <3> QED BY <3>1, <3>2
    <2>4. \A g \in Handlers : pc'[g] \in Holding => pc[g] \in Holding /\ val'[g] = val[g]
        BY <2>2 DEF Holding
    <2> QED BY <1>0, <2>1, <2>3, <2>4, FreshFrom
<1>7. CASE RunMutation
    <2>1. \A g \in Handlers : (pc'[g] = pc[g] /\ val'[g] = val[g]) \/ (pc[g] = "sweeping" /\ pc'[g] = "idle")
        BY <1>7, SweptIs DEF RunMutation
    <2>2. UNCHANGED <<db, mem, last>>
        BY <1>7 DEF RunMutation, Lose
    <2> QED BY <1>0, <2>1, <2>2, FreshKept DEF Same, Holding
<1>8. ASSUME NEW o \in stray, Arrive(o) PROVE Fresh'
    BY <1>0, <1>8, FreshKept DEF Arrive, Same
<1>9. CASE ExpireMemory \/ ExpireRedis
    <2>1. UNCHANGED <<db, last, pc, val>> /\ (mem' = mem \/ mem' = Miss)
        BY <1>9 DEF ExpireMemory, ExpireRedis
    <2> QED BY <1>0, <2>1, FreshKept DEF Same
<1>10. CASE Restart
    <2>1. /\ \A h \in Handlers : pc[h] # "op"
          /\ UNCHANGED <<db, last>> /\ mem' = Miss /\ \A h \in Handlers : pc'[h] = "idle"
        BY <1>10 DEF Restart, Lose
    <2> QED BY <1>0, <2>1, FreshKept DEF Same, Holding
<1>11. CASE UNCHANGED vars
    BY <1>0, <1>11, FreshKept DEF vars, Same
<1> QED BY <1>1, <1>2, <1>3, <1>4, <1>5, <1>6, <1>7, <1>8, <1>9, <1>10, <1>11 DEF Next, Step

\* Once every writer has told the cache, no entry is stale, for any number of
\* readers and writers, unless a reader or an answer of Redis crossed a write or
\* a mutation was lost or dropped (get_or_fetch, put, invalidate, clear_all).
THEOREM EntriesAreFresh == Spec => []FreshUnlessRaced
<1>1. Spec => [](Shape /\ Ordered /\ Fresh)
    BY ShapeInit, ShapeNext, OrderedInit, OrderedNext, FreshInit, FreshNext, PTL DEF Spec
<1>2. Shape /\ Ordered /\ Fresh => FreshUnlessRaced
    <2> SUFFICES ASSUME Shape, Ordered, Fresh, ~raced, ~lost, ~dropped,
                        \A h \in Handlers : pc[h] # "op"
                 PROVE  ~Stale(mem) /\ (queue = << >> => ~Stale(red))
        BY DEF FreshUnlessRaced
    <2>1. ASSUME NEW v, Covers(v) PROVE ~Stale(v)
        BY <2>1 DEF Covers, Stale, Shape, Values
    <2>2. ~Stale(mem) /\ ~Stale(last) /\ ~Stale(Miss)
        BY <2>1 DEF Fresh, Stale
    <2> QED BY <2>2 DEF Ordered
<1> QED BY <1>1, <1>2, PTL
============================================================================
