--------------------------- MODULE SanctionProofs ---------------------------
(***************************************************************************)
(* Proofs about the two ways a moderator's report leads to a ban: the proof  *)
(* collected for /tcban (ProofSession) and the warnings that reach a limit   *)
(* (Warnings).  The two components share neither state nor definitions.      *)
(***************************************************************************)
EXTENDS Warnings, ProofSession, FiniteSetTheorems, TLAPS

(***************************************************************************)
(* Proof collection, for any number of updates, sessions, media and silence  *)
(* windows                                                                  *)
(***************************************************************************)
\* The flush task of a session still runs.
Alive == {"sleep", "write", "fan"}

(***************************************************************************)
(* What the two safety theorems need to know of the types: SessionTypeOK     *)
(* without the history sets and the counters they do not mention.            *)
(***************************************************************************)
SessionShape ==
    /\ made \in 0..MaxSessions /\ registry \in 0..made
    /\ flushing \in [Sessions -> BOOLEAN] /\ must \in [Sessions -> BOOLEAN]
    /\ task \in [Sessions -> TaskPoints] /\ bound \in [Sessions -> 0..MaxSessions]
    /\ pos \in [Updates -> UpdatePoints] /\ own \in [Updates -> 0..MaxSessions]
    /\ runs \in [Sessions -> Nat]

\* A claim is exclusive: only a claimed session is executed, and a Done tap that
\* still waits for its rank check is the only claimant of a session not yet run.
ClaimInv ==
    /\ \A s \in Sessions : runs[s] <= 1 /\ (~flushing[s] => runs[s] = 0)
    /\ \A u \in Updates : pos[u] = "done_answer" =>
          own[u] \in Sessions /\ flushing[own[u]] /\ runs[own[u]] = 0
    /\ \A u, v \in Updates :
          pos[u] = "done_answer" /\ pos[v] = "done_answer" /\ own[u] = own[v] => u = v

\* The registered session is looked after, and a session that does not exist
\* yet has no trace.
OwnerInv ==
    /\ \A s \in Sessions : s > made => bound[s] = 0 /\ ~must[s] /\ task[s] = "none"
    /\ \A s \in Sessions : task[s] \in {"write", "fan"} => bound[s] # 0
    /\ registry # 0 =>
          /\ bound[registry] \in {0, registry}
          /\ (must[registry] \/ task[registry] \notin Alive) => Doers(registry) # {}

\* The inductive invariant of proof collection.
SessionInv == SessionShape /\ ClaimInv /\ OwnerInv

\* No session exists at the start.
LEMMA SessionInvInit == SessionInit => SessionInv
<1> SUFFICES ASSUME SessionInit PROVE SessionInv
    OBVIOUS
<1>1. SessionShape
    BY SessionAssumption DEF SessionInit, SessionShape, Sessions, TaskPoints, UpdatePoints
<1>2. ClaimInv
    BY DEF SessionInit, ClaimInv, Sessions
<1>3. OwnerInv
    BY DEF SessionInit, OwnerInv, Sessions
<1> QED BY <1>1, <1>2, <1>3 DEF SessionInv

\* The steps that touch neither sessions, tasks nor claims.
LEMMA QuietSteps ==
    ASSUME SessionInv, NEW u \in Updates, NEW p \in UpdatePoints,
           pos[u] \notin {"done_answer", "done_write", "done_fan"},
           p \notin {"done_answer", "done_write", "done_fan"},
           Move(u, p), UNCHANGED <<registry, made, flushing, task, must, bound, own, runs>>
    PROVE  SessionInv'
<1> USE DEF SessionInv, SessionShape, Move
<1>1. SessionShape'
    OBVIOUS
<1>2. ClaimInv'
    BY DEF ClaimInv
<1>3. \A s \in Sessions : Doers(s)' = Doers(s)
    BY DEF Doers
<1>4. OwnerInv'
    BY <1>3, SessionAssumption DEF OwnerInv, Sessions
<1> QED BY <1>1, <1>2, <1>4

\* cancel() on a flush task only sets a flag.
LEMMA CancelTaskType ==
    ASSUME must \in [Sessions -> BOOLEAN], NEW r, CancelTask(r)
    PROVE  must' \in [Sessions -> BOOLEAN]
<1>1. (task[r] # "done") \in BOOLEAN
    OBVIOUS
<1> QED BY <1>1, Zenon DEF CancelTask

\* _cancel_proof_session keeps the shape of the state.
LEMMA CancelSessionType ==
    ASSUME SessionShape, CancelSession
    PROVE  must' \in [Sessions -> BOOLEAN] /\ registry' = 0
<1>1. CASE registry = 0
    BY <1>1 DEF CancelSession, SessionShape
<1>2. CASE registry # 0
    BY <1>2, CancelTaskType DEF CancelSession, SessionShape
<1> QED BY <1>1, <1>2

\* An update that arrives keeps it: only a free session is claimed.
LEMMA ArriveKeeps ==
    ASSUME SessionInv, NEW u \in Updates, Arrive(u)
    PROVE  SessionInv'
<1>1. CASE RouteEntry(u) \/ RouteContinue(u) \/ RouteCancel(u)
    BY <1>1, QuietSteps DEF RouteEntry, RouteContinue, RouteCancel, Route, UpdatePoints,
        session, tasks, history
<1>2. CASE Nudge(u)
    BY <1>2, QuietSteps DEF Nudge, UpdatePoints, session, tasks, history
<1>3. CASE DoneClaim(u)
    <2> USE <1>3 DEF DoneClaim, Claimable, CancelTask, SessionInv, SessionShape, Move, history
    <2>0. registry \in Sessions
        BY SessionAssumption DEF Sessions
    <2>1. SessionShape'
        <3>1. must' \in [Sessions -> BOOLEAN]
            BY CancelTaskType DEF CancelTask
        <3>2. flushing' \in [Sessions -> BOOLEAN]
            BY <2>0
        <3>3. own' \in [Updates -> 0..MaxSessions] /\ pos' \in [Updates -> UpdatePoints]
            BY <2>0 DEF Sessions, UpdatePoints
        <3>4. UNCHANGED <<made, registry, task, bound, runs>>
            OBVIOUS
        <3> QED BY <3>1, <3>2, <3>3, <3>4
    <2>2. ClaimInv'
        BY <2>0 DEF ClaimInv
    <2>3. u \in Doers(registry)'
        BY <2>0 DEF Doers
    <2>4. OwnerInv'
        BY <2>0, <2>3, SessionAssumption DEF OwnerInv, Sessions
    <2> QED BY <2>1, <2>2, <2>4
<1>4. CASE on_proof_timeout(u)
    <2> USE <1>4 DEF on_proof_timeout, SessionInv, Move
    <2>1. must' \in [Sessions -> BOOLEAN] /\ registry' = 0
        BY CancelSessionType
    <2>2. SessionShape'
        BY <2>1, SessionAssumption DEF SessionShape, UpdatePoints
    <2>3. ClaimInv'
        BY DEF SessionShape, ClaimInv
    <2>4. OwnerInv'
        BY <2>1, SessionAssumption DEF SessionShape, OwnerInv, Sessions, CancelSession, CancelTask
    <2> QED BY <2>2, <2>3, <2>4
<1> QED BY <1>1, <1>2, <1>3, <1>4 DEF Arrive

\* A callback that resumes keeps it: an execution releases its own session.
LEMMA UpdateKeeps ==
    ASSUME SessionInv, NEW u \in Updates, Update(u)
    PROVE  SessionInv'
<1> USE DEF session, tasks, history
<1>1. CASE EntryKeys(u) \/ EntryPrompt(u) \/ ContinueRead(u) \/ ContinuePrompt(u)
    BY <1>1, QuietSteps DEF EntryKeys, EntryPrompt, ContinueRead, ContinuePrompt, UpdatePoints
<1>2. CASE NudgeReturn(u) \/ Close(u)
    BY <1>2, QuietSteps DEF NudgeReturn, Close, UpdatePoints
<1>3. CASE DoneRecheck(u)
    <2> USE <1>3 DEF DoneRecheck, SessionInv, SessionShape, Move
    <2>0. own[u] \in Sessions
        BY DEF ClaimInv
    <2>1. SessionShape'
        BY <2>0 DEF UpdatePoints
    <2>2. ClaimInv'
        BY <2>0 DEF ClaimInv
    <2>3. registry' # 0 => \A v \in Updates : v \in Doers(registry) => v \in Doers(registry)'
        BY DEF Doers
    <2>4. OwnerInv'
        BY <2>3, SessionAssumption DEF OwnerInv, Sessions, Doers
    <2> QED BY <2>1, <2>2, <2>4
<1>4. CASE DoneWrite(u)
    <2> USE <1>4 DEF DoneWrite, SessionInv, SessionShape, Move
    <2>1. SessionShape'
        BY DEF UpdatePoints
    <2>2. ClaimInv'
        BY DEF ClaimInv
    <2>3. \A s \in Sessions : Doers(s)' = Doers(s)
        BY DEF Doers
    <2>4. OwnerInv'
        BY <2>3, SessionAssumption DEF OwnerInv, Sessions
    <2> QED BY <2>1, <2>2, <2>4
<1>5. CASE DoneEnd(u)
    <2> USE <1>5 DEF DoneEnd, Release, SessionInv, SessionShape, Move
    <2>1. SessionShape'
        BY SessionAssumption DEF UpdatePoints
    <2>2. ClaimInv'
        BY DEF ClaimInv
    <2>3. registry' # 0 => \A v \in Updates : v \in Doers(registry) => v \in Doers(registry)'
        BY DEF Doers
    <2>4. OwnerInv'
        BY <2>3, SessionAssumption DEF OwnerInv, Sessions, Doers
    <2> QED BY <2>1, <2>2, <2>4
<1>6. CASE CancelRun(u)
    <2> USE <1>6 DEF CancelRun, SessionInv, Move
    <2>1. must' \in [Sessions -> BOOLEAN] /\ registry' = 0
        BY CancelSessionType
    <2>2. SessionShape'
        BY <2>1, SessionAssumption DEF SessionShape, UpdatePoints
    <2>3. ClaimInv'
        BY DEF SessionShape, ClaimInv
    <2>4. OwnerInv'
        BY <2>1, SessionAssumption DEF SessionShape, OwnerInv, Sessions, CancelSession, CancelTask
    <2> QED BY <2>2, <2>3, <2>4
<1> QED BY <1>1, <1>2, <1>3, <1>4, <1>5, <1>6 DEF Update

\* Collected media keeps it: a new session starts with its flush task.
LEMMA MediaKeeps ==
    ASSUME SessionInv, on_proof_received
    PROVE  SessionInv'
<1> USE DEF on_proof_received, MediaJoins, session, history, SessionInv, SessionShape
<1>0. \A s : Doers(s)' = Doers(s)
    BY DEF Doers
<1>1. SessionShape'
    BY SessionAssumption, SMTT(30) DEF Sessions, TaskPoints
<1>2. ClaimInv'
    BY DEF ClaimInv
<1>3. OwnerInv'
    <2>1. CASE UNCHANGED <<made, registry, task>>
        BY <1>0, <2>1 DEF OwnerInv
    <2>2. CASE made' = made + 1
        <3>1. registry' = made + 1 /\ made + 1 \in Sessions
              /\ task' = [task EXCEPT ![made + 1] = "sleep"] /\ UNCHANGED <<bound, must>>
            BY <2>2, SessionAssumption DEF Sessions
        <3>2. bound[made + 1] = 0 /\ ~must[made + 1] /\ task'[made + 1] = "sleep"
            BY <3>1 DEF OwnerInv
        <3> QED BY <2>2, <3>1, <3>2 DEF OwnerInv, Sessions, Alive
    <2> QED BY <2>1, <2>2
<1> QED BY <1>1, <1>2, <1>3

\* The flush task keeps it: it claims before it executes.
LEMMA FlushKeeps ==
    ASSUME SessionInv, NEW s \in Sessions, Flush(s)
    PROVE  SessionInv'
<1> USE SessionAssumption DEF SessionInv, SessionShape, Sessions, session, history
<1>0. Flush(s) => \A r : Doers(r)' = Doers(r)
    BY DEF Flush, FlushTick, FlushWrite, FlushEnd, FlushCancelled, Doers
<1>1. CASE FlushTick(s)
    <2>1. CASE task'[s] = "done"
        <3> USE <1>1, <2>1 DEF FlushTick, Claimable, Release
        <3>1. UNCHANGED <<flushing, runs, must, pos, own, made>>
              /\ task' = [task EXCEPT ![s] = "done"]
              /\ bound' = [bound EXCEPT ![s] = registry] /\ registry' = 0
            BY DEF TaskPoints
        <3> QED BY <1>0, <3>1 DEF ClaimInv, OwnerInv, Alive, TaskPoints
    <2>2. CASE task'[s] = "sleep"
        <3>1. UNCHANGED <<flushing, runs, must, pos, own, made, task, registry>>
              /\ bound' = [bound EXCEPT ![s] = registry]
            BY <1>1, <2>2 DEF FlushTick
        <3> QED BY <1>0, <1>1, <3>1 DEF ClaimInv, OwnerInv, Alive, FlushTick
    <2>3. CASE task'[s] = "write"
        <3>1. /\ UNCHANGED <<must, pos, own, made, registry>>
              /\ task' = [task EXCEPT ![s] = "write"]
              /\ bound' = [bound EXCEPT ![s] = registry]
              /\ flushing' = [flushing EXCEPT ![registry] = TRUE]
              /\ runs' = [runs EXCEPT ![registry] = @ + 1]
              /\ registry \in Sessions /\ ~flushing[registry]
            BY <1>1, <2>3, SMTT(30) DEF FlushTick, Claimable
        <3>2. SessionShape'
            BY <3>1 DEF TaskPoints
        <3>3. ClaimInv'
            BY <3>1 DEF ClaimInv
        <3>4. OwnerInv'
            BY <1>0, <3>1, <1>1 DEF OwnerInv, Alive, FlushTick
        <3> QED BY <3>2, <3>3, <3>4
    <2> QED BY <1>1, <2>1, <2>2, <2>3 DEF FlushTick
<1>2. CASE FlushWrite(s)
    <2> USE <1>2 DEF FlushWrite
    <2>1. SessionShape'
        BY DEF TaskPoints
    <2>2. ClaimInv'
        BY DEF ClaimInv
    <2>3. OwnerInv'
        BY <1>0 DEF OwnerInv, Alive
    <2> QED BY <2>1, <2>2, <2>3
<1>3. CASE FlushEnd(s)
    <2> USE <1>3 DEF FlushEnd, Release
    <2>1. SessionShape'
        BY DEF TaskPoints
    <2>2. ClaimInv'
        BY DEF ClaimInv
    <2>3. OwnerInv'
        BY <1>0 DEF OwnerInv, Alive
    <2> QED BY <2>1, <2>2, <2>3
<1>4. CASE FlushCancelled(s)
    <2> USE <1>4 DEF FlushCancelled, Release
    <2>1. SessionShape'
        BY DEF TaskPoints
    <2>2. ClaimInv'
        BY DEF ClaimInv
    <2>3. OwnerInv'
        BY <1>0 DEF OwnerInv, Alive
    <2> QED BY <2>1, <2>2, <2>3
<1> QED BY <1>1, <1>2, <1>3, <1>4 DEF Flush

\* Every step keeps it.
LEMMA SessionInvNext == SessionInv /\ [SessionNext]_sessionVars => SessionInv'
<1> SUFFICES ASSUME SessionInv, [SessionNext]_sessionVars PROVE SessionInv'
    OBVIOUS
<1>1. CASE UNCHANGED sessionVars
    BY <1>1 DEF sessionVars, session, tasks, history, SessionInv, SessionShape, ClaimInv, OwnerInv, Doers
<1>2. ASSUME NEW u \in Updates, Arrive(u) \/ Update(u) PROVE SessionInv'
    BY <1>2, ArriveKeeps, UpdateKeeps
<1>3. CASE on_proof_received
    BY <1>3, MediaKeeps
<1>4. ASSUME NEW s \in Sessions, Flush(s) PROVE SessionInv'
    BY <1>4, FlushKeeps
<1> QED BY <1>1, <1>2, <1>3, <1>4 DEF SessionNext

\* Claims stay exclusive and the registered session stays looked after, whatever
\* taps, media, commands and flush tasks do between their awaits.
THEOREM SessionInvHolds == SessionSpec => []SessionInv
BY SessionInvInit, SessionInvNext, PTL DEF SessionSpec

\* However taps, ticks, cancels and commands interleave, no proof session is
\* executed twice.
THEOREM NoDoubleExecution == SessionSpec => []ExecutedOnce
<1>1. SessionInv => ExecutedOnce
    BY DEF SessionInv, ClaimInv, ExecutedOnce
<1> QED BY <1>1, SessionInvHolds, PTL

\* A registered session always has a task or a Done tap left to resolve it.
THEOREM NoOrphanSession == SessionSpec => []SessionHasOwner
<1>1. SessionInv => SessionHasOwner
    BY DEF SessionInv, OwnerInv, SessionHasOwner, Alive
<1> QED BY <1>1, SessionInvHolds, PTL

(***************************************************************************)
(* Warnings: types, and what a step of one handler leaves alone             *)
(***************************************************************************)
\* The types the arguments need.
WarnTypes ==
    /\ hist \in [Chats -> SUBSET Nat] /\ count \in [Chats -> {NoDoc} \cup Nat]
    /\ next \in Nat /\ faults \in 0..MaxFaults
    /\ kind \in [Handlers -> AllKinds] /\ pc \in [Handlers -> Points]
    /\ chat \in [Handlers -> Chats] /\ got \in [Handlers -> Nat]
    /\ doc \in [Handlers -> Nat] /\ tries \in [Handlers -> Nat]
    /\ par \in [Handlers -> SUBSET {"delete", "dec", "warns", "counts"}]
    /\ bad \in [Handlers -> SUBSET {"delete", "dec", "gone", "warns", "counts"}]
    /\ outcome \in [Handlers -> Outcomes]

\* Every record has its own id, below the next one, in one chat.
Distinct ==
    /\ \A c \in Chats : IsFiniteSet(hist[c]) /\ \A i \in hist[c] : i < next
    /\ \A c, d \in Chats : c # d => hist[c] \cap hist[d] = {}

\* The records of a chat.
Size(c) == Cardinality(hist[c])

\* The size of a history is a number.
LEMMA Sizes ==
    ASSUME WarnTypes, Distinct, NEW c \in Chats
    PROVE  Size(c) \in Nat /\ Counted(c) \in Nat
<1>1. Size(c) \in Nat
    BY FS_CardinalityType DEF Distinct, Size
<1>2. Counted(c) \in Nat
    BY DEF WarnTypes, Counted
<1> QED BY <1>1, <1>2

\* Nothing runs at the start.
LEMMA WarnTypesInit == Init => WarnTypes /\ Distinct
<1> SUFFICES ASSUME Init PROVE WarnTypes /\ Distinct
    OBVIOUS
<1>1. WarnTypes
    BY BoundAssumption, ChatAssumption DEF Init, WarnTypes, AllKinds, Points, Outcomes, NoDoc
<1>2. \A c \in Chats : IsFiniteSet(hist[c])
    <2>1. \A c \in Chats : hist[c] = {} \/ hist[c] = {1}
        BY DEF Init
    <2>2. IsFiniteSet({}) /\ IsFiniteSet({1})
        BY FS_EmptySet, FS_Singleton
    <2> QED BY <2>1, <2>2
<1>3. \A c \in Chats : \A i \in hist[c] : c = Old /\ i = 1
    BY DEF Init
<1>4. (\E i \in hist[Old] : TRUE) => next = 2
    BY DEF Init
<1> QED BY <1>1, <1>2, <1>3, <1>4 DEF Distinct

\* A step of h is no step of g.
WarnRests(h, g) ==
    /\ UNCHANGED <<moved, kind, chat, overlap>>
    /\ g # h => /\ pc'[g] = pc[g] /\ got'[g] = got[g] /\ doc'[g] = doc[g] /\ par'[g] = par[g]
                /\ bad'[g] = bad[g] /\ tries'[g] = tries[g] /\ outcome'[g] = outcome[g]

\* Every step of a handler is its own.
LEMMA WarnOthersRest ==
    ASSUME WarnTypes, NEW h \in Handlers, Step(h), NEW g \in Handlers
    PROVE  WarnRests(h, g)
<1> USE DEF WarnTypes, WarnRests, Frame, control, locals, Goto, End
<1>1. ASSUME WarnInsert(h) PROVE WarnRests(h, g)
    BY <1>1 DEF WarnInsert
<1>2. ASSUME WarnInc(h) PROVE WarnRests(h, g)
    BY <1>2 DEF WarnInc, Check, SetCount, Forget
<1>3. ASSUME WarnIncNew(h) PROVE WarnRests(h, g)
    BY <1>3 DEF WarnIncNew, Check, SetCount, Forget
<1>4. ASSUME WarnRollback(h) PROVE WarnRests(h, g)
    BY <1>4 DEF WarnRollback
<1>5. ASSUME WarnFed(h) PROVE WarnRests(h, g)
    BY <1>5 DEF WarnFed
<1>6. ASSUME WarnAutoBan(h) PROVE WarnRests(h, g)
    BY <1>6 DEF WarnAutoBan
<1>7. ASSUME SyncRead(h) PROVE WarnRests(h, g)
    BY <1>7 DEF SyncRead, Synced, SyncFails, Got
<1>8. ASSUME SyncCount(h) PROVE WarnRests(h, g)
    BY <1>8 DEF SyncCount, Synced, SyncFails, Got
<1>9. ASSUME SyncBackfill(h) PROVE WarnRests(h, g)
    BY <1>9 DEF SyncBackfill, Synced, SyncFails, Got, SetCount
<1>10. ASSUME UnwarnFind(h) PROVE WarnRests(h, g)
    BY <1>10 DEF UnwarnFind
<1>11. ASSUME NEW a \in {"delete", "dec"}, UnwarnCall(h, a) PROVE WarnRests(h, g)
    BY <1>11 DEF UnwarnCall, SetCount
<1>12. ASSUME UnwarnJoin(h) PROVE WarnRests(h, g)
    BY <1>12 DEF UnwarnJoin
<1>13. ASSUME Recount(h) PROVE WarnRests(h, g)
    BY <1>13 DEF Recount, Got
<1>14. ASSUME StoreCount(h) PROVE WarnRests(h, g)
    BY <1>14 DEF StoreCount, SetCount, Got
<1>15. ASSUME NEW a \in {"warns", "counts"}, ClearCall(h, a) PROVE WarnRests(h, g)
    BY <1>15 DEF ClearCall
<1>16. ASSUME ClearJoin(h) PROVE WarnRests(h, g)
    BY <1>16 DEF ClearJoin
<1>17. ASSUME ClearAgain(h) PROVE WarnRests(h, g)
    BY <1>17 DEF ClearAgain
<1>18. ASSUME WarnList(h) PROVE WarnRests(h, g)
    BY <1>18 DEF WarnList
<1>19. ASSUME MigrateRepoint(h) PROVE WarnRests(h, g)
    BY <1>19 DEF MigrateRepoint
<1>20. ASSUME MigrateRead(h) PROVE WarnRests(h, g)
    BY <1>20 DEF MigrateRead, Got
<1>21. ASSUME MigrateTake(h) PROVE WarnRests(h, g)
    BY <1>21 DEF MigrateTake, SetCount
<1>22. ASSUME MigrateMerge(h) PROVE WarnRests(h, g)
    BY <1>22 DEF MigrateMerge, SetCount
<1>23. ASSUME MigrateMergeNew(h) PROVE WarnRests(h, g)
    BY <1>23 DEF MigrateMergeNew, SetCount
<1>24. ASSUME MigrateSweep(h) PROVE WarnRests(h, g)
    BY <1>24 DEF MigrateSweep, SetCount, Got
<1>25. ASSUME ExpireCutoff(h) PROVE WarnRests(h, g)
    BY <1>25 DEF ExpireCutoff, Got
<1>26. ASSUME NEW a \in {"warns", "counts"}, ExpireCall(h, a) PROVE WarnRests(h, g)
    BY <1>26 DEF ExpireCall
<1>27. ASSUME ExpireEnd(h) PROVE WarnRests(h, g)
    BY <1>27 DEF ExpireEnd, Got
<1> QED BY <1>1, <1>2, <1>3, <1>4, <1>5, <1>6, <1>7, <1>8, <1>9, <1>10, <1>11, <1>12, <1>13,
           <1>14, <1>15, <1>16, <1>17, <1>18, <1>19, <1>20, <1>21, <1>22, <1>23, <1>24, <1>25,
           <1>26, <1>27 DEF Step

\* A handler that steps has been started and is not over.
LEMMA WarnRunning ==
    ASSUME WarnTypes, NEW h \in Handlers, Step(h)
    PROVE  pc[h] \notin {"idle", "done"} /\ pc'[h] # "idle"
<1> USE DEF WarnTypes, Goto, End
<1>1. ASSUME WarnInsert(h) PROVE pc[h] \notin {"idle", "done"} /\ pc'[h] # "idle"
    BY <1>1 DEF WarnInsert
<1>2. ASSUME WarnInc(h) PROVE pc[h] \notin {"idle", "done"} /\ pc'[h] # "idle"
    BY <1>2 DEF WarnInc, Check, SetCount, Forget
<1>3. ASSUME WarnIncNew(h) PROVE pc[h] \notin {"idle", "done"} /\ pc'[h] # "idle"
    BY <1>3 DEF WarnIncNew, Check, SetCount, Forget
<1>4. ASSUME WarnRollback(h) PROVE pc[h] \notin {"idle", "done"} /\ pc'[h] # "idle"
    BY <1>4 DEF WarnRollback
<1>5. ASSUME WarnFed(h) PROVE pc[h] \notin {"idle", "done"} /\ pc'[h] # "idle"
    BY <1>5 DEF WarnFed
<1>6. ASSUME WarnAutoBan(h) PROVE pc[h] \notin {"idle", "done"} /\ pc'[h] # "idle"
    BY <1>6 DEF WarnAutoBan
<1>7. ASSUME SyncRead(h) PROVE pc[h] \notin {"idle", "done"} /\ pc'[h] # "idle"
    BY <1>7 DEF SyncRead, Synced, SyncFails, Got
<1>8. ASSUME SyncCount(h) PROVE pc[h] \notin {"idle", "done"} /\ pc'[h] # "idle"
    BY <1>8 DEF SyncCount, Synced, SyncFails, Got
<1>9. ASSUME SyncBackfill(h) PROVE pc[h] \notin {"idle", "done"} /\ pc'[h] # "idle"
    BY <1>9 DEF SyncBackfill, Synced, SyncFails, Got, SetCount
<1>10. ASSUME UnwarnFind(h) PROVE pc[h] \notin {"idle", "done"} /\ pc'[h] # "idle"
    BY <1>10 DEF UnwarnFind
<1>11. ASSUME NEW a \in {"delete", "dec"}, UnwarnCall(h, a) PROVE pc[h] \notin {"idle", "done"} /\ pc'[h] # "idle"
    BY <1>11 DEF UnwarnCall, SetCount
<1>12. ASSUME UnwarnJoin(h) PROVE pc[h] \notin {"idle", "done"} /\ pc'[h] # "idle"
    BY <1>12 DEF UnwarnJoin
<1>13. ASSUME Recount(h) PROVE pc[h] \notin {"idle", "done"} /\ pc'[h] # "idle"
    BY <1>13 DEF Recount, Got
<1>14. ASSUME StoreCount(h) PROVE pc[h] \notin {"idle", "done"} /\ pc'[h] # "idle"
    BY <1>14 DEF StoreCount, SetCount, Got
<1>15. ASSUME NEW a \in {"warns", "counts"}, ClearCall(h, a) PROVE pc[h] \notin {"idle", "done"} /\ pc'[h] # "idle"
    BY <1>15 DEF ClearCall
<1>16. ASSUME ClearJoin(h) PROVE pc[h] \notin {"idle", "done"} /\ pc'[h] # "idle"
    BY <1>16 DEF ClearJoin
<1>17. ASSUME ClearAgain(h) PROVE pc[h] \notin {"idle", "done"} /\ pc'[h] # "idle"
    BY <1>17 DEF ClearAgain
<1>18. ASSUME WarnList(h) PROVE pc[h] \notin {"idle", "done"} /\ pc'[h] # "idle"
    BY <1>18 DEF WarnList
<1>19. ASSUME MigrateRepoint(h) PROVE pc[h] \notin {"idle", "done"} /\ pc'[h] # "idle"
    BY <1>19 DEF MigrateRepoint
<1>20. ASSUME MigrateRead(h) PROVE pc[h] \notin {"idle", "done"} /\ pc'[h] # "idle"
    BY <1>20 DEF MigrateRead, Got
<1>21. ASSUME MigrateTake(h) PROVE pc[h] \notin {"idle", "done"} /\ pc'[h] # "idle"
    BY <1>21 DEF MigrateTake, SetCount
<1>22. ASSUME MigrateMerge(h) PROVE pc[h] \notin {"idle", "done"} /\ pc'[h] # "idle"
    BY <1>22 DEF MigrateMerge, SetCount
<1>23. ASSUME MigrateMergeNew(h) PROVE pc[h] \notin {"idle", "done"} /\ pc'[h] # "idle"
    BY <1>23 DEF MigrateMergeNew, SetCount
<1>24. ASSUME MigrateSweep(h) PROVE pc[h] \notin {"idle", "done"} /\ pc'[h] # "idle"
    BY <1>24 DEF MigrateSweep, SetCount, Got
<1>25. ASSUME ExpireCutoff(h) PROVE pc[h] \notin {"idle", "done"} /\ pc'[h] # "idle"
    BY <1>25 DEF ExpireCutoff, Got
<1>26. ASSUME NEW a \in {"warns", "counts"}, ExpireCall(h, a) PROVE pc[h] \notin {"idle", "done"} /\ pc'[h] # "idle"
    BY <1>26 DEF ExpireCall
<1>27. ASSUME ExpireEnd(h) PROVE pc[h] \notin {"idle", "done"} /\ pc'[h] # "idle"
    BY <1>27 DEF ExpireEnd, Got
<1> QED BY <1>1, <1>2, <1>3, <1>4, <1>5, <1>6, <1>7, <1>8, <1>9, <1>10, <1>11, <1>12, <1>13,
           <1>14, <1>15, <1>16, <1>17, <1>18, <1>19, <1>20, <1>21, <1>22, <1>23, <1>24, <1>25,
           <1>26, <1>27 DEF Step

\* A step of a handler keeps the types.
LEMMA WarnStepTypes ==
    ASSUME WarnTypes, Distinct, NEW h \in Handlers, Step(h)
    PROVE  WarnTypes'
<1> USE DEF WarnTypes, stores, Frame, control, locals, Goto, End, Fault, Works, Points, Outcomes, NoDoc
<1>1. ASSUME WarnInsert(h) PROVE WarnTypes'
    BY <1>1, BoundAssumption, ChatAssumption DEF WarnInsert
<1>2. ASSUME WarnInc(h) PROVE WarnTypes'
    BY <1>2, BoundAssumption, ChatAssumption DEF WarnInc, Check, SetCount, Forget
<1>3. ASSUME WarnIncNew(h) PROVE WarnTypes'
    BY <1>3, BoundAssumption, ChatAssumption DEF WarnIncNew, Check, SetCount, Forget
<1>4. ASSUME WarnRollback(h) PROVE WarnTypes'
    BY <1>4, BoundAssumption, ChatAssumption DEF WarnRollback
<1>5. ASSUME WarnFed(h) PROVE WarnTypes'
    BY <1>5, BoundAssumption, ChatAssumption DEF WarnFed
<1>6. ASSUME WarnAutoBan(h) PROVE WarnTypes'
    BY <1>6, BoundAssumption, ChatAssumption DEF WarnAutoBan
<1>7. ASSUME SyncRead(h) PROVE WarnTypes'
    BY <1>7, BoundAssumption, ChatAssumption DEF SyncRead, Synced, SyncFails, Got
<1>8. ASSUME SyncCount(h) PROVE WarnTypes'
    <2>1. Cardinality(hist[chat[h]]) \in Nat
        BY Sizes DEF Size
    <2> QED BY <1>8, <2>1, BoundAssumption DEF SyncCount, Synced, SyncFails, Got
<1>9. ASSUME SyncBackfill(h) PROVE WarnTypes'
    BY <1>9, BoundAssumption, ChatAssumption DEF SyncBackfill, Synced, SyncFails, Got, SetCount
<1>10. ASSUME UnwarnFind(h) PROVE WarnTypes'
    BY <1>10, BoundAssumption, ChatAssumption DEF UnwarnFind
<1>11. ASSUME NEW a \in {"delete", "dec"}, UnwarnCall(h, a) PROVE WarnTypes'
    BY <1>11, BoundAssumption, ChatAssumption DEF UnwarnCall, SetCount, Counted
<1>12. ASSUME UnwarnJoin(h) PROVE WarnTypes'
    BY <1>12, BoundAssumption, ChatAssumption DEF UnwarnJoin
<1>13. ASSUME Recount(h) PROVE WarnTypes'
    <2>1. got' \in [Handlers -> Nat]
        BY <1>13, Sizes DEF Recount, Got, Size
    <2> QED BY <1>13, <2>1, BoundAssumption DEF Recount
<1>14. ASSUME StoreCount(h) PROVE WarnTypes'
    BY <1>14, BoundAssumption, ChatAssumption DEF StoreCount, SetCount, Got
<1>15. ASSUME NEW a \in {"warns", "counts"}, ClearCall(h, a) PROVE WarnTypes'
    BY <1>15, BoundAssumption, ChatAssumption DEF ClearCall
<1>16. ASSUME ClearJoin(h) PROVE WarnTypes'
    BY <1>16, BoundAssumption, ChatAssumption DEF ClearJoin, Cleared
<1>17. ASSUME ClearAgain(h) PROVE WarnTypes'
    BY <1>17, BoundAssumption, ChatAssumption DEF ClearAgain
<1>18. ASSUME WarnList(h) PROVE WarnTypes'
    BY <1>18, BoundAssumption, ChatAssumption DEF WarnList
<1>19. ASSUME MigrateRepoint(h) PROVE WarnTypes'
    BY <1>19, BoundAssumption, ChatAssumption DEF MigrateRepoint
<1>20. ASSUME MigrateRead(h) PROVE WarnTypes'
    <2>1. Counted(Old) \in Nat
        BY Sizes, ChatAssumption
    <2> QED BY <1>20, <2>1, BoundAssumption DEF MigrateRead, Got
<1>21. ASSUME MigrateTake(h) PROVE WarnTypes'
    BY <1>21, BoundAssumption, ChatAssumption DEF MigrateTake, SetCount
<1>22. ASSUME MigrateMerge(h) PROVE WarnTypes'
    BY <1>22, BoundAssumption, ChatAssumption DEF MigrateMerge, SetCount
<1>23. ASSUME MigrateMergeNew(h) PROVE WarnTypes'
    BY <1>23, BoundAssumption, ChatAssumption DEF MigrateMergeNew, SetCount
<1>24. ASSUME MigrateSweep(h) PROVE WarnTypes'
    BY <1>24, BoundAssumption, ChatAssumption DEF MigrateSweep, SetCount, Got
<1>25. ASSUME ExpireCutoff(h) PROVE WarnTypes'
    BY <1>25, BoundAssumption, ChatAssumption DEF ExpireCutoff, Got
<1>26. ASSUME NEW a \in {"warns", "counts"}, ExpireCall(h, a) PROVE WarnTypes'
    BY <1>26, BoundAssumption, ChatAssumption DEF ExpireCall
<1>27. ASSUME ExpireEnd(h) PROVE WarnTypes'
    BY <1>27, BoundAssumption, ChatAssumption DEF ExpireEnd, Got
<1> QED BY <1>1, <1>2, <1>3, <1>4, <1>5, <1>6, <1>7, <1>8, <1>9, <1>10, <1>11, <1>12, <1>13,
           <1>14, <1>15, <1>16, <1>17, <1>18, <1>19, <1>20, <1>21, <1>22, <1>23, <1>24, <1>25,
           <1>26, <1>27 DEF Step

\* A record is filed under its chat.
LEMMA Filed ==
    ASSUME NEW f, NEW g, DOMAIN f = Chats, NEW c \in Chats, NEW i, g = [f EXCEPT ![c] = @ \cup {i}]
    PROVE  g[c] = f[c] \cup {i} /\ \A d \in Chats \ {c} : g[d] = f[d]
OBVIOUS

\* The records of the old chat go to the new one.
LEMMA Repointed ==
    ASSUME NEW f, NEW g, DOMAIN f = Chats, g = [f EXCEPT ![New] = @ \cup f[Old], ![Old] = {}]
    PROVE  /\ g[Old] = {} /\ g[New] = f[New] \cup f[Old]
           /\ \A c \in Chats \ {Old, New} : g[c] = f[c]
<1>1. g[Old] = {}
    BY ChatAssumption
<1>2. g[New] = f[New] \cup f[Old]
    BY ChatAssumption
<1>3. \A c \in Chats \ {Old, New} : g[c] = f[c]
    BY ChatAssumption
<1> QED BY <1>1, <1>2, <1>3

\* Records that only go stay distinct.
LEMMA DistinctShrinks ==
    ASSUME Distinct, next' = next, \A c \in Chats : hist'[c] \subseteq hist[c]
    PROVE  Distinct'
<1>1. \A c \in Chats : IsFiniteSet(hist'[c])
    BY FS_Subset DEF Distinct
<1>2. \A c \in Chats : \A i \in hist'[c] : i < next'
    BY DEF Distinct
<1>3. \A c, d \in Chats : c # d => hist'[c] \cap hist'[d] = {}
    BY DEF Distinct
<1> QED BY <1>1, <1>2, <1>3 DEF Distinct

\* A step of a handler keeps records distinct.
LEMMA DistinctStep ==
    ASSUME WarnTypes, Distinct, NEW h \in Handlers, Step(h)
    PROVE  Distinct'
<1> USE DEF WarnTypes, stores, Fault
<1>1. ASSUME UNCHANGED stores \/ UNCHANGED <<hist, next>> PROVE Distinct'
    BY <1>1 DEF Distinct
<1>2. ASSUME WarnInsert(h) PROVE Distinct'
    <2>1. CASE UNCHANGED stores
        BY <1>1, <2>1
    <2>2. CASE hist' = [hist EXCEPT ![chat[h]] = @ \cup {next}] /\ next' = next + 1
        <3>0. DOMAIN hist = Chats /\ chat[h] \in Chats /\ next \in Nat
            OBVIOUS
        <3>1. /\ hist'[chat[h]] = hist[chat[h]] \cup {next}
              /\ \A d \in Chats \ {chat[h]} : hist'[d] = hist[d]
            BY <2>2, <3>0, Filed
        <3> HIDE DEF WarnTypes
        <3>2. \A c \in Chats : IsFiniteSet(hist'[c])
            <4>1. \A c \in Chats : IsFiniteSet(hist[c])
                BY DEF Distinct
            <4>2. IsFiniteSet(hist[chat[h]] \cup {next})
                BY <3>0, <4>1, FS_AddElement
            <4> QED BY <3>1, <4>1, <4>2
        <3>3. \A c \in Chats : \A i \in hist[c] : i \in Nat /\ i < next
            BY DEF WarnTypes, Distinct
        <3>4. \A c \in Chats : \A i \in hist'[c] : i < next'
            BY <2>2, <3>0, <3>1, <3>3
        <3>5. \A c \in Chats : next \notin hist[c]
            BY <3>0, <3>3
        <3>6. \A c, d \in Chats : c # d => hist'[c] \cap hist'[d] = {}
            BY <3>0, <3>1, <3>5 DEF Distinct
        <3> QED BY <3>2, <3>4, <3>6 DEF Distinct
    <2> QED BY <1>2, <2>1, <2>2 DEF WarnInsert, Fault
<1>3. ASSUME WarnInc(h) PROVE Distinct'
    BY <1>3, <1>1 DEF WarnInc, Check, SetCount, Forget
<1>4. ASSUME WarnIncNew(h) PROVE Distinct'
    BY <1>4, <1>1 DEF WarnIncNew, Check, SetCount, Forget
<1>5. ASSUME WarnRollback(h) PROVE Distinct'
    <2>1. next' = next /\ \A c \in Chats : hist'[c] \subseteq hist[c]
        BY <1>5 DEF WarnRollback
    <2> QED BY <2>1, DistinctShrinks
<1>6. ASSUME WarnFed(h) PROVE Distinct'
    BY <1>6, <1>1 DEF WarnFed
<1>7. ASSUME WarnAutoBan(h) PROVE Distinct'
    BY <1>7, <1>1 DEF WarnAutoBan
<1>8. ASSUME SyncRead(h) PROVE Distinct'
    BY <1>8, <1>1 DEF SyncRead, Synced, SyncFails, Got
<1>9. ASSUME SyncCount(h) PROVE Distinct'
    BY <1>9, <1>1 DEF SyncCount, Synced, SyncFails, Got
<1>10. ASSUME SyncBackfill(h) PROVE Distinct'
    BY <1>10, <1>1 DEF SyncBackfill, Synced, SyncFails, Got, SetCount
<1>11. ASSUME UnwarnFind(h) PROVE Distinct'
    BY <1>11, <1>1 DEF UnwarnFind
<1>12. ASSUME NEW a \in {"delete", "dec"}, UnwarnCall(h, a) PROVE Distinct'
    <2>1. next' = next /\ \A c \in Chats : hist'[c] \subseteq hist[c]
        BY <1>12 DEF UnwarnCall, SetCount
    <2> QED BY <2>1, DistinctShrinks
<1>13. ASSUME UnwarnJoin(h) PROVE Distinct'
    BY <1>13, <1>1 DEF UnwarnJoin
<1>14. ASSUME Recount(h) PROVE Distinct'
    BY <1>14, <1>1 DEF Recount, Got
<1>15. ASSUME StoreCount(h) PROVE Distinct'
    BY <1>15, <1>1 DEF StoreCount, SetCount, Got
<1>16. ASSUME NEW a \in {"warns", "counts"}, ClearCall(h, a) PROVE Distinct'
    <2>1. next' = next /\ \A c \in Chats : hist'[c] \subseteq hist[c]
        BY <1>16 DEF ClearCall
    <2> QED BY <2>1, DistinctShrinks
<1>17. ASSUME ClearJoin(h) PROVE Distinct'
    BY <1>17, <1>1 DEF ClearJoin
<1>18. ASSUME ClearAgain(h) PROVE Distinct'
    BY <1>18, <1>1 DEF ClearAgain
<1>19. ASSUME WarnList(h) PROVE Distinct'
    BY <1>19, <1>1 DEF WarnList
<1>20. ASSUME MigrateRepoint(h) PROVE Distinct'
    <2>1. CASE UNCHANGED stores
        BY <1>1, <2>1
    <2>2. CASE hist' = [hist EXCEPT ![New] = @ \cup hist[Old], ![Old] = {}] /\ next' = next
        <3>0. DOMAIN hist = Chats /\ Old \in Chats /\ New \in Chats
            BY ChatAssumption
        <3>1. /\ hist'[Old] = {} /\ hist'[New] = hist[New] \cup hist[Old]
              /\ \A c \in Chats \ {Old, New} : hist'[c] = hist[c]
            BY <2>2, <3>0, Repointed
        <3> HIDE DEF WarnTypes
        <3>2. IsFiniteSet(hist[New] \cup hist[Old])
            BY <3>0, FS_Union DEF Distinct
        <3>3. \A c \in Chats : IsFiniteSet(hist'[c])
            BY <3>0, <3>1, <3>2, FS_EmptySet DEF Distinct
        <3>4. \A c \in Chats : \A i \in hist'[c] : i < next'
            BY <2>2, <3>0, <3>1 DEF Distinct
        <3>5. \A c, d \in Chats : c # d => hist'[c] \cap hist'[d] = {}
            BY <3>0, <3>1 DEF Distinct
        <3> QED BY <3>3, <3>4, <3>5 DEF Distinct
    <2> QED BY <1>20, <2>1, <2>2 DEF MigrateRepoint, Fault
<1>21. ASSUME MigrateRead(h) PROVE Distinct'
    BY <1>21, <1>1 DEF MigrateRead, Got
<1>22. ASSUME MigrateTake(h) PROVE Distinct'
    BY <1>22, <1>1 DEF MigrateTake, SetCount
<1>23. ASSUME MigrateMerge(h) PROVE Distinct'
    BY <1>23, <1>1 DEF MigrateMerge, SetCount
<1>24. ASSUME MigrateMergeNew(h) PROVE Distinct'
    BY <1>24, <1>1 DEF MigrateMergeNew, SetCount
<1>25. ASSUME MigrateSweep(h) PROVE Distinct'
    BY <1>25, <1>1 DEF MigrateSweep, SetCount, Got
<1>26. ASSUME ExpireCutoff(h) PROVE Distinct'
    BY <1>26, <1>1 DEF ExpireCutoff, Got
<1>27. ASSUME NEW a \in {"warns", "counts"}, ExpireCall(h, a) PROVE Distinct'
    <2>1. next' = next /\ \A c \in Chats : hist'[c] \subseteq hist[c]
        BY <1>27 DEF ExpireCall
    <2> QED BY <2>1, DistinctShrinks
<1>28. ASSUME ExpireEnd(h) PROVE Distinct'
    BY <1>28, <1>1 DEF ExpireEnd, Got
<1> QED BY <1>2, <1>3, <1>4, <1>5, <1>6, <1>7, <1>8, <1>9, <1>10, <1>11, <1>12, <1>13, <1>14,
           <1>15, <1>16, <1>17, <1>18, <1>19, <1>20, <1>21, <1>22, <1>23, <1>24, <1>25, <1>26,
           <1>27, <1>28 DEF Step

\* A handler starts where its operation begins, and nothing else happens.
Begins(h) ==
    /\ pc[h] = "idle" /\ UNCHANGED <<hist, count, next, moved, faults, got, doc, bad, tries, outcome>>
    /\ overlap' = (overlap \/ Busy # {})
    /\ <<kind'[h], pc'[h]>> \in {<<"warn", "insert">>, <<"unwarn", "sync">>, <<"reset", "clear_par">>,
                                 <<"list", "list">>, <<"migrate", "repoint">>, <<"expire", "expire">>}
    /\ par'[h] = IF pc'[h] = "clear_par" THEN {"warns", "counts"} ELSE {}
    /\ \A g \in Handlers : g # h => /\ pc'[g] = pc[g] /\ kind'[g] = kind[g] /\ chat'[g] = chat[g]
                                    /\ par'[g] = par[g]

\* Every operation begins so.
LEMMA DispatchBegins ==
    ASSUME WarnTypes, NEW h \in Handlers, Dispatch(h)
    PROVE  Begins(h) /\ WarnTypes'
<1> USE ChatAssumption DEF WarnTypes, Begins, Start, stores, AllKinds, Points
<1>1. ASSUME NEW c \in Chats, _exec_warn(h, c) PROVE Begins(h) /\ WarnTypes'
    BY <1>1 DEF _exec_warn
<1>2. ASSUME NEW c \in Chats, cmd_unwarn(h, c) PROVE Begins(h) /\ WarnTypes'
    BY <1>2 DEF cmd_unwarn
<1>3. ASSUME NEW c \in Chats, cmd_resetwarns(h, c) PROVE Begins(h) /\ WarnTypes'
    BY <1>3 DEF cmd_resetwarns
<1>4. ASSUME NEW c \in Chats, cmd_warnlist(h, c) PROVE Begins(h) /\ WarnTypes'
    BY <1>4 DEF cmd_warnlist
<1>5. ASSUME on_chat_migration(h) PROVE Begins(h) /\ WarnTypes'
    BY <1>5 DEF on_chat_migration
<1>6. ASSUME expire_old_warns(h) PROVE Begins(h) /\ WarnTypes'
    BY <1>6 DEF expire_old_warns
<1> QED BY <1>1, <1>2, <1>3, <1>4, <1>5, <1>6 DEF Dispatch

\* Every step keeps the types and the records distinct.
LEMMA WarnTypesNext == WarnTypes /\ Distinct /\ [Next]_vars => WarnTypes' /\ Distinct'
<1> SUFFICES ASSUME WarnTypes, Distinct, [Next]_vars PROVE WarnTypes' /\ Distinct'
    OBVIOUS
<1>1. CASE UNCHANGED vars \/ Migrate \/ Terminated
    BY <1>1 DEF vars, Migrate, Terminated, WarnTypes, Distinct, stores, control, locals
<1>2. CASE Crash
    BY <1>2, BoundAssumption DEF Crash, Fault, WarnTypes, Distinct, stores, control, locals, Frame, Points, Outcomes
<1>3. ASSUME NEW h \in Handlers, Dispatch(h) PROVE WarnTypes' /\ Distinct'
    BY <1>3, DispatchBegins DEF Begins, Distinct
<1>4. ASSUME NEW h \in Handlers, Step(h) PROVE WarnTypes' /\ Distinct'
    BY <1>4, WarnStepTypes, DistinctStep
<1> QED BY <1>1, <1>2, <1>3, <1>4 DEF Next

\* Which operation may be where; a handler reports when it ends, and has nothing
\* to repair when it begins.
Way ==
    \A h \in Handlers :
        /\ pc[h] = "idle" => tries[h] = 0
        /\ pc[h] \in {"idle", "insert", "inc", "inc_new", "rollback", "fed", "autoban"} => bad[h] = {}
        /\ pc[h] # "done" => outcome[h] = "none"
        /\ pc[h] \in {"insert", "inc", "inc_new", "rollback", "fed", "autoban", "clear_again"} =>
               kind[h] = "warn"
        /\ pc[h] = "clear_par" => kind[h] \in {"warn", "reset"}
        /\ pc[h] \in {"sync", "sync_count", "sync_fill", "find", "unwarn_par", "recount", "store"} =>
               kind[h] = "unwarn"
        /\ pc[h] \in {"clear_count", "clear_store"} => kind[h] = "reset"
        /\ pc[h] = "list" => kind[h] = "list"
        /\ pc[h] \in {"repoint", "counters", "take", "merge", "merge_new", "sweep"} => kind[h] = "migrate"
        /\ pc[h] \in {"expire", "expire_par"} => kind[h] = "expire"

\* How one step moves a handler's control point.
Moves(h) ==
    /\ pc'[h] # "done" => outcome'[h] = outcome[h]
    /\ pc'[h] \in {"insert", "inc", "inc_new", "rollback", "fed", "autoban", "clear_again"} =>
           \/ pc[h] \in {"insert", "inc", "inc_new", "rollback", "fed", "autoban", "clear_again"}
           \/ pc[h] = "clear_par" /\ kind[h] = "warn"
    /\ pc'[h] \in {"insert", "inc", "inc_new", "rollback", "fed", "autoban"} =>
           pc[h] \in {"insert", "inc", "inc_new", "rollback", "fed", "autoban"} /\ bad'[h] = bad[h]
    /\ pc'[h] = "clear_par" => pc[h] \in {"autoban", "clear_par"}
    /\ pc'[h] \in {"sync", "sync_count", "sync_fill", "find", "unwarn_par", "recount", "store"} =>
           pc[h] \in {"sync", "sync_count", "sync_fill", "find", "unwarn_par", "recount", "store"}
    /\ pc'[h] \in {"clear_count", "clear_store"} =>
           \/ pc[h] \in {"clear_count", "clear_store"}
           \/ pc[h] = "clear_par" /\ kind[h] # "warn"
    /\ pc'[h] # "list"
    /\ pc'[h] \in {"repoint", "counters", "take", "merge", "merge_new", "sweep"} =>
           pc[h] \in {"repoint", "counters", "take", "merge", "merge_new", "sweep"}
    /\ pc'[h] \in {"expire", "expire_par"} => pc[h] \in {"expire", "expire_par"}
    /\ pc[h] \in {"clear_par", "clear_again"} /\ kind[h] = "warn" =>
           pc'[h] \in {"clear_par", "clear_again"} \/ outcome'[h] = "banned"

\* Every step moves so.
LEMMA StepMoves ==
    ASSUME WarnTypes, NEW h \in Handlers, Step(h)
    PROVE  Moves(h)
<1> USE DEF WarnTypes, Moves, Goto, End, locals
<1>1. ASSUME WarnInsert(h) PROVE Moves(h)
    BY <1>1 DEF WarnInsert
<1>2. ASSUME WarnInc(h) PROVE Moves(h)
    BY <1>2 DEF WarnInc, Check, SetCount, Forget
<1>3. ASSUME WarnIncNew(h) PROVE Moves(h)
    BY <1>3 DEF WarnIncNew, Check, SetCount, Forget
<1>4. ASSUME WarnRollback(h) PROVE Moves(h)
    BY <1>4 DEF WarnRollback
<1>5. ASSUME WarnFed(h) PROVE Moves(h)
    BY <1>5 DEF WarnFed
<1>6. ASSUME WarnAutoBan(h) PROVE Moves(h)
    BY <1>6 DEF WarnAutoBan
<1>7. ASSUME SyncRead(h) PROVE Moves(h)
    BY <1>7 DEF SyncRead, Synced, SyncFails, Got
<1>8. ASSUME SyncCount(h) PROVE Moves(h)
    BY <1>8 DEF SyncCount, Synced, SyncFails, Got
<1>9. ASSUME SyncBackfill(h) PROVE Moves(h)
    BY <1>9 DEF SyncBackfill, Synced, SyncFails, Got, SetCount
<1>10. ASSUME UnwarnFind(h) PROVE Moves(h)
    BY <1>10 DEF UnwarnFind
<1>11. ASSUME NEW a \in {"delete", "dec"}, UnwarnCall(h, a) PROVE Moves(h)
    BY <1>11 DEF UnwarnCall, SetCount
<1>12. ASSUME UnwarnJoin(h) PROVE Moves(h)
    BY <1>12 DEF UnwarnJoin
<1>13. ASSUME Recount(h) PROVE Moves(h)
    BY <1>13 DEF Recount, Got
<1>14. ASSUME StoreCount(h) PROVE Moves(h)
    BY <1>14 DEF StoreCount, SetCount, Got
<1>15. ASSUME NEW a \in {"warns", "counts"}, ClearCall(h, a) PROVE Moves(h)
    BY <1>15 DEF ClearCall
<1>16. ASSUME ClearJoin(h) PROVE Moves(h)
    BY <1>16 DEF ClearJoin, Cleared
<1>17. ASSUME ClearAgain(h) PROVE Moves(h)
    BY <1>17 DEF ClearAgain
<1>18. ASSUME WarnList(h) PROVE Moves(h)
    BY <1>18 DEF WarnList
<1>19. ASSUME MigrateRepoint(h) PROVE Moves(h)
    BY <1>19 DEF MigrateRepoint
<1>20. ASSUME MigrateRead(h) PROVE Moves(h)
    BY <1>20 DEF MigrateRead, Got
<1>21. ASSUME MigrateTake(h) PROVE Moves(h)
    BY <1>21 DEF MigrateTake, SetCount
<1>22. ASSUME MigrateMerge(h) PROVE Moves(h)
    BY <1>22 DEF MigrateMerge, SetCount
<1>23. ASSUME MigrateMergeNew(h) PROVE Moves(h)
    BY <1>23 DEF MigrateMergeNew, SetCount
<1>24. ASSUME MigrateSweep(h) PROVE Moves(h)
    BY <1>24 DEF MigrateSweep, SetCount, Got
<1>25. ASSUME ExpireCutoff(h) PROVE Moves(h)
    BY <1>25 DEF ExpireCutoff, Got
<1>26. ASSUME NEW a \in {"warns", "counts"}, ExpireCall(h, a) PROVE Moves(h)
    BY <1>26 DEF ExpireCall
<1>27. ASSUME ExpireEnd(h) PROVE Moves(h)
    BY <1>27 DEF ExpireEnd, Got
<1> QED BY <1>1, <1>2, <1>3, <1>4, <1>5, <1>6, <1>7, <1>8, <1>9, <1>10, <1>11, <1>12, <1>13,
           <1>14, <1>15, <1>16, <1>17, <1>18, <1>19, <1>20, <1>21, <1>22, <1>23, <1>24, <1>25,
           <1>26, <1>27 DEF Step

\* Every step keeps Way.
LEMMA WayNext == WarnTypes /\ Way /\ [Next]_vars => Way'
<1> SUFFICES ASSUME WarnTypes, Way, [Next]_vars PROVE Way'
    OBVIOUS
<1>1. CASE UNCHANGED vars \/ Migrate \/ Terminated
    BY <1>1 DEF vars, Migrate, Terminated, Way, control, locals
<1>2. CASE Crash
    BY <1>2 DEF Crash, WarnTypes, Way, Busy, control, locals, Frame
<1>3. ASSUME NEW h \in Handlers, Dispatch(h) PROVE Way'
    BY <1>3, DispatchBegins DEF Begins, Way
<1>4. ASSUME NEW h \in Handlers, Step(h) PROVE Way'
    <2>1. \A g \in Handlers : WarnRests(h, g)
        BY <1>4, WarnOthersRest
    <2>2. Moves(h) /\ pc[h] \notin {"idle", "done"} /\ pc'[h] # "idle"
        BY <1>4, StepMoves, WarnRunning
    <2> QED BY <2>1, <2>2 DEF Way, WarnRests, Moves
<1> QED BY <1>1, <1>2, <1>3, <1>4 DEF Next

\* Nothing has been started at the start.
LEMMA WayInit == Init => Way
BY DEF Init, Way

(***************************************************************************)
(* Overlapping warnings                                                     *)
(***************************************************************************)
\* Only warnings have been started, nothing has failed, nothing was cleared.
Clean ==
    /\ faults = MaxFaults
    /\ \A h \in Handlers : \/ pc[h] = "idle"
                           \/ kind[h] = "warn" /\ pc[h] \notin {"clear_par", "clear_again"} /\ outcome[h] # "banned"

\* Of the calls of a step at most one fails.
LEMMA StepMayFail ==
    ASSUME NEW h \in Handlers, Step(h)
    PROVE  Works \/ Fault
<1> USE DEF Works
<1>1. ASSUME WarnInsert(h) PROVE Works \/ Fault
    BY <1>1 DEF WarnInsert
<1>2. ASSUME WarnInc(h) PROVE Works \/ Fault
    BY <1>2 DEF WarnInc, Check, SetCount, Forget
<1>3. ASSUME WarnIncNew(h) PROVE Works \/ Fault
    BY <1>3 DEF WarnIncNew, Check, SetCount, Forget
<1>4. ASSUME WarnRollback(h) PROVE Works \/ Fault
    BY <1>4 DEF WarnRollback
<1>5. ASSUME WarnFed(h) PROVE Works \/ Fault
    BY <1>5 DEF WarnFed
<1>6. ASSUME WarnAutoBan(h) PROVE Works \/ Fault
    BY <1>6 DEF WarnAutoBan
<1>7. ASSUME SyncRead(h) PROVE Works \/ Fault
    BY <1>7 DEF SyncRead, Synced, SyncFails, Got
<1>8. ASSUME SyncCount(h) PROVE Works \/ Fault
    BY <1>8 DEF SyncCount, Synced, SyncFails, Got
<1>9. ASSUME SyncBackfill(h) PROVE Works \/ Fault
    BY <1>9 DEF SyncBackfill, Synced, SyncFails, Got, SetCount
<1>10. ASSUME UnwarnFind(h) PROVE Works \/ Fault
    BY <1>10 DEF UnwarnFind
<1>11. ASSUME NEW a \in {"delete", "dec"}, UnwarnCall(h, a) PROVE Works \/ Fault
    BY <1>11 DEF UnwarnCall, SetCount
<1>12. ASSUME UnwarnJoin(h) PROVE Works \/ Fault
    BY <1>12 DEF UnwarnJoin
<1>13. ASSUME Recount(h) PROVE Works \/ Fault
    BY <1>13 DEF Recount, Got
<1>14. ASSUME StoreCount(h) PROVE Works \/ Fault
    BY <1>14 DEF StoreCount, SetCount, Got
<1>15. ASSUME NEW a \in {"warns", "counts"}, ClearCall(h, a) PROVE Works \/ Fault
    BY <1>15 DEF ClearCall
<1>16. ASSUME ClearJoin(h) PROVE Works \/ Fault
    BY <1>16 DEF ClearJoin
<1>17. ASSUME ClearAgain(h) PROVE Works \/ Fault
    BY <1>17 DEF ClearAgain
<1>18. ASSUME WarnList(h) PROVE Works \/ Fault
    BY <1>18 DEF WarnList
<1>19. ASSUME MigrateRepoint(h) PROVE Works \/ Fault
    BY <1>19 DEF MigrateRepoint
<1>20. ASSUME MigrateRead(h) PROVE Works \/ Fault
    BY <1>20 DEF MigrateRead, Got
<1>21. ASSUME MigrateTake(h) PROVE Works \/ Fault
    BY <1>21 DEF MigrateTake, SetCount
<1>22. ASSUME MigrateMerge(h) PROVE Works \/ Fault
    BY <1>22 DEF MigrateMerge, SetCount
<1>23. ASSUME MigrateMergeNew(h) PROVE Works \/ Fault
    BY <1>23 DEF MigrateMergeNew, SetCount
<1>24. ASSUME MigrateSweep(h) PROVE Works \/ Fault
    BY <1>24 DEF MigrateSweep, SetCount, Got
<1>25. ASSUME ExpireCutoff(h) PROVE Works \/ Fault
    BY <1>25 DEF ExpireCutoff, Got
<1>26. ASSUME NEW a \in {"warns", "counts"}, ExpireCall(h, a) PROVE Works \/ Fault
    BY <1>26 DEF ExpireCall
<1>27. ASSUME ExpireEnd(h) PROVE Works \/ Fault
    BY <1>27 DEF ExpireEnd, Got
<1> QED BY <1>1, <1>2, <1>3, <1>4, <1>5, <1>6, <1>7, <1>8, <1>9, <1>10, <1>11, <1>12, <1>13,
           <1>14, <1>15, <1>16, <1>17, <1>18, <1>19, <1>20, <1>21, <1>22, <1>23, <1>24, <1>25,
           <1>26, <1>27 DEF Step

\* A failure that has happened stays on record, and so does an operation.
LEMMA CleanBefore == WarnTypes /\ Way /\ [Next]_vars /\ Clean' => Clean /\ faults' = faults
<1> SUFFICES ASSUME WarnTypes, Way, [Next]_vars, Clean' PROVE Clean /\ faults' = faults
    OBVIOUS
<1>0. ~Fault
    BY DEF Clean, WarnTypes, Fault
<1>1. CASE UNCHANGED vars \/ Migrate \/ Terminated
    BY <1>1 DEF vars, Migrate, Terminated, Clean, control, locals
<1>2. CASE Crash
    BY <1>0, <1>2 DEF Crash
<1>3. ASSUME NEW h \in Handlers, Dispatch(h) PROVE Clean /\ faults' = faults
    BY <1>3, DispatchBegins DEF Begins, Clean
<1>4. ASSUME NEW h \in Handlers, Step(h) PROVE Clean /\ faults' = faults
    <2>1. faults' = faults
        BY <1>0, <1>4, StepMayFail DEF Works
    <2>2. \A g \in Handlers : WarnRests(h, g)
        BY <1>4, WarnOthersRest
    <2>3. Moves(h) /\ pc[h] \notin {"idle", "done"} /\ pc'[h] # "idle"
        BY <1>4, StepMoves, WarnRunning
    <2> QED BY <2>1, <2>2, <2>3 DEF Clean, WarnRests, Moves, Way
<1> QED BY <1>1, <1>2, <1>3, <1>4 DEF Next

\* The steps of execute_warn up to the automatic ban.
WarnActs(h) ==
    \/ WarnInsert(h) \/ WarnInc(h) \/ WarnIncNew(h)
    \/ WarnRollback(h) \/ WarnFed(h) \/ WarnAutoBan(h)

\* While only warnings run and nothing fails, the steps are theirs.
LEMMA CleanActs ==
    ASSUME WarnTypes, Way, Clean, Clean', NEW h \in Handlers, Step(h)
    PROVE  WarnActs(h)
<1> USE DEF WarnActs
<1>0. pc[h] \in {"insert", "inc", "inc_new", "rollback", "fed", "autoban"}
    BY WarnRunning DEF Way, Clean, WarnTypes, Points
<1>1. ASSUME WarnInsert(h) PROVE WarnActs(h)
    BY <1>1
<1>2. ASSUME WarnInc(h) PROVE WarnActs(h)
    BY <1>2
<1>3. ASSUME WarnIncNew(h) PROVE WarnActs(h)
    BY <1>3
<1>4. ASSUME WarnRollback(h) PROVE WarnActs(h)
    BY <1>4
<1>5. ASSUME WarnFed(h) PROVE WarnActs(h)
    BY <1>5
<1>6. ASSUME WarnAutoBan(h) PROVE WarnActs(h)
    BY <1>6
<1>7. ASSUME SyncRead(h) PROVE WarnActs(h)
    BY <1>7, <1>0 DEF SyncRead, Synced, SyncFails, Got
<1>8. ASSUME SyncCount(h) PROVE WarnActs(h)
    BY <1>8, <1>0 DEF SyncCount, Synced, SyncFails, Got
<1>9. ASSUME SyncBackfill(h) PROVE WarnActs(h)
    BY <1>9, <1>0 DEF SyncBackfill, Synced, SyncFails, Got, SetCount
<1>10. ASSUME UnwarnFind(h) PROVE WarnActs(h)
    BY <1>10, <1>0 DEF UnwarnFind
<1>11. ASSUME NEW a \in {"delete", "dec"}, UnwarnCall(h, a) PROVE WarnActs(h)
    BY <1>11, <1>0 DEF UnwarnCall, SetCount
<1>12. ASSUME UnwarnJoin(h) PROVE WarnActs(h)
    BY <1>12, <1>0 DEF UnwarnJoin
<1>13. ASSUME Recount(h) PROVE WarnActs(h)
    BY <1>13, <1>0 DEF Recount, Got
<1>14. ASSUME StoreCount(h) PROVE WarnActs(h)
    BY <1>14, <1>0 DEF StoreCount, SetCount, Got
<1>15. ASSUME NEW a \in {"warns", "counts"}, ClearCall(h, a) PROVE WarnActs(h)
    BY <1>15, <1>0 DEF ClearCall
<1>16. ASSUME ClearJoin(h) PROVE WarnActs(h)
    BY <1>16, <1>0 DEF ClearJoin
<1>17. ASSUME ClearAgain(h) PROVE WarnActs(h)
    BY <1>17, <1>0 DEF ClearAgain
<1>18. ASSUME WarnList(h) PROVE WarnActs(h)
    BY <1>18, <1>0 DEF WarnList
<1>19. ASSUME MigrateRepoint(h) PROVE WarnActs(h)
    BY <1>19, <1>0 DEF MigrateRepoint
<1>20. ASSUME MigrateRead(h) PROVE WarnActs(h)
    BY <1>20, <1>0 DEF MigrateRead, Got
<1>21. ASSUME MigrateTake(h) PROVE WarnActs(h)
    BY <1>21, <1>0 DEF MigrateTake, SetCount
<1>22. ASSUME MigrateMerge(h) PROVE WarnActs(h)
    BY <1>22, <1>0 DEF MigrateMerge, SetCount
<1>23. ASSUME MigrateMergeNew(h) PROVE WarnActs(h)
    BY <1>23, <1>0 DEF MigrateMergeNew, SetCount
<1>24. ASSUME MigrateSweep(h) PROVE WarnActs(h)
    BY <1>24, <1>0 DEF MigrateSweep, SetCount, Got
<1>25. ASSUME ExpireCutoff(h) PROVE WarnActs(h)
    BY <1>25, <1>0 DEF ExpireCutoff, Got
<1>26. ASSUME NEW a \in {"warns", "counts"}, ExpireCall(h, a) PROVE WarnActs(h)
    BY <1>26, <1>0 DEF ExpireCall
<1>27. ASSUME ExpireEnd(h) PROVE WarnActs(h)
    BY <1>27, <1>0 DEF ExpireEnd, Got
<1> QED BY <1>1, <1>2, <1>3, <1>4, <1>5, <1>6, <1>7, <1>8, <1>9, <1>10, <1>11, <1>12, <1>13,
           <1>14, <1>15, <1>16, <1>17, <1>18, <1>19, <1>20, <1>21, <1>22, <1>23, <1>24, <1>25,
           <1>26, <1>27 DEF Step

\* The sum depends on the counters alone.
LEMMA SameSum ==
    ASSUME count' = count
    PROVE  federation_warn_count' = federation_warn_count /\ \A c \in Chats : Counted(c)' = Counted(c)
BY DEF federation_warn_count, Counted

\* While nobody has fired: somebody is about to, or no chat is at its limit and
\* a sum at the limit has still to be read by somebody.
Watched ==
    \/ \E h \in Handlers : pc[h] = "autoban"
    \/ /\ \A c \in Chats : ~(Counted(c) >= Limit)
       /\ FedLimit > 0 /\ federation_warn_count >= FedLimit => \E h \in Handlers : pc[h] = "fed"

\* No automatic ban has found nowhere to enforce.
NoneFired == \A h \in Handlers : outcome[h] # "fired"

\* The limits are watched until the automatic ban has run.
LimitInv == Clean /\ NoneFired => Watched

\* The automatic ban that is about to start keeps the watch.
LEMMA AutoBanWatches ==
    ASSUME NEW h \in Handlers, \A g \in Handlers : g # h => pc'[g] = pc[g], pc[h] # "autoban",
           \E g \in Handlers : pc[g] = "autoban"
    PROVE  Watched'
BY DEF Watched

\* A counted warning looks at the limits.
LEMMA CheckWatches ==
    ASSUME WarnTypes, Watched, NEW h \in Handlers, \A g \in Handlers : g # h => pc'[g] = pc[g],
           pc[h] \in {"inc", "inc_new"}, NEW n \in Nat, Check(h, n), SetCount(chat[h], n)
    PROVE  Watched'
<1> USE DEF WarnTypes
<1>1. CASE n >= Limit
    BY <1>1 DEF Check, Goto, Watched
<1>2. CASE ~(n >= Limit) /\ \A g \in Handlers : pc[g] # "autoban"
    <2>1. \A c \in Chats : Counted(c)' = IF c = chat[h] THEN n ELSE Counted(c)
        BY LimitAssumption DEF SetCount, Counted, NoDoc
    <2>2. \A c \in Chats : ~(Counted(c)' >= Limit)
        BY <1>2, <2>1 DEF Watched
    <2>3. FedLimit > 0 => pc'[h] = "fed"
        BY <1>2 DEF Check, Goto
    <2> QED BY <2>2, <2>3 DEF Watched
<1>3. CASE \E g \in Handlers : pc[g] = "autoban"
    BY <1>3, AutoBanWatches
<1> QED BY <1>1, <1>2, <1>3

\* One step of a warning keeps the watch.
LEMMA WatchedStep ==
    ASSUME WarnTypes, Clean, Clean', NoneFired', Watched, faults' = faults, NEW h \in Handlers, WarnActs(h),
           \A g \in Handlers : g # h => pc'[g] = pc[g]
    PROVE  Watched'
<1>0. ~Fault
    BY DEF Clean, WarnTypes, Fault
<1>1. ASSUME count' = count, pc[h] \notin {"autoban", "fed"} PROVE Watched'
    BY <1>1, SameSum DEF Watched
<1>2. CASE WarnInsert(h)
    BY <1>0, <1>1, <1>2 DEF WarnInsert
<1>3. CASE WarnInc(h)
    <2>1. CASE count[chat[h]] = NoDoc
        BY <1>0, <1>1, <1>3, <2>1 DEF WarnInc, stores
    <2>2. CASE count[chat[h]] # NoDoc
        <3>1. count[chat[h]] + 1 \in Nat
            BY <2>2 DEF WarnTypes
        <3> QED BY <1>0, <1>3, <2>2, <3>1, CheckWatches DEF WarnInc
    <2> QED BY <2>1, <2>2
<1>4. CASE WarnIncNew(h)
    BY <1>1, <1>4, CheckWatches DEF WarnIncNew, stores
<1>5. CASE WarnRollback(h)
    BY <1>0, <1>1, <1>5 DEF WarnRollback
<1>6. CASE WarnFed(h)
    <2>1. pc[h] = "fed" /\ count' = count
        BY <1>0, <1>6 DEF WarnFed, stores
    <2>2. CASE federation_warn_count >= FedLimit
        BY <1>0, <1>6, <2>2 DEF WarnFed, Goto, Watched, WarnTypes
    <2>3. CASE ~(federation_warn_count >= FedLimit)
        BY <2>1, <2>3, SameSum DEF Watched
    <2> QED BY <2>2, <2>3
<1>7. CASE WarnAutoBan(h)
    <2>1. pc'[h] = "clear_par" \/ outcome'[h] = "fired"
        BY <1>7 DEF WarnAutoBan, Goto, End, WarnTypes
    <2> QED BY <2>1 DEF Clean, NoneFired
<1> QED BY <1>2, <1>3, <1>4, <1>5, <1>6, <1>7 DEF WarnActs

\* Who has fired has fired for good.
LEMMA FiredBefore ==
    ASSUME WarnTypes, Way, NEW h \in Handlers, Step(h), NoneFired'
    PROVE  NoneFired
BY WarnOthersRest, WarnRunning DEF WarnRests, Way, NoneFired

\* Every step keeps LimitInv.
LEMMA LimitNext == WarnTypes /\ Way /\ LimitInv /\ [Next]_vars => LimitInv'
<1> SUFFICES ASSUME WarnTypes, Way, LimitInv, [Next]_vars, Clean', NoneFired' PROVE Watched'
    BY DEF LimitInv
<1>0. Clean /\ faults' = faults
    BY CleanBefore
<1>1. CASE UNCHANGED vars \/ Migrate \/ Terminated
    <2>1. UNCHANGED <<count, pc, outcome>>
        BY <1>1 DEF vars, Migrate, Terminated, stores
    <2> QED BY <1>0, <2>1, SameSum DEF LimitInv, NoneFired, Watched
<1>2. CASE Crash
    BY <1>0, <1>2 DEF Crash, Fault, WarnTypes
<1>3. ASSUME NEW h \in Handlers, Dispatch(h) PROVE Watched'
    <2>1. pc[h] = "idle" /\ UNCHANGED <<count, outcome>> /\ \A g \in Handlers : g # h => pc'[g] = pc[g]
        BY <1>3, DispatchBegins DEF Begins
    <2>2. Watched
        BY <1>0, <2>1 DEF LimitInv, NoneFired
    <2> QED BY <2>1, <2>2, SameSum DEF Watched
<1>4. ASSUME NEW h \in Handlers, Step(h) PROVE Watched'
    <2>1. \A g \in Handlers : g # h => pc'[g] = pc[g]
        BY <1>4, WarnOthersRest DEF WarnRests
    <2>2. Watched
        BY <1>0, <1>4, FiredBefore DEF LimitInv
    <2> QED BY <1>0, <1>4, <2>1, <2>2, CleanActs, WatchedStep
<1> QED BY <1>1, <1>2, <1>3, <1>4 DEF Next

\* For any limits, chats and number of warnings, however they overlap: the warning
\* that takes the user to a limit, of its chat or of the federation, starts the
\* automatic ban (execute_warn, federation_warn_count).
THEOREM LimitIsAlwaysNoticed == Spec => []LimitIsNoticed
<1>1. Init => LimitInv
    BY DEF Init, LimitInv, Watched, LimitReached
<1>2. Way /\ LimitInv => LimitIsNoticed
    BY DEF Way, LimitInv, Clean, NoneFired, Watched, LimitIsNoticed, LimitReached, Busy, Started
<1> QED BY WarnTypesInit, WarnTypesNext, WayInit, WayNext, LimitNext, <1>1, <1>2, PTL DEF Spec

\* Warnings of chat c that are recorded and not yet counted.
Waiting(c) == {h \in Handlers : pc[h] \in {"inc", "inc_new"} /\ chat[h] = c}

\* Nobody rolls back: who lost the race for the counter finds it the next time.
Retries ==
    \A h \in Handlers : /\ pc[h] # "rollback"
                        /\ pc[h] \in {"insert", "inc_new"} => tries[h] = 0
                        /\ pc[h] = "inc" /\ tries[h] # 0 => count[chat[h]] # NoDoc

\* Counted or about to be.
Tallied(c) ==
    IsFiniteSet(Waiting(c)) /\ Counted(c) + Cardinality(Waiting(c)) = Size(c)

\* Warnings that only overlap with each other are all counted or about to be.
CountInv == Clean => Retries /\ \A c \in Chats : Tallied(c)

\* A warning that is counted leaves the waiting ones.
LEMMA CountedLeaves ==
    ASSUME WarnTypes, Distinct, \A c \in Chats : Tallied(c), NEW h \in Handlers, chat' = chat,
           \A g \in Handlers : g # h => pc'[g] = pc[g],
           pc[h] \in {"inc", "inc_new"}, pc'[h] \notin {"inc", "inc_new"}, hist' = hist,
           Counted(chat[h])' = Counted(chat[h]) + 1,
           \A c \in Chats : c # chat[h] => Counted(c)' = Counted(c)
    PROVE  \A c \in Chats : Tallied(c)'
<1> SUFFICES ASSUME NEW c \in Chats PROVE Tallied(c)'
    OBVIOUS
<1>0. Size(c)' = Size(c) /\ Size(c) \in Nat /\ Counted(c) \in Nat
    BY Sizes DEF Size
<1>1. CASE c = chat[h]
    <2>1. h \in Waiting(c) /\ Waiting(c)' = Waiting(c) \ {h}
        BY <1>1 DEF Waiting
    <2>2. IsFiniteSet(Waiting(c)') /\ Cardinality(Waiting(c)') = Cardinality(Waiting(c)) - 1
        BY <2>1, FS_RemoveElement DEF Tallied
    <2>3. Cardinality(Waiting(c)) \in Nat
        BY FS_CardinalityType DEF Tallied
    <2> QED BY <1>0, <1>1, <2>2, <2>3 DEF Tallied
<1>2. CASE c # chat[h]
    <2>1. Waiting(c)' = Waiting(c)
        BY <1>2 DEF Waiting
    <2> QED BY <1>0, <1>2, <2>1 DEF Tallied
<1> QED BY <1>1, <1>2

\* One step of a warning keeps the tally.
LEMMA TalliedStep ==
    ASSUME WarnTypes, Distinct, Clean, Clean', faults' = faults, Retries, \A c \in Chats : Tallied(c),
           NEW h \in Handlers, WarnActs(h), \A g \in Handlers : WarnRests(h, g)
    PROVE  Retries' /\ \A c \in Chats : Tallied(c)'
<1>0. /\ ~Fault /\ chat' = chat /\ DOMAIN pc = Handlers
      /\ \A g \in Handlers : g # h => pc'[g] = pc[g] /\ tries'[g] = tries[g]
    BY DEF Clean, WarnTypes, Fault, WarnRests
<1>1. ASSUME UNCHANGED <<hist, count>>, pc'[h] \in {"inc", "inc_new"} <=> pc[h] \in {"inc", "inc_new"}
      PROVE  \A c \in Chats : Tallied(c)'
    <2>1. \A c \in Chats : Waiting(c)' = Waiting(c) /\ Counted(c)' = Counted(c) /\ Size(c)' = Size(c)
        BY <1>0, <1>1 DEF Waiting, Counted, Size
    <2> QED BY <2>1 DEF Tallied
<1>2. ASSUME NEW n \in Nat, n = Counted(chat[h]) + 1, SetCount(chat[h], n), Check(h, n), pc[h] \in {"inc", "inc_new"}
      PROVE  Retries' /\ \A c \in Chats : Tallied(c)'
    <2>1. pc'[h] \in {"autoban", "fed", "done"}
        BY <1>2 DEF Check, Goto, End, WarnTypes
    <2>2. /\ hist' = hist /\ Counted(chat[h])' = Counted(chat[h]) + 1
          /\ \A c \in Chats : c # chat[h] => Counted(c)' = Counted(c)
        BY <1>0, <1>2 DEF SetCount, Counted, WarnTypes, NoDoc
    <2>3. \A c \in Chats : Tallied(c)'
        BY <1>0, <1>2, <2>1, <2>2, CountedLeaves
    <2>4. \A c \in Chats : count[c] # NoDoc => count'[c] # NoDoc
        BY <1>2 DEF SetCount, WarnTypes, NoDoc
    <2>5. Retries'
        BY <1>0, <2>1, <2>4 DEF Retries, WarnTypes
    <2> QED BY <2>3, <2>5
<1>3. CASE WarnInsert(h)
    <2>1. /\ pc[h] = "insert" /\ pc'[h] = "inc" /\ UNCHANGED <<count, tries>>
          /\ hist' = [hist EXCEPT ![chat[h]] = @ \cup {next}]
        BY <1>0, <1>3 DEF WarnInsert, Goto
    <2>2. chat[h] \in Chats /\ DOMAIN hist = Chats /\ next \in Nat
        BY DEF WarnTypes
    <2>3. /\ hist'[chat[h]] = hist[chat[h]] \cup {next}
          /\ \A d \in Chats \ {chat[h]} : hist'[d] = hist[d]
        BY <2>1, <2>2, Filed
    <2>4. Retries'
        BY <1>0, <2>1 DEF Retries
    <2>5. ASSUME NEW c \in Chats PROVE Tallied(c)'
        <3>1. Size(c) \in Nat /\ Counted(c) \in Nat /\ Counted(c)' = Counted(c) /\ Cardinality(Waiting(c)) \in Nat
            BY <2>1, Sizes, FS_CardinalityType DEF Counted, Tallied
        <3>2. CASE c = chat[h]
            <4>1. h \notin Waiting(c) /\ Waiting(c)' = Waiting(c) \cup {h}
                BY <1>0, <2>1, <3>2 DEF Waiting
            <4>2. IsFiniteSet(Waiting(c)') /\ Cardinality(Waiting(c)') = Cardinality(Waiting(c)) + 1
                BY <4>1, FS_AddElement DEF Tallied
            <4>3. next \notin hist[c]
                BY <2>2 DEF Distinct
            <4>4. Size(c)' = Size(c) + 1
                BY <2>3, <3>2, <4>3, FS_AddElement DEF Size, Distinct
            <4> QED BY <3>1, <4>2, <4>4 DEF Tallied
        <3>3. CASE c # chat[h]
            <4>1. Waiting(c)' = Waiting(c) /\ Size(c)' = Size(c)
                BY <1>0, <2>1, <2>3, <3>3 DEF Waiting, Size
            <4> QED BY <3>1, <4>1 DEF Tallied
        <3> QED BY <3>2, <3>3
    <2> QED BY <2>4, <2>5
<1>4. CASE WarnInc(h)
    <2>1. CASE count[chat[h]] = NoDoc
        <3>1. /\ pc[h] = "inc" /\ pc'[h] = "inc_new" /\ UNCHANGED <<hist, count, tries>>
            BY <1>0, <1>4, <2>1 DEF WarnInc, Goto, stores
        <3>2. tries[h] = 0
            BY <2>1, <3>1 DEF Retries
        <3> QED BY <1>0, <1>1, <3>1, <3>2 DEF Retries
    <2>2. CASE count[chat[h]] # NoDoc
        <3>1. Counted(chat[h]) = count[chat[h]] /\ count[chat[h]] + 1 \in Nat
            BY <2>2 DEF WarnTypes, Counted
        <3> QED BY <1>0, <1>2, <1>4, <2>2, <3>1 DEF WarnInc
    <2> QED BY <2>1, <2>2
<1>5. CASE WarnIncNew(h)
    <2>1. CASE count[chat[h]] = NoDoc
        <3>1. Counted(chat[h]) + 1 = 1
            BY <2>1 DEF Counted
        <3> QED BY <1>2, <1>5, <2>1, <3>1 DEF WarnIncNew
    <2>2. CASE count[chat[h]] # NoDoc
        <3>1. /\ pc[h] = "inc_new" /\ UNCHANGED <<hist, count>> /\ tries[h] = 0
            BY <1>5, <2>2 DEF WarnIncNew, stores, Retries
        <3>2. pc'[h] = "inc"
            BY <1>0, <1>5, <2>2, <3>1 DEF WarnIncNew, Goto
        <3> QED BY <1>0, <1>1, <2>2, <3>1, <3>2 DEF Retries
    <2> QED BY <2>1, <2>2
<1>6. CASE WarnRollback(h)
    BY <1>6 DEF WarnRollback, Retries
<1>7. CASE WarnFed(h) \/ WarnAutoBan(h)
    <2>1. /\ pc[h] \in {"fed", "autoban"} /\ pc'[h] \in {"autoban", "clear_par", "done"} /\ UNCHANGED <<hist, count>>
        BY <1>0, <1>7 DEF WarnFed, WarnAutoBan, Goto, End, stores
    <2> QED BY <1>0, <1>1, <2>1 DEF Retries
<1> QED BY <1>3, <1>4, <1>5, <1>6, <1>7 DEF WarnActs

\* Every step keeps CountInv.
LEMMA CountNext == WarnTypes /\ Distinct /\ Way /\ CountInv /\ [Next]_vars => CountInv'
<1> SUFFICES ASSUME WarnTypes, Distinct, Way, CountInv, [Next]_vars, Clean'
             PROVE  Retries' /\ \A c \in Chats : Tallied(c)'
    BY DEF CountInv
<1>0. /\ Clean /\ faults' = faults
      /\ Retries /\ \A c \in Chats : Tallied(c)
    BY CleanBefore DEF CountInv
<1>1. CASE UNCHANGED vars \/ Migrate \/ Terminated
    <2>1. UNCHANGED <<hist, count, pc, chat, tries>>
        BY <1>1 DEF vars, Migrate, Terminated, stores, control, locals
    <2> QED BY <1>0, <2>1 DEF Retries, Tallied, Waiting, Counted, Size
<1>2. CASE Crash
    BY <1>0, <1>2 DEF Crash, Fault, WarnTypes
<1>3. ASSUME NEW h \in Handlers, Dispatch(h) PROVE Retries' /\ \A c \in Chats : Tallied(c)'
    <2>1. /\ pc[h] = "idle" /\ UNCHANGED <<hist, count, tries>> /\ tries[h] = 0
          /\ pc'[h] \notin {"rollback", "inc_new", "inc"}
          /\ \A g \in Handlers : g # h => pc'[g] = pc[g] /\ chat'[g] = chat[g]
        BY <1>3, DispatchBegins DEF Begins, Way
    <2>2. \A c \in Chats : Waiting(c)' = Waiting(c) /\ Counted(c)' = Counted(c) /\ Size(c)' = Size(c)
        BY <2>1 DEF Waiting, Counted, Size
    <2>3. Retries'
        BY <1>0, <2>1 DEF Retries
    <2> QED BY <1>0, <2>2, <2>3 DEF Tallied
<1>4. ASSUME NEW h \in Handlers, Step(h) PROVE Retries' /\ \A c \in Chats : Tallied(c)'
    BY <1>0, <1>4, CleanActs, WarnOthersRest, TalliedStep
<1> QED BY <1>1, <1>2, <1>3, <1>4 DEF Next

\* For any chats and number of warnings, however they overlap: once they are over
\* every recorded warning is counted, those that raced for a chat's first counter
\* included (add_warn, _inc_warn_count).
THEOREM NoWarnIsUncounted == Spec => []NoWarnUncounted
<1>1. Init => CountInv
    <2> SUFFICES ASSUME Init PROVE Retries /\ \A c \in Chats : Tallied(c)
        BY DEF CountInv
    <2>1. \A c \in Chats : Waiting(c) = {}
        BY DEF Init, Waiting
    <2>2. IsFiniteSet({}) /\ Cardinality({}) = 0 /\ Cardinality({1}) = 1
        BY FS_EmptySet, FS_Singleton
    <2>3. \A c \in Chats : (hist[c] = {} /\ Counted(c) = 0) \/ (hist[c] = {1} /\ Counted(c) = 1)
        BY DEF Init, Counted, NoDoc
    <2>4. Retries
        BY DEF Init, Retries
    <2> QED BY <2>1, <2>2, <2>3, <2>4 DEF Tallied, Size
<1>2. WarnTypes /\ Distinct /\ CountInv => NoWarnUncounted
    <2> SUFFICES ASSUME WarnTypes, Distinct, CountInv, Clean, Busy = {}, NEW c \in Chats
                 PROVE  Counted(c) = Cardinality(hist[c])
        BY DEF NoWarnUncounted, Clean, Busy, Started
    <2>1. Waiting(c) = {} /\ Tallied(c)
        BY DEF Waiting, Busy, CountInv
    <2>2. Cardinality({}) = 0 /\ Counted(c) \in Nat
        BY FS_EmptySet, Sizes
    <2> QED BY <2>1, <2>2 DEF Tallied, Size
<1> QED BY WarnTypesInit, WarnTypesNext, WayInit, WayNext, CountNext, <1>1, <1>2, PTL DEF Spec

(***************************************************************************)
(* No counter above its history                                             *)
(***************************************************************************)
\* The counter of a chat is within its history.
Fine(c) == Counted(c) <= Size(c)

\* Every counter is within its history.
AllFine == \A c \in Chats : Fine(c)

\* The one failure that is allowed has happened.
Spent == faults < MaxFaults

\* The conditions of NoEarlyBan, while handlers run.
Guarded ==
    /\ ~overlap /\ faults + 1 >= MaxFaults
    /\ \A h \in Handlers :
         \/ pc[h] = "idle"
         \/ outcome[h] # "died" /\ kind[h] # "expire" /\ (kind[h] = "migrate" => faults = MaxFaults)

\* In the chats other than c.
Elsewhere(c) == \A d \in Chats : d # c => Fine(d)

\* n warnings, which the old counter has or had, belong to the new counter.
Merged(n) ==
    (\A d \in Chats : d \notin {Old, New} => Fine(d)) /\ n + Counted(New) <= Size(New)

\* remove_last_warn between its two calls: the counter is above the history only
\* until the decrement, or until the repair of the one that failed.
Unwarning(h, c) ==
    /\ "delete" \in par[h] => doc[h] \in hist[c] /\ Fine(c)
    /\ "delete" \in par[h] /\ "dec" \notin par[h] =>
           Counted(c) + 1 <= Size(c) \/ Counted(c) = 0 \/ (bad[h] # {} /\ Spent)
    /\ "delete" \notin par[h] /\ "dec" \in par[h] => Counted(c) <= Size(c) + 1
    /\ "delete" \notin par[h] /\ "dec" \notin par[h] => Fine(c) \/ (bad[h] # {} /\ Spent)

\* _clear_warn_docs between its two calls: the counters are gone, or the history is
\* still there, or the counter delete that failed is to be repaired.
Clearing(h) ==
    /\ "counts" \in bad[h] => Spent
    /\ "counts" \notin par[h] /\ "counts" \notin bad[h] => \A d \in Scope(h) : Counted(d) = 0
    /\ "warns" \in par[h] => \A d \in Scope(h) : Fine(d)
    /\ \A d \in Chats : d \notin Scope(h) => Fine(d)

\* What the running handler h of chat c knows of the counters.
Keeps(h, c) ==
    /\ pc[h] \in {"insert", "fed", "autoban", "sync", "sync_count", "sync_fill", "find",
                  "list", "repoint", "sweep"} => AllFine
    /\ pc[h] = "sync_fill" => got[h] <= Size(c)
    /\ pc[h] \in {"inc", "inc_new", "rollback"} =>
           Elsewhere(c) /\ doc[h] \in hist[c] /\ Counted(c) + 1 <= Size(c)
    /\ pc[h] = "unwarn_par" => Elsewhere(c) /\ Unwarning(h, c)
    /\ pc[h] \in {"recount", "store"} => Elsewhere(c) /\ (Fine(c) \/ Spent)
    /\ pc[h] \in {"store", "clear_store"} => got[h] = Size(c)
    /\ pc[h] = "clear_par" => Clearing(h)
    /\ pc[h] \in {"clear_again", "clear_count", "clear_store"} => Spent
    /\ pc[h] \in {"clear_count", "clear_store"} => Elsewhere(c)
    /\ pc[h] \in {"counters", "take"} => Merged(Counted(Old))
    /\ pc[h] = "take" => got[h] = Counted(Old)
    /\ pc[h] \in {"merge", "merge_new"} => Merged(got[h]) /\ Counted(Old) = 0

\* What holds between two steps under those conditions.
EarlyInv ==
    Guarded => /\ (Busy = {} => AllFine)
               /\ \A h \in Busy, c \in Chats : chat[h] = c => Keeps(h, c)

\* Where a step of h leaves the counters.
Lands(h, c) == (pc'[h] = "done" => AllFine') /\ (pc'[h] # "done" => Keeps(h, c)')

\* Points at which every counter is within its history.
LEMMA FineLands ==
    ASSUME NEW h \in Handlers, NEW c \in Chats, AllFine',
           pc'[h] \in {"done", "insert", "fed", "autoban", "sync", "sync_count", "find", "list", "repoint", "sweep"}
    PROVE  Lands(h, c)
BY DEF Lands, Keeps

\* A step that writes neither collection.
LEMMA FineStays ==
    ASSUME UNCHANGED <<hist, count>>
    PROVE  /\ \A c \in Chats : Counted(c)' = Counted(c) /\ Size(c)' = Size(c)
           /\ AllFine => AllFine'
BY DEF Counted, Size, AllFine, Fine

\* Deleting one record.
LEMMA DeleteSize ==
    ASSUME WarnTypes, Distinct, NEW i, hist' = [c \in Chats |-> hist[c] \ {i}], NEW c \in Chats
    PROVE  /\ Size(c)' \in Nat /\ Size(c) <= Size(c)' + 1
           /\ i \notin hist[c] => Size(c)' = Size(c)
<1>1. hist'[c] = hist[c] \ {i} /\ IsFiniteSet(hist[c])
    BY DEF Distinct
<1>2. Cardinality(hist[c]) \in Nat
    BY <1>1, FS_CardinalityType
<1>3. Size(c) = Cardinality(hist[c]) /\ Size(c)' = Cardinality(hist'[c])
    BY DEF Size
<1>4. CASE i \in hist[c]
    <2>1. Cardinality(hist[c] \ {i}) = Cardinality(hist[c]) - 1 /\ IsFiniteSet(hist[c] \ {i})
        BY <1>1, <1>4, FS_RemoveElement
    <2>2. Cardinality(hist[c] \ {i}) \in Nat
        BY <2>1, FS_CardinalityType
    <2> QED BY <1>1, <1>2, <1>3, <1>4, <2>1, <2>2
<1>5. CASE i \notin hist[c]
    <2>1. hist'[c] = hist[c]
        BY <1>1, <1>5
    <2>2. Size(c) \in Nat /\ Size(c)' = Size(c)
        BY <1>2, <1>3, <2>1
    <2> QED BY <2>2, SMTT(30)
<1> QED BY <1>4, <1>5

\* Writing one counter.
LEMMA SetSizes ==
    ASSUME WarnTypes, NEW c \in Chats, NEW n \in {NoDoc} \cup Nat, SetCount(c, n)
    PROVE  /\ \A d \in Chats : Size(d)' = Size(d) /\ (d # c => Counted(d)' = Counted(d))
           /\ Counted(c)' = IF n = NoDoc THEN 0 ELSE n
<1>1. hist' = hist /\ count' = [count EXCEPT ![c] = n]
    BY DEF SetCount
<1>2. \A d \in Chats : Size(d)' = Size(d)
    BY <1>1 DEF Size
<1>3. count'[c] = n /\ \A d \in Chats : d # c => count'[d] = count[d]
    BY <1>1 DEF WarnTypes
<1> QED BY <1>2, <1>3 DEF Counted

\* A failure under the guard is the only one, and not a migration's.
LEMMA OneFailure ==
    ASSUME WarnTypes, Guarded, Guarded', NEW h \in Handlers, pc[h] # "idle", pc'[h] # "idle", kind' = kind, Fault
    PROVE  ~Spent /\ Spent' /\ kind[h] # "migrate" /\ UNCHANGED <<hist, count>>
BY BoundAssumption DEF WarnTypes, Guarded, Fault, Spent, stores

\* A counter written within its history leaves all of them so.
LEMMA WrittenFine ==
    ASSUME WarnTypes, Distinct, NEW c \in Chats, Elsewhere(c), NEW n \in {NoDoc} \cup Nat,
           SetCount(c, n), n <= Size(c)
    PROVE  AllFine'
<1>1. /\ \A d \in Chats : Size(d)' = Size(d) /\ (d # c => Counted(d)' = Counted(d))
      /\ Counted(c)' = IF n = NoDoc THEN 0 ELSE n
    BY SetSizes
<1>2. Size(c) \in Nat
    BY Sizes
<1> QED BY <1>1, <1>2 DEF AllFine, Fine, Elsewhere

\* A step of the one handler that runs, with at most one failure.
LEMMA EarlyStep ==
    ASSUME WarnTypes, Distinct, Way, Guarded, Guarded', NEW h \in Handlers, Step(h),
           NEW c \in Chats, chat[h] = c, Keeps(h, c)
    PROVE  Lands(h, c)
<1>0. /\ UNCHANGED <<chat, kind>> /\ chat'[h] = c /\ next \in Nat /\ got[h] \in Nat
      /\ pc[h] \notin {"idle", "done"} /\ pc'[h] # "idle"
      /\ Old \in Chats /\ New \in Chats /\ Old # New /\ DOMAIN hist = Chats /\ DOMAIN count = Chats
      /\ DOMAIN pc = Handlers /\ DOMAIN got = Handlers /\ DOMAIN doc = Handlers /\ DOMAIN par = Handlers
      /\ DOMAIN bad = Handlers /\ DOMAIN tries = Handlers
    BY WarnOthersRest, WarnRunning, ChatAssumption DEF WarnRests, WarnTypes
<1>1. \A d \in Chats : Size(d) \in Nat /\ Counted(d) \in Nat
    BY Sizes
<1>2. Fault => ~Spent /\ Spent' /\ kind[h] # "migrate" /\ UNCHANGED <<hist, count>>
    BY <1>0, OneFailure
<1>4. Fault => ~Works
    BY DEF Fault, Works, WarnTypes
<1>5. ASSUME WarnInsert(h) PROVE Lands(h, c)
    <2>1. CASE Fault
        <3>1. pc'[h] = "done" /\ AllFine /\ UNCHANGED <<hist, count>>
            BY <1>5, <2>1, <1>0, <1>2 DEF WarnInsert, Goto, End, Keeps, Works, Fault
        <3> QED BY <3>1, FineStays, FineLands
    <2>2. CASE ~Fault
        <3>1. /\ pc'[h] = "inc" /\ AllFine /\ count' = count /\ doc'[h] = next
              /\ hist' = [hist EXCEPT ![c] = @ \cup {next}]
            BY <1>5, <2>2, <1>0 DEF WarnInsert, Goto, Keeps
        <3>2. hist'[c] = hist[c] \cup {next} /\ \A d \in Chats \ {c} : hist'[d] = hist[d]
            BY <3>1, <1>0, Filed
        <3>3. next \notin hist[c] /\ IsFiniteSet(hist[c])
            BY <1>0 DEF Distinct
        <3>4. Size(c)' = Size(c) + 1 /\ next \in hist'[c]
            BY <3>2, <3>3, FS_AddElement DEF Size
        <3>5. /\ \A d \in Chats : Counted(d)' = Counted(d)
              /\ \A d \in Chats : d # c => Size(d)' = Size(d)
            BY <3>1, <3>2 DEF Counted, Size
        <3>6. Elsewhere(c)' /\ Counted(c)' + 1 <= Size(c)'
            BY <1>1, <3>1, <3>4, <3>5 DEF Elsewhere, AllFine, Fine
        <3> QED BY <3>1, <3>4, <3>6 DEF Lands, Keeps
    <2> QED BY <2>1, <2>2
<1>6. ASSUME WarnInc(h) PROVE Lands(h, c)
    <2>0. pc[h] = "inc" /\ Elsewhere(c) /\ doc[h] \in hist[c] /\ Counted(c) + 1 <= Size(c)
        BY <1>6 DEF WarnInc, Keeps
    <2>1. CASE Fault \/ count[c] = NoDoc
        <3>1. /\ pc'[h] \in {"rollback", "inc_new"} /\ UNCHANGED <<hist, count, doc>>
            BY <1>6, <2>1, <1>0 DEF WarnInc, Goto, Fault, Works, WarnTypes, stores
        <3> QED BY <2>0, <3>1, FineStays DEF Lands, Keeps, Elsewhere, Fine
    <2>2. CASE ~Fault /\ count[c] # NoDoc
        <3>1. /\ SetCount(c, count[c] + 1) /\ pc'[h] \in {"autoban", "fed", "done"}
            BY <1>6, <2>2, <1>0 DEF WarnInc, Check, Goto, End
        <3>2. count[c] \in Nat /\ Counted(c) = count[c]
            BY <2>2 DEF WarnTypes, Counted
        <3> QED BY <1>1, <2>0, <3>1, <3>2, WrittenFine, FineLands DEF NoDoc
    <2> QED BY <2>1, <2>2
<1>7. ASSUME WarnIncNew(h) PROVE Lands(h, c)
    <2>0. pc[h] = "inc_new" /\ Elsewhere(c) /\ doc[h] \in hist[c] /\ Counted(c) + 1 <= Size(c)
        BY <1>7 DEF WarnIncNew, Keeps
    <2>1. CASE count[c] # NoDoc
        <3>1. /\ pc'[h] \in {"rollback", "inc"} /\ UNCHANGED <<hist, count, doc>>
            BY <1>7, <2>1, <1>0 DEF WarnIncNew, Goto, stores
        <3> QED BY <2>0, <3>1, FineStays DEF Lands, Keeps, Elsewhere, Fine
    <2>2. CASE count[c] = NoDoc
        <3>1. /\ SetCount(c, 1) /\ pc'[h] \in {"autoban", "fed", "done"}
            BY <1>7, <2>2, <1>0 DEF WarnIncNew, Check, Goto, End
        <3>2. Counted(c) = 0
            BY <2>2 DEF Counted
        <3> QED BY <1>1, <2>0, <3>1, <3>2, WrittenFine, FineLands DEF NoDoc
    <2> QED BY <2>1, <2>2
<1>8. ASSUME WarnRollback(h) PROVE Lands(h, c)
    <2>0. pc'[h] = "done" /\ Elsewhere(c) /\ doc[h] \in hist[c] /\ Counted(c) + 1 <= Size(c)
        BY <1>8, <1>0 DEF WarnRollback, Keeps, End
    <2>1. CASE Fault
        <3>1. AllFine /\ UNCHANGED <<hist, count>>
            BY <1>1, <1>2, <2>0, <2>1 DEF AllFine, Elsewhere, Fine
        <3> QED BY <2>0, <3>1, FineStays, FineLands
    <2>2. CASE ~Fault
        <3>1. count' = count /\ hist' = [d \in Chats |-> hist[d] \ {doc[h]}]
            BY <1>8, <2>2 DEF WarnRollback
        <3>2. \A d \in Chats : d # c => doc[h] \notin hist[d]
            BY <2>0 DEF Distinct
        <3>3. \A d \in Chats : /\ Size(d)' \in Nat /\ Size(d) <= Size(d)' + 1
                               /\ d # c => Size(d)' = Size(d)
            BY <3>1, <3>2, DeleteSize
        <3>4. \A d \in Chats : Counted(d)' = Counted(d)
            BY <3>1 DEF Counted
        <3>5. AllFine'
            BY <1>1, <2>0, <3>3, <3>4 DEF AllFine, Elsewhere, Fine
        <3> QED BY <2>0, <3>5, FineLands
    <2> QED BY <2>1, <2>2
<1>9. ASSUME WarnFed(h) PROVE Lands(h, c)
    <2>1. UNCHANGED <<hist, count>> /\ AllFine
        BY <1>9, <1>2 DEF WarnFed, Keeps, stores
    <2>2. pc'[h] \in {"done", "insert", "fed", "autoban", "sync", "sync_count", "find", "list", "repoint", "sweep"}
        BY <1>9, <1>0 DEF WarnFed, Goto, End
    <2> QED BY <2>1, <2>2, FineStays, FineLands
<1>10. ASSUME WarnAutoBan(h) PROVE Lands(h, c)
    <2>1. UNCHANGED <<hist, count>> /\ AllFine /\ bad' = bad /\ bad[h] = {}
        BY <1>10 DEF WarnAutoBan, Keeps, Way, stores
    <2>2. CASE pc'[h] = "done"
        BY <2>1, <2>2, FineStays, FineLands
    <2>3. CASE pc'[h] = "clear_par"
        <3>1. par'[h] = {"warns", "counts"}
            BY <1>10, <1>0, <2>3 DEF WarnAutoBan, End
        <3>2. AllFine'
            BY <2>1, FineStays
        <3>3. Clearing(h)'
            BY <1>0, <2>1, <3>1, <3>2 DEF Clearing, AllFine, Scope
        <3> QED BY <2>3, <3>3 DEF Lands, Keeps
    <2> QED BY <1>10, <1>0, <2>2, <2>3 DEF WarnAutoBan, Goto, End
<1>11. ASSUME SyncRead(h) PROVE Lands(h, c)
    <2>1. UNCHANGED <<hist, count>> /\ AllFine
        BY <1>11, <1>2 DEF SyncRead, Synced, SyncFails, Got, Keeps, stores
    <2>2. pc'[h] \in {"done", "insert", "fed", "autoban", "sync", "sync_count", "find", "list", "repoint", "sweep"}
        BY <1>11, <1>0 DEF SyncRead, Synced, SyncFails, Got, Goto, End
    <2> QED BY <2>1, <2>2, FineStays, FineLands
<1>12. ASSUME SyncCount(h) PROVE Lands(h, c)
    <2>1. UNCHANGED <<hist, count>> /\ AllFine
        BY <1>12, <1>2 DEF SyncCount, SyncFails, Keeps, stores
    <2>2. CASE pc'[h] \in {"done", "find"}
        BY <2>1, <2>2, FineStays, FineLands
    <2>3. CASE pc'[h] = "sync_fill"
        <3>1. got'[h] = Size(c)
            BY <1>12, <1>0, <2>3 DEF SyncCount, Synced, SyncFails, Got, Goto, End, Size
        <3>2. got'[h] <= Size(c)' /\ AllFine'
            BY <1>1, <2>1, <3>1, FineStays
        <3> QED BY <2>3, <3>2 DEF Lands, Keeps
    <2> QED BY <1>12, <1>0, <2>2, <2>3 DEF SyncCount, Synced, SyncFails, Goto, End
<1>13. ASSUME SyncBackfill(h) PROVE Lands(h, c)
    <2>0. AllFine /\ got[h] <= Size(c) /\ pc'[h] \in {"done", "find"}
        BY <1>13, <1>0 DEF SyncBackfill, Synced, SyncFails, Keeps, Goto, End
    <2>1. CASE Fault
        BY <1>2, <2>0, <2>1, FineStays, FineLands
    <2>2. CASE ~Fault
        <3> DEFINE n == IF count[c] = NoDoc THEN got[h] ELSE count[c]
        <3>1. SetCount(c, n)
            BY <1>13, <1>0, <2>2 DEF SyncBackfill, SyncFails
        <3>2. n \in Nat /\ n <= Size(c)
            BY <1>0, <2>0 DEF AllFine, Fine, Counted, WarnTypes
        <3>3. Elsewhere(c)
            BY <2>0 DEF AllFine, Elsewhere
        <3> HIDE DEF n
        <3> QED BY <2>0, <3>1, <3>2, <3>3, WrittenFine, FineLands
    <2> QED BY <2>1, <2>2
<1>14. ASSUME UnwarnFind(h) PROVE Lands(h, c)
    <2>1. UNCHANGED <<hist, count>> /\ AllFine
        BY <1>14, <1>2 DEF UnwarnFind, Keeps, stores
    <2>2. CASE pc'[h] = "done"
        BY <2>1, <2>2, FineStays, FineLands
    <2>3. CASE pc'[h] = "unwarn_par"
        <3>1. doc'[h] \in hist[c] /\ par'[h] = {"delete", "dec"}
            BY <1>14, <1>0, <2>3 DEF UnwarnFind, End
        <3>2. AllFine' /\ Elsewhere(c)' /\ Fine(c)'
            BY <2>1, FineStays DEF AllFine, Elsewhere
        <3>3. Unwarning(h, c)'
            BY <2>1, <3>1, <3>2 DEF Unwarning
        <3> QED BY <2>3, <3>2, <3>3 DEF Lands, Keeps
    <2> QED BY <1>14, <1>0, <2>2, <2>3 DEF UnwarnFind, Goto, End
<1>15. ASSUME NEW a \in {"delete", "dec"}, UnwarnCall(h, a) PROVE Lands(h, c)
    <2>0. /\ pc[h] = "unwarn_par" /\ pc'[h] = "unwarn_par" /\ a \in par[h] /\ doc' = doc
          /\ par'[h] = par[h] \ {a} /\ Elsewhere(c) /\ Unwarning(h, c)
        BY <1>15, <1>0 DEF UnwarnCall, Keeps
    <2>1. SUFFICES Elsewhere(c)' /\ Unwarning(h, c)'
        BY <2>0 DEF Lands, Keeps
    <2>2. CASE Fault
        <3>1. bad'[h] = bad[h] \cup {a}
            BY <1>15, <1>0, <2>2, <1>4 DEF UnwarnCall, SetCount
        <3>2. bad'[h] # {} /\ Spent' /\ UNCHANGED <<hist, count>>
            BY <1>2, <2>2, <3>1
        <3>3. Elsewhere(c)'
            BY <2>0, <3>2, FineStays DEF Elsewhere, Fine
        <3>4. Counted(c)' = Counted(c) /\ Size(c)' = Size(c) /\ hist'[c] = hist[c]
            BY <3>2, FineStays
        <3>5. "delete" \in par'[h] => "delete" \in par[h]
            BY <2>0
        <3>6. "delete" \in par[h] => Counted(c) <= Size(c) + 1
            BY <1>1, <2>0 DEF Unwarning, Fine
        <3>7. "dec" \in par'[h] => "dec" \in par[h]
            BY <2>0
        <3> QED BY <2>0, <3>2, <3>3, <3>4, <3>5, <3>6, <3>7 DEF Unwarning, Fine
    <2>3. CASE ~Fault /\ a = "delete"
        <3>1. /\ count' = count /\ hist' = [d \in Chats |-> hist[d] \ {doc[h]}]
              /\ bad[h] # {} => bad'[h] # {}
            BY <1>15, <1>0, <2>3 DEF UnwarnCall
        <3>2. faults' = faults
            BY <1>15, <2>3 DEF UnwarnCall, Works
        <3>3. doc[h] \in hist[c] /\ Fine(c)
            BY <2>0, <2>3 DEF Unwarning
        <3>4. \A d \in Chats : d # c => doc[h] \notin hist[d]
            BY <3>3 DEF Distinct
        <3>5. \A d \in Chats : /\ Size(d)' \in Nat /\ Size(d) <= Size(d)' + 1
                               /\ d # c => Size(d)' = Size(d)
            BY <3>1, <3>4, DeleteSize
        <3>6. \A d \in Chats : Counted(d)' = Counted(d)
            BY <3>1 DEF Counted
        <3>7. Elsewhere(c)'
            BY <2>0, <3>5, <3>6 DEF Elsewhere, Fine
        <3>8. "delete" \notin par'[h] /\ ("dec" \in par'[h] <=> "dec" \in par[h])
            BY <2>0, <2>3
        <3>9. Counted(c)' <= Size(c)' + 1
            BY <1>1, <3>3, <3>5, <3>6 DEF Fine
        <3>10. "dec" \notin par[h] => Fine(c)' \/ (bad[h] # {} /\ Spent)
            BY <1>1, <2>0, <2>3, <3>5, <3>6 DEF Unwarning, Fine
        <3>11. Spent => Spent'
            BY <3>2 DEF Spent
        <3> QED BY <3>1, <3>7, <3>8, <3>9, <3>10, <3>11 DEF Unwarning
    <2>4. CASE ~Fault /\ a = "dec" /\ Counted(c) > 0
        <3>1. SetCount(c, count[c] - 1) /\ bad' = bad
            BY <1>15, <1>0, <1>1, <2>4 DEF UnwarnCall
        <3>2. count[c] \in Nat /\ Counted(c) = count[c] /\ count[c] - 1 \in Nat
            BY <1>0, <2>4 DEF WarnTypes, Counted
        <3>3. /\ \A d \in Chats : Size(d)' = Size(d) /\ (d # c => Counted(d)' = Counted(d))
              /\ Counted(c)' = Counted(c) - 1
            BY <3>1, <3>2, SetSizes DEF NoDoc
        <3>4. Elsewhere(c)'
            BY <2>0, <3>3 DEF Elsewhere, Fine
        <3>5. "dec" \notin par'[h] /\ ("delete" \in par'[h] <=> "delete" \in par[h]) /\ "dec" \in par[h]
            BY <2>0, <2>4
        <3>6. hist' = hist
            BY <3>1 DEF SetCount
        <3>7. "delete" \in par[h] => doc[h] \in hist[c] /\ Counted(c)' + 1 <= Size(c)' /\ Fine(c)'
            BY <1>1, <2>0, <3>3 DEF Unwarning, Fine
        <3>8. "delete" \notin par[h] => Fine(c)'
            BY <1>1, <2>0, <3>3, <3>5 DEF Unwarning, Fine
        <3> QED BY <2>0, <3>4, <3>5, <3>6, <3>7, <3>8 DEF Unwarning
    <2>5. CASE ~Fault /\ a = "dec" /\ ~(Counted(c) > 0)
        <3>1. UNCHANGED <<hist, count>> /\ Counted(c) = 0
            BY <1>15, <1>0, <1>1, <2>5 DEF UnwarnCall, stores
        <3>2. /\ \A d \in Chats : Counted(d)' = Counted(d) /\ Size(d)' = Size(d)
            BY <3>1, FineStays
        <3>3. Elsewhere(c)' /\ Fine(c)' /\ Counted(c)' = 0
            BY <1>1, <2>0, <3>1, <3>2 DEF Elsewhere, Fine
        <3>4. "dec" \notin par'[h] /\ ("delete" \in par'[h] <=> "delete" \in par[h])
            BY <2>0, <2>5
        <3>5. "delete" \in par[h] => doc[h] \in hist[c]
            BY <2>0 DEF Unwarning
        <3> QED BY <2>0, <3>1, <3>3, <3>4, <3>5 DEF Unwarning
    <2> QED BY <1>15, <2>2, <2>3, <2>4, <2>5
<1>16. ASSUME UnwarnJoin(h) PROVE Lands(h, c)
    <2>1. UNCHANGED <<hist, count, faults>> /\ Elsewhere(c) /\ Unwarning(h, c) /\ par[h] = {}
        BY <1>16 DEF UnwarnJoin, Keeps, stores, Works
    <2>2. Fine(c) \/ (bad[h] # {} /\ Spent)
        BY <2>1 DEF Unwarning
    <2>3. CASE bad[h] = {}
        <3>1. pc'[h] = "sync" /\ AllFine
            BY <1>16, <1>0, <2>1, <2>2, <2>3 DEF UnwarnJoin, Goto, AllFine, Elsewhere
        <3> QED BY <2>1, <3>1, FineStays, FineLands
    <2>4. CASE bad[h] # {}
        <3>1. pc'[h] = "recount"
            BY <1>16, <1>0, <2>4 DEF UnwarnJoin, Goto
        <3>2. Elsewhere(c)' /\ (Fine(c)' \/ Spent')
            BY <2>1, <2>2, FineStays DEF Elsewhere, Fine, Spent
        <3> QED BY <3>1, <3>2 DEF Lands, Keeps
    <2> QED BY <2>3, <2>4
<1>17. ASSUME Recount(h) PROVE Lands(h, c)
    <2>1. /\ UNCHANGED <<hist, count>> /\ Elsewhere(c) /\ (Fine(c) \/ Spent)
          /\ pc[h] = "clear_count" => Spent
        BY <1>17, <1>2 DEF Recount, Keeps, stores
    <2>2. CASE Fault
        <3>1. AllFine /\ pc'[h] = "done"
            BY <1>17, <1>0, <1>2, <2>1, <2>2, <1>4 DEF Recount, End, AllFine, Elsewhere
        <3> QED BY <2>1, <3>1, FineStays, FineLands
    <2>3. CASE ~Fault
        <3>1. /\ got'[h] = Size(c) /\ faults' = faults
              /\ pc'[h] = IF pc[h] = "recount" THEN "store" ELSE "clear_store"
            BY <1>17, <1>0, <2>3 DEF Recount, Got, Goto, Size, Works
        <3>2. /\ Elsewhere(c)' /\ (Fine(c)' \/ Spent') /\ got'[h] = Size(c)'
              /\ pc'[h] = "clear_store" => Spent'
            BY <1>17, <2>1, <3>1, FineStays DEF Elsewhere, Fine, Spent, Recount
        <3> QED BY <3>1, <3>2 DEF Lands, Keeps
    <2> QED BY <2>2, <2>3
<1>18. ASSUME StoreCount(h) PROVE Lands(h, c)
    <2>0. /\ Elsewhere(c) /\ got[h] = Size(c) /\ (Fine(c) \/ Spent) /\ pc'[h] \in {"done", "sync"}
        BY <1>18, <1>0 DEF StoreCount, Keeps, Goto, End
    <2>1. CASE Fault
        <3>1. AllFine /\ UNCHANGED <<hist, count>>
            BY <1>2, <2>0, <2>1 DEF AllFine, Elsewhere
        <3> QED BY <2>0, <3>1, FineStays, FineLands
    <2>2. CASE ~Fault
        <3> DEFINE n == IF got[h] = 0 THEN NoDoc ELSE got[h]
        <3>1. SetCount(c, n)
            BY <1>18, <1>0, <2>2 DEF StoreCount
        <3>2. n \in {NoDoc} \cup Nat /\ n <= Size(c)
            BY <1>0, <1>1, <2>0 DEF WarnTypes, NoDoc
        <3> HIDE DEF n
        <3> QED BY <2>0, <3>1, <3>2, WrittenFine, FineLands
    <2> QED BY <2>1, <2>2
<1>19. ASSUME NEW a \in {"warns", "counts"}, ClearCall(h, a) PROVE Lands(h, c)
    <2>0. /\ pc[h] = "clear_par" /\ pc'[h] = "clear_par" /\ a \in par[h] /\ Clearing(h)
          /\ par'[h] = par[h] \ {a} /\ Scope(h)' = Scope(h) /\ Scope(h) \subseteq Chats
        BY <1>19, <1>0 DEF ClearCall, Keeps, Scope
    <2>1. SUFFICES Clearing(h)'
        BY <2>0 DEF Lands, Keeps
    <2>2. CASE Fault
        <3>1. bad'[h] = bad[h] \cup {a}
            BY <1>19, <1>0, <2>2, <1>4 DEF ClearCall
        <3>2. Spent' /\ UNCHANGED <<hist, count>>
            BY <1>2, <2>2
        <3>3. /\ "counts" \notin par'[h] /\ "counts" \notin bad'[h] => "counts" \notin par[h] /\ "counts" \notin bad[h]
              /\ "warns" \in par'[h] => "warns" \in par[h]
            BY <2>0, <3>1
        <3>4. \A d \in Chats : Counted(d)' = Counted(d) /\ Size(d)' = Size(d)
            BY <3>2, FineStays
        <3> QED BY <2>0, <3>2, <3>3, <3>4 DEF Clearing, Fine
    <2>3. CASE ~Fault /\ a = "warns"
        <3>1. /\ count' = count /\ bad' = bad /\ faults' = faults
              /\ hist' = [d \in Chats |-> IF d \in Scope(h) THEN {} ELSE hist[d]]
            BY <1>19, <2>3 DEF ClearCall, Works
        <3>2. "warns" \notin par'[h] /\ ("counts" \in par'[h] <=> "counts" \in par[h])
            BY <2>0, <2>3
        <3>3. \A d \in Chats : Counted(d)' = Counted(d) /\ (d \notin Scope(h) => Size(d)' = Size(d))
            BY <3>1 DEF Counted, Size
        <3>4. Spent => Spent'
            BY <3>1 DEF Spent
        <3> QED BY <2>0, <3>1, <3>2, <3>3, <3>4 DEF Clearing, Fine
    <2>4. CASE ~Fault /\ a = "counts"
        <3>1. /\ hist' = hist /\ bad' = bad /\ faults' = faults
              /\ count' = [d \in Chats |-> IF d \in Scope(h) THEN NoDoc ELSE count[d]]
            BY <1>19, <2>4 DEF ClearCall, Works
        <3>2. "counts" \notin par'[h] /\ ("warns" \in par'[h] <=> "warns" \in par[h])
            BY <2>0, <2>4
        <3>3. \A d \in Chats : Size(d)' = Size(d) /\ Counted(d)' = IF d \in Scope(h) THEN 0 ELSE Counted(d)
            BY <3>1 DEF Counted, Size
        <3>4. Spent => Spent'
            BY <3>1 DEF Spent
        <3> QED BY <1>1, <2>0, <3>1, <3>2, <3>3, <3>4 DEF Clearing, Fine
    <2> QED BY <2>2, <2>3, <2>4
<1>20. ASSUME ClearJoin(h) PROVE Lands(h, c)
    <2>1. /\ UNCHANGED <<hist, count, faults>> /\ Clearing(h) /\ par[h] = {} /\ pc[h] = "clear_par"
        BY <1>20 DEF ClearJoin, Keeps, stores, Works
    <2>2. CASE "counts" \notin bad[h]
        <3>1. pc'[h] = "done"
            BY <1>20, <1>0, <2>2 DEF ClearJoin, End
        <3>2. AllFine
            BY <1>1, <2>1, <2>2 DEF Clearing, AllFine, Fine
        <3> QED BY <2>1, <3>1, <3>2, FineStays, FineLands
    <2>3. CASE "counts" \in bad[h]
        <3>1. pc'[h] = IF kind[h] = "warn" THEN "clear_again" ELSE "clear_count"
            BY <1>20, <1>0, <2>3 DEF ClearJoin, Goto
        <3>2. Spent'
            BY <2>1, <2>3 DEF Clearing, Spent
        <3>3. kind[h] # "warn" => Elsewhere(c)
            BY <1>0, <2>1 DEF Clearing, Elsewhere, Scope
        <3>4. kind[h] # "warn" => Elsewhere(c)'
            BY <2>1, <3>3, FineStays DEF Elsewhere, Fine
        <3> QED BY <3>1, <3>2, <3>4 DEF Lands, Keeps
    <2> QED BY <2>2, <2>3
<1>21. ASSUME ClearAgain(h) PROVE Lands(h, c)
    <2>1. Spent
        BY <1>21 DEF ClearAgain, Keeps
    <2>2. ~Fault
        BY <1>2, <2>1
    <2>3. pc'[h] = "done" /\ hist' = hist /\ count' = [d \in Chats |-> NoDoc]
        BY <1>21, <1>0, <2>2 DEF ClearAgain, End
    <2>4. \A d \in Chats : Counted(d)' = 0 /\ Size(d)' = Size(d)
        BY <2>3 DEF Counted, Size
    <2>5. AllFine'
        BY <1>1, <2>4 DEF AllFine, Fine
    <2> QED BY <2>3, <2>5, FineLands
<1>22. ASSUME WarnList(h) PROVE Lands(h, c)
    <2>1. UNCHANGED <<hist, count>> /\ AllFine
        BY <1>22, <1>2 DEF WarnList, Keeps, stores
    <2>2. pc'[h] \in {"done", "insert", "fed", "autoban", "sync", "sync_count", "find", "list", "repoint", "sweep"}
        BY <1>22, <1>0 DEF WarnList, Goto, End
    <2> QED BY <2>1, <2>2, FineStays, FineLands
<1>23. ASSUME MigrateRepoint(h) PROVE Lands(h, c)
    <2>1. pc[h] = "repoint" /\ pc'[h] = "counters" /\ AllFine
        BY <1>23, <1>0 DEF MigrateRepoint, Keeps, Goto
    <2>2. ~Fault
        BY <1>2, <2>1 DEF Way
    <2>3. count' = count /\ hist' = [hist EXCEPT ![New] = @ \cup hist[Old], ![Old] = {}]
        BY <1>23, <2>2 DEF MigrateRepoint
    <2>4. /\ hist'[New] = hist[New] \cup hist[Old]
          /\ \A d \in Chats \ {Old, New} : hist'[d] = hist[d]
        BY <1>0, <2>3, Repointed
    <2>5. hist[New] \cap hist[Old] = {} /\ IsFiniteSet(hist[New]) /\ IsFiniteSet(hist[Old])
        BY ChatAssumption DEF Distinct
    <2>6. Cardinality({}) = 0
        BY FS_EmptySet
    <2>7. Cardinality(hist[New] \cup hist[Old]) =
            Cardinality(hist[New]) + Cardinality(hist[Old]) - Cardinality(hist[New] \cap hist[Old])
        BY <2>5, FS_Union
    <2>8. Size(New)' = Size(New) + Size(Old)
        <3>1. /\ Size(New)' = Cardinality(hist'[New])
              /\ Size(New) = Cardinality(hist[New]) /\ Size(Old) = Cardinality(hist[Old])
            BY DEF Size
        <3>2. Cardinality(hist[New] \cap hist[Old]) = 0
            BY <2>5, <2>6
        <3>3. Size(New) \in Nat /\ Size(Old) \in Nat
            BY <1>0, <1>1
        <3> QED BY <2>4, <2>7, <3>1, <3>2, <3>3
    <2>9. /\ \A d \in Chats : Counted(d)' = Counted(d)
          /\ \A d \in Chats : d \notin {Old, New} => Size(d)' = Size(d)
        BY <2>3, <2>4 DEF Counted, Size
    <2>10. Counted(Old) <= Size(Old) /\ Counted(New) <= Size(New)
        BY <1>0, <2>1 DEF AllFine, Fine
    <2>11. Counted(Old)' + Counted(New)' <= Size(New)'
        BY <1>0, <1>1, <2>8, <2>9, <2>10
    <2>12. Merged(Counted(Old))'
        BY <2>1, <2>9, <2>11 DEF Merged, AllFine, Fine
    <2> QED BY <2>1, <2>12 DEF Lands, Keeps
<1>24. ASSUME MigrateRead(h) PROVE Lands(h, c)
    <2>1. pc[h] = "counters" /\ Merged(Counted(Old))
        BY <1>24 DEF MigrateRead, Keeps
    <2>2. ~Fault
        BY <1>2, <2>1 DEF Way
    <2>3. /\ UNCHANGED <<hist, count>> /\ got'[h] = Counted(Old)
          /\ pc'[h] = IF Counted(Old) > 0 THEN "take" ELSE "sweep"
        BY <1>24, <1>0, <2>2 DEF MigrateRead, Got, Goto, stores
    <2>4. /\ \A d \in Chats : Counted(d)' = Counted(d) /\ Size(d)' = Size(d)
        BY <2>3, FineStays
    <2>5. CASE Counted(Old) > 0
        <3>1. Merged(Counted(Old))'
            BY <1>0, <2>1, <2>4 DEF Merged, Fine
        <3> QED BY <1>0, <2>3, <2>4, <2>5, <3>1 DEF Lands, Keeps
    <2>6. CASE ~(Counted(Old) > 0)
        <3>1. AllFine'
            BY <1>0, <1>1, <2>1, <2>4, <2>6 DEF Merged, AllFine, Fine
        <3> QED BY <2>3, <2>6, <3>1, FineLands
    <2> QED BY <2>5, <2>6
<1>25. ASSUME MigrateTake(h) PROVE Lands(h, c)
    <2>1. pc[h] = "take" /\ Merged(Counted(Old)) /\ got[h] = Counted(Old)
        BY <1>25 DEF MigrateTake, Keeps
    <2>2. ~Fault
        BY <1>2, <2>1 DEF Way
    <2>3. SetCount(Old, NoDoc) /\ got' = got /\ pc'[h] \in {"sweep", "merge"}
        BY <1>25, <1>0, <2>2 DEF MigrateTake, Goto, locals
    <2>4. /\ \A d \in Chats : Size(d)' = Size(d) /\ (d # Old => Counted(d)' = Counted(d))
          /\ Counted(Old)' = 0
        BY <1>0, <2>3, SetSizes
    <2>5. Merged(got[h])'
        BY <1>0, <2>1, <2>3, <2>4 DEF Merged, Fine
    <2>6. AllFine'
        BY <1>0, <1>1, <2>1, <2>4 DEF Merged, AllFine, Fine
    <2>7. CASE pc'[h] = "sweep"
        BY <2>6, <2>7, FineLands
    <2>8. CASE pc'[h] = "merge"
        BY <2>4, <2>5, <2>8 DEF Lands, Keeps
    <2> QED BY <2>3, <2>7, <2>8
<1>26. ASSUME MigrateMerge(h) PROVE Lands(h, c)
    <2>1. pc[h] = "merge" /\ Merged(got[h]) /\ Counted(Old) = 0
        BY <1>26 DEF MigrateMerge, Keeps
    <2>2. ~Fault
        BY <1>2, <2>1 DEF Way
    <2>3. CASE count[New] # NoDoc
        <3>1. SetCount(New, count[New] + got[h]) /\ pc'[h] = "sweep"
            BY <1>26, <1>0, <2>2, <2>3 DEF MigrateMerge, Goto
        <3>2. count[New] = Counted(New) /\ count[New] + got[h] \in Nat
            BY <1>0, <2>3 DEF WarnTypes, Counted
        <3>3. /\ \A d \in Chats : Size(d)' = Size(d) /\ (d # New => Counted(d)' = Counted(d))
              /\ Counted(New)' = Counted(New) + got[h]
            BY <1>0, <3>1, <3>2, SetSizes DEF NoDoc
        <3>4. AllFine'
            BY <1>0, <1>1, <2>1, <3>3 DEF Merged, AllFine, Fine
        <3> QED BY <3>1, <3>4, FineLands
    <2>4. CASE count[New] = NoDoc
        <3>1. UNCHANGED <<hist, count, got>> /\ pc'[h] = "merge_new"
            BY <1>26, <1>0, <2>2, <2>4 DEF MigrateMerge, Goto, locals, stores
        <3>2. \A d \in Chats : Counted(d)' = Counted(d) /\ Size(d)' = Size(d)
            BY <3>1, FineStays
        <3>3. Merged(got[h])' /\ Counted(Old)' = 0
            BY <1>0, <2>1, <3>1, <3>2 DEF Merged, Fine
        <3> QED BY <3>1, <3>3 DEF Lands, Keeps
    <2> QED BY <2>3, <2>4
<1>27. ASSUME MigrateMergeNew(h) PROVE Lands(h, c)
    <2>1. Merged(got[h]) /\ Counted(Old) = 0 /\ pc'[h] = "sweep"
        BY <1>27, <1>0 DEF MigrateMergeNew, Keeps, Goto
    <2> DEFINE n == IF count[New] = NoDoc THEN got[h] ELSE count[New]
    <2>2. SetCount(New, n)
        BY <1>27 DEF MigrateMergeNew
    <2>3. n \in Nat /\ n <= got[h] + Counted(New)
        BY <1>0 DEF WarnTypes, Counted
    <2> HIDE DEF n
    <2>4. /\ \A d \in Chats : Size(d)' = Size(d) /\ (d # New => Counted(d)' = Counted(d))
          /\ Counted(New)' = n
        BY <1>0, <2>2, <2>3, SetSizes DEF NoDoc
    <2>5. AllFine'
        BY <1>0, <1>1, <2>1, <2>3, <2>4 DEF Merged, AllFine, Fine
    <2> QED BY <2>1, <2>5, FineLands
<1>28. ASSUME MigrateSweep(h) PROVE Lands(h, c)
    <2>1. pc[h] = "sweep" /\ AllFine /\ pc'[h] = "done"
        BY <1>28, <1>0 DEF MigrateSweep, Keeps, End
    <2>2. ~Fault
        BY <1>2, <2>1 DEF Way
    <2>3. SetCount(Old, NoDoc)
        BY <1>28, <2>2 DEF MigrateSweep
    <2>4. /\ \A d \in Chats : Size(d)' = Size(d) /\ (d # Old => Counted(d)' = Counted(d))
          /\ Counted(Old)' = 0
        BY <1>0, <2>3, SetSizes
    <2>5. AllFine'
        BY <1>0, <1>1, <2>1, <2>4 DEF AllFine, Fine
    <2> QED BY <2>1, <2>5, FineLands
<1>29. ASSUME ExpireCutoff(h) PROVE Lands(h, c)
    BY <1>29, <1>0 DEF ExpireCutoff, Way, Guarded
<1>30. ASSUME NEW a \in {"warns", "counts"}, ExpireCall(h, a) PROVE Lands(h, c)
    BY <1>30, <1>0 DEF ExpireCall, Way, Guarded
<1>31. ASSUME ExpireEnd(h) PROVE Lands(h, c)
    BY <1>31, <1>0 DEF ExpireEnd, Way, Guarded
<1> QED BY <1>5, <1>6, <1>7, <1>8, <1>9, <1>10, <1>11, <1>12, <1>13, <1>14, <1>15, <1>16,
           <1>17, <1>18, <1>19, <1>20, <1>21, <1>22, <1>23, <1>24, <1>25, <1>26, <1>27, <1>28,
           <1>29, <1>30, <1>31 DEF Step

\* Handlers that have not overlapped run one at a time.
Serial == overlap \/ \A g, h \in Busy : g = h

\* A handler that is started while another runs overlaps with it.
LEMMA BeginsAlone ==
    ASSUME NEW h \in Handlers, Begins(h), ~overlap'
    PROVE  ~overlap /\ Busy = {}
<1>1. overlap' = (overlap \/ Busy # {})
    BY DEF Begins
<1> QED BY <1>1, Zenon

\* Every step keeps Serial.
LEMMA SerialNext == WarnTypes /\ Serial /\ [Next]_vars => Serial'
<1> SUFFICES ASSUME WarnTypes, Serial, [Next]_vars, ~overlap' PROVE \A g, h \in Busy' : g = h
    BY DEF Serial
<1>1. CASE UNCHANGED vars \/ Migrate \/ Terminated
    BY <1>1 DEF vars, Migrate, Terminated, Serial, Busy
<1>2. CASE Crash
    BY <1>2 DEF Crash, Busy
<1>3. ASSUME NEW h \in Handlers, Dispatch(h) PROVE \A f, g \in Busy' : f = g
    <2>1. Begins(h)
        BY <1>3, DispatchBegins
    <2>2. Busy = {}
        BY <2>1, BeginsAlone
    <2> QED BY <2>1, <2>2 DEF Begins, Busy
<1>4. ASSUME NEW h \in Handlers, Step(h) PROVE \A f, g \in Busy' : f = g
    <2>1. \A g \in Handlers : WarnRests(h, g)
        BY <1>4, WarnOthersRest
    <2>2. ~overlap /\ Busy' \subseteq Busy
        BY <1>4, <2>1, WarnRunning DEF WarnRests, Busy
    <2> QED BY <2>2 DEF Serial
<1> QED BY <1>1, <1>2, <1>3, <1>4 DEF Next

\* Failures only add up.
LEMMA NoMoreFaults ==
    ASSUME NEW m \in Nat, NEW f \in Nat, NEW g \in Nat, g <= f, g + 1 >= m
    PROVE  f + 1 >= m
OBVIOUS

\* What excepts a run from NoEarlyBan stays.
LEMMA GuardedBefore == WarnTypes /\ Way /\ [Next]_vars /\ Guarded' => Guarded
<1> SUFFICES ASSUME WarnTypes, Way, [Next]_vars, Guarded' PROVE Guarded
    OBVIOUS
<1>1. CASE UNCHANGED vars \/ Migrate \/ Terminated
    BY <1>1 DEF vars, Migrate, Terminated, Guarded, control
<1>2. CASE Crash
    <2>1. PICK h \in Handlers : h \in Busy
        BY <1>2 DEF Crash, Busy
    <2>2. pc'[h] = "done" /\ outcome'[h] = "died"
        BY <1>2, <2>1 DEF Crash
    <2> QED BY <2>2 DEF Guarded
<1>3. ASSUME NEW h \in Handlers, Dispatch(h) PROVE Guarded
    <2>1. Begins(h)
        BY <1>3, DispatchBegins
    <2>2. ~overlap
        BY <2>1, BeginsAlone DEF Guarded
    <2> QED BY <2>1, <2>2 DEF Begins, Guarded
<1>4. ASSUME NEW h \in Handlers, Step(h) PROVE Guarded
    <2>1. \A g \in Handlers : WarnRests(h, g)
        BY <1>4, WarnOthersRest
    <2>2. pc[h] \notin {"idle", "done"} /\ pc'[h] # "idle" /\ outcome[h] = "none"
        BY <1>4, WarnRunning DEF Way
    <2>3. faults \in Nat /\ faults' \in Nat /\ MaxFaults \in Nat /\ faults' <= faults /\ faults <= MaxFaults
        BY <1>4, StepMayFail, BoundAssumption DEF WarnTypes, Works, Fault
    <2>4. ~overlap /\ faults + 1 >= MaxFaults
        <3>1. overlap' = overlap
            BY <2>1 DEF WarnRests
        <3>2. ~overlap'
            BY DEF Guarded
        <3>3. faults' + 1 >= MaxFaults
            BY DEF Guarded
        <3>4. faults + 1 >= MaxFaults
            BY <2>3, <3>3, NoMoreFaults
        <3> QED BY <3>1, <3>2, <3>4
    <2>5. \A g \in Handlers : kind[g] = "migrate" /\ pc[g] # "idle" => faults = MaxFaults
        BY <2>1, <2>2, <2>3, BoundAssumption DEF WarnRests, Guarded
    <2>6. \A g \in Handlers : pc[g] = "idle" \/ (outcome[g] # "died" /\ kind[g] # "expire")
        BY <2>1, <2>2 DEF WarnRests, Guarded
    <2> QED BY <2>4, <2>5, <2>6 DEF Guarded
<1> QED BY <1>1, <1>2, <1>3, <1>4 DEF Next

\* Where an operation begins, the counters are as the one before it left them.
LEMMA BeginsFine ==
    ASSUME WarnTypes, WarnTypes', Way, Guarded', NEW h \in Handlers, Begins(h), AllFine, NEW c \in Chats
    PROVE  Keeps(h, c)'
<1>1. AllFine' /\ bad'[h] = {}
    BY FineStays DEF Begins, Way
<1>2. pc'[h] \in {"insert", "sync", "list", "repoint"} \/ (pc'[h] = "clear_par" /\ par'[h] = {"warns", "counts"})
    BY DEF Begins, Guarded
<1>3. CASE pc'[h] = "clear_par"
    <2>1. Scope(h)' \subseteq Chats
        BY DEF Scope, WarnTypes
    <2>2. Clearing(h)'
        BY <1>1, <1>2, <1>3, <2>1 DEF Clearing, AllFine
    <2> QED BY <1>3, <2>2 DEF Keeps
<1>4. CASE pc'[h] \in {"insert", "sync", "list", "repoint"}
    BY <1>1, <1>4 DEF Keeps
<1> QED BY <1>2, <1>3, <1>4

\* Every step keeps EarlyInv.
LEMMA EarlyNext == WarnTypes /\ Distinct /\ Way /\ Serial /\ EarlyInv /\ [Next]_vars => EarlyInv'
<1> SUFFICES ASSUME WarnTypes, Distinct, Way, Serial, EarlyInv, [Next]_vars, Guarded'
             PROVE  /\ Busy' = {} => AllFine'
                    /\ \A h \in Busy', c \in Chats : chat'[h] = c => Keeps(h, c)'
    BY DEF EarlyInv
<1>0. Guarded /\ ~overlap
    BY GuardedBefore DEF Guarded
<1>a. (Busy = {} => AllFine) /\ \A h \in Busy, c \in Chats : chat[h] = c => Keeps(h, c)
    BY <1>0 DEF EarlyInv
<1>1. CASE UNCHANGED vars \/ Migrate \/ Terminated
    <2>1. UNCHANGED <<hist, count, faults, kind, chat, pc, got, doc, par, bad, tries>>
        BY <1>1 DEF vars, Migrate, Terminated, stores, control, locals
    <2>2. Busy' = Busy /\ AllFine' = AllFine
        BY <2>1 DEF Busy, AllFine, Fine, Counted, Size
    <2>3. \A h \in Busy, c \in Chats : Keeps(h, c)' = Keeps(h, c)
        BY <2>1 DEF Keeps, AllFine, Fine, Elsewhere, Merged, Unwarning, Clearing, Scope, Spent, Counted, Size
    <2> QED BY <1>a, <2>1, <2>2, <2>3
<1>2. CASE Crash
    <2>1. PICK h \in Handlers : h \in Busy
        BY <1>2 DEF Crash, Busy
    <2>2. pc'[h] = "done" /\ outcome'[h] = "died"
        BY <1>2, <2>1 DEF Crash
    <2> QED BY <2>2 DEF Guarded
<1>3. ASSUME NEW h \in Handlers, Dispatch(h)
      PROVE  /\ Busy' = {} => AllFine'
             /\ \A g \in Busy', c \in Chats : chat'[g] = c => Keeps(g, c)'
    <2>1. Begins(h) /\ WarnTypes'
        BY <1>3, DispatchBegins
    <2>2. Busy = {} /\ AllFine
        BY <1>a, <2>1, BeginsAlone DEF Guarded
    <2>3. Busy' = {h}
        BY <2>1, <2>2 DEF Begins, Busy
    <2> QED BY <2>1, <2>2, <2>3, BeginsFine
<1>4. ASSUME NEW h \in Handlers, Step(h)
      PROVE  /\ Busy' = {} => AllFine'
             /\ \A g \in Busy', c \in Chats : chat'[g] = c => Keeps(g, c)'
    <2>1. \A g \in Handlers : WarnRests(h, g)
        BY <1>4, WarnOthersRest
    <2>2. pc[h] \notin {"idle", "done"} /\ pc'[h] # "idle"
        BY <1>4, WarnRunning
    <2>3. Busy = {h}
        BY <1>0, <2>2 DEF Serial, Busy
    <2>4. Busy' \subseteq {h} /\ (h \notin Busy' => pc'[h] = "done")
        BY <2>1, <2>2, <2>3 DEF WarnRests, Busy
    <2>5. chat' = chat /\ chat[h] \in Chats
        BY <2>1 DEF WarnRests, WarnTypes
    <2>6. Keeps(h, chat[h])
        BY <1>a, <2>3, <2>5
    <2>7. Lands(h, chat[h])
        BY <1>0, <1>4, <2>5, <2>6, EarlyStep
    <2>8. pc'[h] # "done" => h \in Busy'
        BY <2>2 DEF Busy
    <2>9. \A g \in Busy' : g = h /\ pc'[g] # "done"
        BY <2>4 DEF Busy
    <2> QED BY <2>4, <2>5, <2>7, <2>8, <2>9 DEF Lands
<1> QED BY <1>1, <1>2, <1>3, <1>4 DEF Next

\* For any chats, limits and number of operations, one after the other, of which any
\* one database call may fail: no counter is above the history of its chat, so that
\* nobody is banned for warnings that were removed (add_warn, remove_last_warn,
\* _clear_warn_docs, warn_count, migrate_records and their repairs).
THEOREM CounterNeverAhead == Spec => []NoEarlyBan
<1>1. Init => Serial /\ EarlyInv
    <2> SUFFICES ASSUME Init PROVE Serial /\ EarlyInv
        OBVIOUS
    <2>1. Busy = {}
        BY DEF Init, Busy
    <2>2. \A c \in Chats : hist[c] = {} \/ hist[c] = {1}
        BY DEF Init
    <2>3. Cardinality({}) = 0 /\ Cardinality({1}) = 1
        BY FS_EmptySet, FS_Singleton
    <2>4. \A c \in Chats : count[c] = IF hist[c] = {} THEN NoDoc ELSE 1
        BY DEF Init
    <2>5. \A c \in Chats : Fine(c)
        <3> SUFFICES ASSUME NEW c \in Chats PROVE Fine(c)
            OBVIOUS
        <3>1. CASE hist[c] = {}
            <4>1. Counted(c) = 0
                BY <2>4, <3>1 DEF Counted
            <4>2. Size(c) = 0
                BY <2>3, <3>1 DEF Size
            <4> QED BY <4>1, <4>2 DEF Fine
        <3>2. CASE hist[c] = {1}
            <4>1. Counted(c) = 1
                BY <2>4, <3>2 DEF Counted, NoDoc
            <4>2. Size(c) = 1
                BY <2>3, <3>2 DEF Size
            <4> QED BY <4>1, <4>2 DEF Fine
        <3> QED BY <2>2, <3>1, <3>2
    <2> QED BY <2>1, <2>5 DEF Serial, EarlyInv, AllFine
<1>2. EarlyInv => NoEarlyBan
    <2> SUFFICES ASSUME EarlyInv, Busy = {}, Guarded PROVE \A c \in Chats : Counted(c) <= Cardinality(hist[c])
        BY DEF NoEarlyBan, Guarded, Started
    <2> QED BY DEF EarlyInv, AllFine, Fine, Size
<1> QED BY WarnTypesInit, WarnTypesNext, WayInit, WayNext, SerialNext, EarlyNext, <1>1, <1>2, PTL DEF Spec
=============================================================================
