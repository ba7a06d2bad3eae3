------------------------------ MODULE Warnings ------------------------------
(***************************************************************************)
(* The warnings of one user: the history records, the per-chat counter       *)
(* documents that gate the automatic ban, and the migration of a basic group *)
(* to a supergroup.                                                         *)
(*                                                                         *)
(* History and counters are two collections that no transaction spans.  A    *)
(* step is the code between two awaits, or one of the calls that a gather    *)
(* runs side by side.  An upsert that finds no document is two steps, the    *)
(* match and the insert: the unique index rejects the loser of a race.       *)
(*                                                                         *)
(* The automatic ban itself is the subject of Federation; here it is the     *)
(* event that enforcement worked somewhere, which clears all warnings, or    *)
(* nowhere.                                                                 *)
(***************************************************************************)
EXTENDS Integers, FiniteSets, Functions

CONSTANTS
    Chats,      \* federation groups
    Old, New,   \* the basic group and the supergroup it becomes
    Limit,      \* cfg.warn_limit
    FedLimit,   \* cfg.fed_warn_limit; 0 is off
    Handlers,   \* handler instances; each runs at most once
    Kinds,      \* which operations this instance may start
    MaxBusy,    \* bound: handlers in flight at the same time
    MaxFaults   \* bound: failing database calls and process crashes

ASSUME ChatAssumption == {Old, New} \subseteq Chats /\ Old # New
ASSUME LimitAssumption == Limit \in Nat \ {0} /\ FedLimit \in Nat
ASSUME BoundAssumption == MaxFaults \in Nat

VARIABLES
    hist,       \* warns: the record ids of each chat; a higher id is newer
    count,      \* warn_counts: the count of each chat, or NoDoc
    next,       \* id of the next history record
    moved,      \* Telegram has turned Old into New
    faults,     \* database failures and crashes still to happen
    kind, pc,   \* per handler: operation and control point
    chat,       \* per handler: the chat it works on
    got,        \* per handler: the count it read last
    doc,        \* per handler: the record it inserted or found; 0 for none
    par,        \* per handler: gathered calls still running
    bad,        \* per handler: gathered calls that raised, or matched nothing
    tries,      \* per handler: attempts already made
    outcome,    \* per handler: what it told its operator
    overlap     \* history: two handlers overlapped

NoDoc == -1
stores == <<hist, count, next>>
locals == <<got, doc, par, bad, tries>>
control == <<kind, chat>>
vars == <<stores, moved, faults, control, pc, locals, outcome, overlap>>

AllKinds == {"warn", "unwarn", "reset", "list", "migrate", "expire"}
Points == {"idle", "done", "insert", "inc", "inc_new", "rollback", "fed", "autoban",
           "sync", "sync_count", "sync_fill", "find", "unwarn_par", "recount", "store",
           "clear_par", "clear_again", "clear_count", "clear_store", "list",
           "repoint", "counters", "take", "merge", "merge_new", "sweep", "expire", "expire_par"}
Outcomes == {"none", "failed", "warned", "fired", "banned", "nothing", "removed", "cleared",
             "listed", "migrated", "expired", "died"}

Busy == {h \in Handlers : pc[h] \notin {"idle", "done"}}

\* The chats a command can come from: a basic group is dead once it is moved.
Live == Chats \ {IF moved THEN Old ELSE New}

Counted(c) == IF count[c] = NoDoc THEN 0 ELSE count[c]

\* federation_warn_count: the sum over the counter documents.
federation_warn_count == SumFunction([c \in Chats |-> Counted(c)])

\* Some counter has reached a limit that bans.
LimitReached ==
    (\E c \in Chats : Counted(c) >= Limit) \/ (FedLimit > 0 /\ federation_warn_count >= FedLimit)

(***************************************************************************)
(* Calls that may fail, and how a handler moves on                          *)
(***************************************************************************)
Fault == faults > 0 /\ faults' = faults - 1 /\ UNCHANGED stores
Works == faults' = faults

Goto(h, l) == pc' = [pc EXCEPT ![h] = l] /\ outcome' = outcome
End(h, o) == pc' = [pc EXCEPT ![h] = "done"] /\ outcome' = [outcome EXCEPT ![h] = o]

SetCount(c, n) == count' = [count EXCEPT ![c] = n] /\ UNCHANGED <<hist, next>>
Got(h, n) == got' = [got EXCEPT ![h] = n]
Forget(h) == doc' = [doc EXCEPT ![h] = 0]
Frame == UNCHANGED <<moved, control, overlap>>

\* The user has at most one warning and is below the limits.
Init ==
    /\ hist \in [Chats -> {{}, {1}}]
    /\ \A c \in Chats : c # Old => hist[c] = {}
    /\ count = [c \in Chats |-> IF hist[c] = {} THEN NoDoc ELSE 1]
    /\ next = (IF hist[Old] = {} THEN 1 ELSE 2) /\ ~LimitReached
    /\ moved = FALSE /\ faults = MaxFaults
    /\ kind = [h \in Handlers |-> "warn"] /\ pc = [h \in Handlers |-> "idle"]
    /\ chat = [h \in Handlers |-> Old]
    /\ got = [h \in Handlers |-> 0] /\ doc = [h \in Handlers |-> 0]
    /\ par = [h \in Handlers |-> {}] /\ bad = [h \in Handlers |-> {}]
    /\ tries = [h \in Handlers |-> 0] /\ outcome = [h \in Handlers |-> "none"]
    /\ overlap = FALSE

(***************************************************************************)
(* Dispatch                                                                 *)
(***************************************************************************)
Start(h, k, c, l) ==
    /\ k \in Kinds /\ pc[h] = "idle" /\ Cardinality(Busy) < MaxBusy
    /\ kind' = [kind EXCEPT ![h] = k] /\ chat' = [chat EXCEPT ![h] = c]
    /\ pc' = [pc EXCEPT ![h] = l]
    /\ par' = [par EXCEPT ![h] = IF l = "clear_par" THEN {"warns", "counts"} ELSE {}]
    /\ overlap' = (overlap \/ Busy # {})
    /\ UNCHANGED <<stores, moved, faults, got, doc, bad, tries, outcome>>

\* The warn conversation has collected its reason and proof.
_exec_warn(h, c) == c \in Live /\ Start(h, "warn", c, "insert")

cmd_unwarn(h, c) ==
    c \in Live /\ Start(h, "unwarn", c, "sync")

\* clear_warns starts both deletes at once.
cmd_resetwarns(h, c) == c \in Live /\ Start(h, "reset", c, "clear_par")

cmd_warnlist(h, c) == c \in Live /\ Start(h, "list", c, "list")

\* Telegram turns the basic group into a supergroup.
Migrate == ~moved /\ moved' = TRUE /\ UNCHANGED <<stores, faults, control, pc, locals, outcome, overlap>>

\* The service message in the supergroup; it is delivered again when the
\* process died before it was acknowledged.
on_chat_migration(h) ==
    /\ moved
    /\ \A g \in Handlers : kind[g] = "migrate" /\ pc[g] # "idle" => outcome[g] = "died"
    /\ Start(h, "migrate", New, "repoint")

\* The scheduler's daily job, or the cron endpoint of a serverless deployment.
expire_old_warns(h) == Start(h, "expire", Old, "expire")

(***************************************************************************)
(* add_warn and execute_warn                                                *)
(***************************************************************************)
WarnInsert(h) ==
    /\ pc[h] = "insert"
    /\ \/ /\ Works /\ Goto(h, "inc")
          /\ hist' = [hist EXCEPT ![chat[h]] = @ \cup {next}] /\ next' = next + 1
          /\ doc' = [doc EXCEPT ![h] = next] /\ count' = count
       \/ Fault /\ End(h, "failed") /\ doc' = doc
    /\ UNCHANGED <<got, par, bad, tries>> /\ Frame

\* The threshold check on the count that the increment returned.
Check(h, n) ==
    IF n >= Limit THEN Goto(h, "autoban")
    ELSE IF FedLimit > 0 THEN Goto(h, "fed") ELSE End(h, "warned")

\* _inc_warn_count: the match phase.  A failure rolls the insert back.
WarnInc(h) ==
    /\ pc[h] = "inc"
    /\ \/ /\ Works /\ count[chat[h]] # NoDoc
          /\ SetCount(chat[h], count[chat[h]] + 1) /\ Check(h, count[chat[h]] + 1) /\ Forget(h)
       \/ Works /\ count[chat[h]] = NoDoc /\ Goto(h, "inc_new") /\ doc' = doc /\ UNCHANGED stores
       \/ Fault /\ Goto(h, "rollback") /\ doc' = doc
    /\ UNCHANGED <<got, par, bad, tries>> /\ Frame

\* Mutation: the loser of the insert race takes the winner's count.
WarnIncNew_NoRetry(h) ==
    /\ pc[h] = "inc_new" /\ Works /\ Check(h, 1) /\ Forget(h)
    /\ SetCount(chat[h], IF count[chat[h]] = NoDoc THEN 1 ELSE count[chat[h]])
    /\ UNCHANGED <<got, par, bad, tries>> /\ Frame

\* _inc_warn_count: the insert phase of the upsert.  The loser of the race
\* tries once more.
WarnIncNew(h) ==
    /\ pc[h] = "inc_new" /\ Works
    /\ \/ /\ count[chat[h]] = NoDoc /\ SetCount(chat[h], 1) /\ Check(h, 1) /\ Forget(h)
          /\ tries' = tries
       \/ /\ count[chat[h]] # NoDoc /\ UNCHANGED <<stores, doc>>
          /\ tries' = [tries EXCEPT ![h] = @ + 1]
          /\ Goto(h, IF tries[h] = 0 THEN "inc" ELSE "rollback")
    /\ UNCHANGED <<got, par, bad>> /\ Frame

\* The record is deleted by its id, wherever a migration has put it.
WarnRollback(h) ==
    /\ pc[h] = "rollback" /\ End(h, "failed")
    /\ \/ Works /\ hist' = [c \in Chats |-> hist[c] \ {doc[h]}] /\ UNCHANGED <<count, next>>
       \/ Fault
    /\ UNCHANGED locals /\ Frame

\* Mutation: the federation-wide count must exceed the limit.
WarnFed_Strict(h) ==
    /\ pc[h] = "fed" /\ Works /\ UNCHANGED stores
    /\ IF federation_warn_count > FedLimit THEN Goto(h, "autoban") ELSE End(h, "warned")
    /\ UNCHANGED locals /\ Frame

\* A failed aggregate read reports the recorded warning and leaves the check
\* to the next one.
WarnFed(h) ==
    /\ pc[h] = "fed"
    /\ \/ /\ Works /\ UNCHANGED stores
          /\ IF federation_warn_count >= FedLimit THEN Goto(h, "autoban") ELSE End(h, "warned")
       \/ Fault /\ End(h, "warned")
    /\ UNCHANGED locals /\ Frame

\* _execute_warn_auto_ban: the warnings of every chat go once the ban is
\* enforced in some chat; they stay when it is nowhere, and for staff.
WarnAutoBan(h) ==
    /\ pc[h] = "autoban" /\ Works /\ UNCHANGED stores
    /\ \/ Goto(h, "clear_par") /\ par' = [par EXCEPT ![h] = {"warns", "counts"}]
       \/ End(h, "fired") /\ par' = par
    /\ UNCHANGED <<got, doc, bad, tries>> /\ Frame

(***************************************************************************)
(* warn_count: the counter document, backfilled from history when missing   *)
(***************************************************************************)
\* execute_unwarn reads the count before and after the removal; after it, a
\* failed read only changes the number shown.
Synced(h, n) ==
    /\ Got(h, 0)
    /\ IF doc[h] # 0 THEN End(h, "removed")
       ELSE IF n = 0 THEN End(h, "nothing") ELSE Goto(h, "find")

SyncFails(h) == Fault /\ Got(h, 0) /\ End(h, IF doc[h] # 0 THEN "removed" ELSE "failed")

SyncRead(h) ==
    /\ pc[h] = "sync"
    /\ \/ /\ Works /\ UNCHANGED stores
          /\ \/ count[chat[h]] # NoDoc /\ Synced(h, count[chat[h]])
             \/ count[chat[h]] = NoDoc /\ got' = got /\ Goto(h, "sync_count")
       \/ SyncFails(h)
    /\ UNCHANGED <<doc, par, bad, tries>> /\ Frame

SyncCount(h) ==
    LET n == Cardinality(hist[chat[h]]) IN
    /\ pc[h] = "sync_count"
    /\ \/ /\ Works /\ UNCHANGED stores
          /\ \/ n = 0 /\ Synced(h, 0)
             \/ n > 0 /\ Got(h, n) /\ Goto(h, "sync_fill")
       \/ SyncFails(h)
    /\ UNCHANGED <<doc, par, bad, tries>> /\ Frame

\* $setOnInsert: whoever created the document first wins, and its count is
\* returned.
SyncBackfill(h) ==
    LET n == IF count[chat[h]] = NoDoc THEN got[h] ELSE count[chat[h]] IN
    /\ pc[h] = "sync_fill"
    /\ \/ Works /\ SetCount(chat[h], n) /\ Synced(h, n)
       \/ SyncFails(h)
    /\ UNCHANGED <<doc, par, bad, tries>> /\ Frame

(***************************************************************************)
(* remove_last_warn                                                         *)
(***************************************************************************)
UnwarnFind(h) ==
    /\ pc[h] = "find"
    /\ \/ /\ Works /\ UNCHANGED stores
          /\ \/ hist[chat[h]] = {} /\ End(h, "nothing") /\ UNCHANGED <<doc, par>>
             \/ /\ Goto(h, "unwarn_par")
                /\ \E i \in hist[chat[h]] : /\ \A j \in hist[chat[h]] : j <= i
                                            /\ doc' = [doc EXCEPT ![h] = i]
                /\ par' = [par EXCEPT ![h] = {"delete", "dec"}]
       \/ Fault /\ End(h, "failed") /\ UNCHANGED <<doc, par>>
    /\ UNCHANGED <<got, bad, tries>> /\ Frame

\* The delete and the decrement run side by side.  bad collects the delete
\* that raised ("delete"), the delete that found nothing ("gone"), and the
\* decrement that raised or matched no positive count ("dec").
UnwarnCall(h, a) ==
    /\ pc[h] = "unwarn_par" /\ a \in par[h]
    /\ par' = [par EXCEPT ![h] = @ \ {a}]
    /\ \/ /\ Works /\ a = "delete"
          /\ hist' = [c \in Chats |-> hist[c] \ {doc[h]}] /\ UNCHANGED <<count, next>>
          /\ bad' = IF doc[h] \in UNION {hist[c] : c \in Chats} THEN bad
                    ELSE [bad EXCEPT ![h] = @ \cup {"gone"}]
       \/ Works /\ a = "dec" /\ Counted(chat[h]) > 0 /\ bad' = bad /\ SetCount(chat[h], count[chat[h]] - 1)
       \/ /\ Works /\ a = "dec" /\ Counted(chat[h]) = 0 /\ UNCHANGED stores
          /\ bad' = [bad EXCEPT ![h] = @ \cup {"dec"}]
       \/ Fault /\ bad' = [bad EXCEPT ![h] = @ \cup {a}]
    /\ UNCHANGED <<pc, outcome, got, doc, tries>> /\ Frame

\* Mutation: the counter is repaired only after a failed delete.
UnwarnJoin_NoRepair(h) ==
    /\ pc[h] = "unwarn_par" /\ par[h] = {} /\ Works
    /\ Goto(h, IF bad[h] \cap {"delete", "gone"} = {} THEN "sync" ELSE "recount")
    /\ UNCHANGED <<stores, locals>> /\ Frame

\* Every odd result repairs the counter from history.
UnwarnJoin(h) ==
    /\ pc[h] = "unwarn_par" /\ par[h] = {} /\ Works
    /\ Goto(h, IF bad[h] = {} THEN "sync" ELSE "recount")
    /\ UNCHANGED <<stores, locals>> /\ Frame

\* _recount_and_store, the count.
Recount(h) ==
    /\ pc[h] \in {"recount", "clear_count"}
    /\ \/ /\ Works /\ UNCHANGED stores /\ Got(h, Cardinality(hist[chat[h]]))
          /\ Goto(h, IF pc[h] = "recount" THEN "store" ELSE "clear_store")
       \/ /\ Fault /\ got' = got
          /\ End(h, IF pc[h] = "recount" \/ "warns" \in bad[h] THEN "failed" ELSE "cleared")
    /\ UNCHANGED <<doc, par, bad, tries>> /\ Frame

\* _store_warn_count, and what the caller does next: a failed delete raises, a
\* record that was gone counts as nothing removed.
StoreCount(h) ==
    /\ pc[h] \in {"store", "clear_store"}
    /\ \/ /\ Works /\ SetCount(chat[h], IF got[h] = 0 THEN NoDoc ELSE got[h])
          /\ IF pc[h] = "clear_store"
             THEN End(h, IF "warns" \in bad[h] THEN "failed" ELSE "cleared")
             ELSE IF "delete" \in bad[h] THEN End(h, "failed")
             ELSE IF "gone" \in bad[h] THEN End(h, "nothing") ELSE Goto(h, "sync")
       \/ /\ Fault
          /\ End(h, IF pc[h] = "store" \/ "warns" \in bad[h] THEN "failed" ELSE "cleared")
    /\ Got(h, 0) /\ UNCHANGED <<doc, par, bad, tries>> /\ Frame

(***************************************************************************)
(* _clear_warn_docs: clear_warns for one chat, clear_all_warns for all      *)
(***************************************************************************)
Scope(h) == IF kind[h] = "warn" THEN Chats ELSE {chat[h]}

\* The history delete and the counter delete run side by side.
ClearCall(h, a) ==
    /\ pc[h] = "clear_par" /\ a \in par[h]
    /\ par' = [par EXCEPT ![h] = @ \ {a}]
    /\ \/ /\ Works /\ a = "warns" /\ UNCHANGED <<count, next, bad>>
          /\ hist' = [c \in Chats |-> IF c \in Scope(h) THEN {} ELSE hist[c]]
       \/ /\ Works /\ a = "counts" /\ UNCHANGED <<hist, next, bad>>
          /\ count' = [c \in Chats |-> IF c \in Scope(h) THEN NoDoc ELSE count[c]]
       \/ Fault /\ bad' = [bad EXCEPT ![h] = @ \cup {a}]
    /\ UNCHANGED <<pc, outcome, got, doc, tries>> /\ Frame

\* The end of a clear: a clear after an automatic ban only logs its failure.
Cleared(h) == IF kind[h] = "warn" THEN "banned" ELSE IF "warns" \in bad[h] THEN "failed" ELSE "cleared"

\* A failed counter delete is repaired: recounted for one chat, retried for all.
ClearJoin(h) ==
    /\ pc[h] = "clear_par" /\ par[h] = {} /\ Works
    /\ IF "counts" \notin bad[h] THEN End(h, Cleared(h))
       ELSE Goto(h, IF kind[h] = "warn" THEN "clear_again" ELSE "clear_count")
    /\ UNCHANGED <<stores, locals>> /\ Frame

\* _repair_counter_delete, federation-wide: three attempts.
ClearAgain(h) ==
    /\ pc[h] = "clear_again"
    /\ \/ /\ Works /\ count' = [c \in Chats |-> NoDoc] /\ UNCHANGED <<hist, next>>
          /\ End(h, "banned") /\ tries' = tries
       \/ /\ Fault /\ tries' = [tries EXCEPT ![h] = @ + 1]
          /\ IF tries[h] < 2 THEN Goto(h, "clear_again") ELSE End(h, "banned")
    /\ UNCHANGED <<got, doc, par, bad>> /\ Frame

\* execute_warnlist reads the history.
WarnList(h) ==
    /\ pc[h] = "list"
    /\ \/ Works /\ UNCHANGED stores /\ End(h, IF hist[chat[h]] = {} THEN "nothing" ELSE "listed")
       \/ Fault /\ End(h, "failed")
    /\ UNCHANGED locals /\ Frame

(***************************************************************************)
(* migrate_records                                                          *)
(***************************************************************************)
\* _repoint_chat moves the history; a failure is logged and the counters are
\* merged all the same.
MigrateRepoint(h) ==
    /\ pc[h] = "repoint" /\ Goto(h, "counters")
    /\ \/ /\ Works /\ UNCHANGED <<count, next>>
          /\ hist' = [hist EXCEPT ![New] = @ \cup hist[Old], ![Old] = {}]
       \/ Fault
    /\ UNCHANGED locals /\ Frame

MigrateRead(h) ==
    /\ pc[h] = "counters"
    /\ \/ /\ Works /\ UNCHANGED stores /\ Got(h, Counted(Old))
          /\ Goto(h, IF Counted(Old) > 0 THEN "take" ELSE "sweep")
       \/ Fault /\ got' = got /\ End(h, "migrated")
    /\ UNCHANGED <<doc, par, bad, tries>> /\ Frame

\* The atomic take; what is added later is the count read before it.
MigrateTake(h) ==
    /\ pc[h] = "take"
    /\ \/ Works /\ SetCount(Old, NoDoc) /\ Goto(h, IF count[Old] = NoDoc THEN "sweep" ELSE "merge")
       \/ Fault /\ Goto(h, "sweep")
    /\ UNCHANGED locals /\ Frame

MigrateMerge(h) ==
    /\ pc[h] = "merge"
    /\ \/ Works /\ count[New] # NoDoc /\ SetCount(New, count[New] + got[h]) /\ Goto(h, "sweep")
       \/ Works /\ count[New] = NoDoc /\ UNCHANGED stores /\ Goto(h, "merge_new")
       \/ Fault /\ Goto(h, "sweep")
    /\ UNCHANGED locals /\ Frame

\* The insert phase; the loser of the race drops the count.
MigrateMergeNew(h) ==
    /\ pc[h] = "merge_new" /\ Works /\ Goto(h, "sweep")
    /\ SetCount(New, IF count[New] = NoDoc THEN got[h] ELSE count[New])
    /\ UNCHANGED locals /\ Frame

MigrateSweep(h) ==
    /\ pc[h] = "sweep" /\ End(h, "migrated")
    /\ \/ Works /\ SetCount(Old, NoDoc)
       \/ Fault
    /\ Got(h, 0) /\ UNCHANGED <<doc, par, bad, tries>> /\ Frame

(***************************************************************************)
(* expire_old_warns, daily: both collections are pruned side by side, the    *)
(* history by the age of each record, the counters by their last update.     *)
(***************************************************************************)
\* Record ids order the records by age; the cutoff is days ago, so a warning
\* that is being recorded is never older.
ExpireCutoff(h) ==
    /\ pc[h] = "expire" /\ Works /\ Goto(h, "expire_par")
    /\ \E k \in 1..next :
         /\ \A g \in Busy : kind[g] = "warn" /\ doc[g] # 0 => k <= doc[g]
         /\ Got(h, k)
    /\ par' = [par EXCEPT ![h] = {"warns", "counts"}]
    /\ UNCHANGED <<stores, doc, bad, tries>> /\ Frame

\* A counter is as young as the youngest record of its chat; it is younger when
\* an unwarn, a repair or a migration wrote it last.
ExpireCall(h, a) ==
    /\ pc[h] = "expire_par" /\ a \in par[h]
    /\ par' = [par EXCEPT ![h] = @ \ {a}]
    /\ \/ /\ Works /\ a = "warns" /\ UNCHANGED <<count, next>>
          /\ hist' = [c \in Chats |-> {i \in hist[c] : i >= got[h]}]
       \/ /\ Works /\ a = "counts" /\ UNCHANGED <<hist, next>>
          /\ \E gone \in SUBSET {c \in Chats : \A i \in hist[c] : i < got[h]} :
               count' = [c \in Chats |-> IF c \in gone THEN NoDoc ELSE count[c]]
       \/ Fault
    /\ UNCHANGED <<pc, outcome, got, doc, bad, tries>> /\ Frame

\* Failed deletes are logged; a timeout cancels the ones still running.
ExpireEnd(h) ==
    /\ pc[h] = "expire_par" /\ Got(h, 0)
    /\ \/ par[h] = {} /\ Works /\ UNCHANGED stores /\ End(h, "expired")
       \/ par[h] # {} /\ Fault /\ End(h, "failed")
    /\ par' = [par EXCEPT ![h] = {}] /\ UNCHANGED <<doc, bad, tries>> /\ Frame

(***************************************************************************)
(* The process dies with everything it was doing.                           *)
(***************************************************************************)
Crash ==
    /\ Busy # {} /\ Fault
    /\ pc' = [h \in Handlers |-> IF h \in Busy THEN "done" ELSE pc[h]]
    /\ outcome' = [h \in Handlers |-> IF h \in Busy THEN "died" ELSE outcome[h]]
    /\ UNCHANGED locals /\ Frame

Dispatch(h) ==
    \/ \E c \in Chats : _exec_warn(h, c) \/ cmd_unwarn(h, c) \/ cmd_resetwarns(h, c) \/ cmd_warnlist(h, c)
    \/ on_chat_migration(h) \/ expire_old_warns(h)

Step(h) ==
    \/ WarnInsert(h) \/ WarnInc(h) \/ WarnIncNew(h) \/ WarnRollback(h) \/ WarnFed(h) \/ WarnAutoBan(h)
    \/ SyncRead(h) \/ SyncCount(h) \/ SyncBackfill(h)
    \/ UnwarnFind(h) \/ (\E a \in {"delete", "dec"} : UnwarnCall(h, a)) \/ UnwarnJoin(h)
    \/ Recount(h) \/ StoreCount(h)
    \/ (\E a \in {"warns", "counts"} : ClearCall(h, a)) \/ ClearJoin(h) \/ ClearAgain(h)
    \/ WarnList(h)
    \/ MigrateRepoint(h) \/ MigrateRead(h) \/ MigrateTake(h) \/ MigrateMerge(h)
    \/ MigrateMergeNew(h) \/ MigrateSweep(h)
    \/ ExpireCutoff(h) \/ (\E a \in {"warns", "counts"} : ExpireCall(h, a)) \/ ExpireEnd(h)

\* Nothing is left to run.
Terminated == Busy = {} /\ UNCHANGED vars

Next == (\E h \in Handlers : Dispatch(h) \/ Step(h)) \/ Migrate \/ Crash \/ Terminated

Spec == Init /\ [][Next]_vars

(***************************************************************************)
(* Properties                                                               *)
(***************************************************************************)
TypeOK ==
    /\ hist \in [Chats -> SUBSET Nat]
    /\ count \in [Chats -> {NoDoc} \cup Nat]
    /\ next \in Nat
    /\ moved \in BOOLEAN /\ faults \in 0..MaxFaults
    /\ kind \in [Handlers -> AllKinds] /\ pc \in [Handlers -> Points]
    /\ chat \in [Handlers -> Chats] /\ got \in [Handlers -> Nat]
    /\ doc \in [Handlers -> Nat] /\ tries \in [Handlers -> 0..3]
    /\ par \in [Handlers -> SUBSET {"delete", "dec", "warns", "counts"}]
    /\ bad \in [Handlers -> SUBSET {"delete", "dec", "gone", "warns", "counts"}]
    /\ outcome \in [Handlers -> Outcomes] /\ overlap \in BOOLEAN

Started == {h \in Handlers : pc[h] # "idle"}
Records == UNION {hist[c] : c \in Chats}

\* Handlers that do not overlap leave no counter above the history of its
\* chat, even when one database call fails, at any point of any of them: a
\* counter above it would ban the user too early (remove_last_warn,
\* _clear_warn_docs and their repairs).  A crash half-way, a failing migration
\* and the daily expiry are the exceptions.
NoEarlyBan ==
    (/\ Busy = {} /\ ~overlap /\ faults + 1 >= MaxFaults
     /\ \A h \in Started : /\ outcome[h] # "died" /\ kind[h] # "expire"
                            /\ (kind[h] = "migrate" => faults = MaxFaults))
    => \A c \in Chats : Counted(c) <= Cardinality(hist[c])

\* Warnings that overlap, in one chat or in several, are all counted, first
\* warnings included (_inc_warn_count).
NoWarnUncounted ==
    (Busy = {} /\ faults = MaxFaults /\ \A h \in Started : kind[h] = "warn" /\ outcome[h] # "banned")
    => \A c \in Chats : Counted(c) = Cardinality(hist[c])

\* However warnings overlap, the one that takes the user to a limit, of its
\* chat or of the federation, starts the automatic ban (execute_warn).
LimitIsNoticed ==
    (Busy = {} /\ faults = MaxFaults
     /\ \A h \in Started : kind[h] = "warn" /\ outcome[h] \notin {"banned", "fired"})
    => ~LimitReached

\* migrate_records says that "a crash plus retry can only under-count, never
\* double-count into a false auto-ban".
RetryNeverOverCounts ==
    (/\ Busy = {} /\ ~overlap /\ \A h \in Started : kind[h] # "expire"
     /\ \E g, h \in Handlers : kind[g] = "migrate" /\ outcome[g] = "died"
                               /\ kind[h] = "migrate" /\ outcome[h] = "migrated")
    => federation_warn_count <= Cardinality(Records)

\* expire_old_warns says that "both collections must be pruned together": a
\* counter would then never outlive the records it counts.
ExpiryPrunesTogether ==
    (/\ Busy = {} /\ ~overlap /\ faults = MaxFaults
     /\ \A h \in Started : kind[h] \in {"warn", "expire"})
    => federation_warn_count <= Cardinality(Records)
=============================================================================
