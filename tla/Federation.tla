----------------------------- MODULE Federation -----------------------------
(***************************************************************************)
(* The ban core of the federation bot, seen from one target user.           *)
(*                                                                         *)
(* The bot keeps one authoritative collection, `bans`, and enforces it in   *)
(* many Telegram chats.  No transaction spans the two.  Every operation is  *)
(* an asyncio handler, and the application runs with concurrent_updates, so *)
(* handlers interleave at every await: a step below is the code between two *)
(* awaits, and each database call and each Telegram call is a step.         *)
(*                                                                         *)
(* Handlers (the value of kind[h]):                                         *)
(*   ban      _execute_ban, once the proof conversation hands over          *)
(*   auto     _execute_warn_auto_ban, at the warning threshold              *)
(*   unban    cmd_unban and execute_unban                                   *)
(*   approve  _approve_appeal, for the record its review card names         *)
(*   join     _handle_member and on_join_request_approved                   *)
(*   verify   verify_user (/tcsync <target>), both directions               *)
(*   sweep    run_ban_sync (/tcsync and the scheduled job), bans only       *)
(*   connect  complete_join, a chat entering the federation                 *)
(*                                                                         *)
(* A ban record is its position in creation order: 1..created exist and     *)
(* `active` holds those whose is_active is true.  Records of other users    *)
(* never interact with the target's, so they are left out.                  *)
(***************************************************************************)
EXTENDS Naturals, FiniteSets

CONSTANTS
    NoChat,     \* the chat of an update that belongs to no federated chat
    Chats,      \* every Telegram chat the bot can be in
    Primaries,  \* cfg.main_group and cfg.exec_group
    Refusing,   \* chats that answer every call with a benign refusal
    Handlers,   \* handler instances; each runs at most once
    Kinds,      \* which operations this instance may start
    MaxBusy,    \* bound: handlers in flight at the same time
    MaxFaults   \* bound: database and transient Telegram failures

ASSUME ChatAssumption == Primaries \subseteq Chats /\ Refusing \subseteq Chats /\ NoChat \notin Chats
ASSUME FaultAssumption == MaxFaults \in Nat

VARIABLES
    created,    \* number of ban records ever inserted for the target
    active,     \* those with is_active = True
    connected,  \* rows of federated_groups with is_active = True
    chatBan,    \* chats where Telegram itself bans the target
    member,     \* chats the target is in
    admin,      \* those it is an administrator of: Telegram refuses to ban it there
    staff,      \* the target holds a federation role
    warned,     \* the target's warning count stands at the limit
    faults,     \* failures still to happen
    kind, pc,   \* per handler: operation and control point
    at,         \* per handler: the chat the update came from
    seen,       \* per handler: the ban record it read or wrote; 0 is None
    groups,     \* per handler: fetch of active_groups: unread, ok or failed
    scope,      \* per handler: the chats that fetch, then the merge, yielded
    todo,       \* per handler: fan-out calls not yet answered
    act,        \* per handler: sync pairs probed and still to be corrected
    failed,     \* per handler: chats whose call counted as failed
    skipped,    \* per handler: chats left alone by a refusal or a skip that does not count
    outcome,    \* per handler: what it told its operator, or only the log
    cut,        \* history: records that existed when it deactivated
    alone       \* history: no other handler overlapped it

stores == <<created, active, connected, staff, warned>>
telegram == <<chatBan, member, admin>>
control == <<kind, at, cut, alone>>
locals == <<seen, groups, scope, todo, act, failed, skipped>>
vars == <<stores, telegram, faults, control, pc, locals, outcome>>

AllKinds == {"ban", "auto", "unban", "approve", "join", "verify", "sweep", "connect"}
Points == {"idle", "done",
           "ban_read", "ban_dedupe", "ban_write", "ban_scope", "ban_fan",
           "auto_role", "auto_read", "auto_write", "auto_fan",
           "unban_read", "unban_staff", "unban_fetch",
           "approve_read", "lift_groups", "lift_deact", "lift_fan",
           "join_read", "join_demote", "join_ban",
           "sync_read", "sync_scope", "sync_fan",
           "conn_load", "conn_read", "conn_added", "conn_fan"}
Outcomes == {"none", "nothing", "aborted", "exempt", "partial", "logged", "full"}

Busy == {h \in Handlers : pc[h] \notin {"idle", "done"}}
Federated == connected \cup Primaries

(***************************************************************************)
(* Helpers                                                                  *)
(***************************************************************************)
\* get_active_ban: the newest active record, 0 when there is none.
NewestBan == IF active = {} THEN 0 ELSE CHOOSE i \in active : \A j \in active : j <= i

\* Mutation: the primaries are forgotten.
with_primary_groups_NoPrimary(h, extra) ==
    (IF groups[h] = "ok" THEN scope[h] ELSE {}) \cup extra

\* with_primary_groups: the chats a fan-out reaches.  A failed fetch leaves
\* only the primaries (and the current chat, for the warning auto-ban).
with_primary_groups(h, extra) ==
    (IF groups[h] = "ok" THEN scope[h] ELSE {}) \cup Primaries \cup extra

\* One database or Telegram call of this step failed.
Fault == faults > 0 /\ faults' = faults - 1
Works == faults' = faults

Goto(h, l) == pc' = [pc EXCEPT ![h] = l] /\ outcome' = outcome
End(h, o) == pc' = [pc EXCEPT ![h] = "done"] /\ outcome' = [outcome EXCEPT ![h] = o]

\* Mutation: the record is inserted without is_active.
create_ban_Inactive(h) ==
    created' = created + 1 /\ active' = active /\ seen' = [seen EXCEPT ![h] = created + 1]

\* create_ban: insert one active record.
create_ban(h) ==
    /\ created' = created + 1
    /\ active' = active \cup {created + 1}
    /\ seen' = [seen EXCEPT ![h] = created + 1]

\* Mutation: an upsert that writes is_active back.
update_ban_Reactivates(h) ==
    active' = active \cup {seen[h]} /\ UNCHANGED <<created, seen>>

\* update_ban rewrites reason, proof and log fields of the record it is given
\* by id; it never touches is_active.
update_ban(h) == UNCHANGED <<created, active, seen>>

\* Mutation: only the newest record is deactivated.
deactivate_newest_ban == active' = active \ {NewestBan}

\* deactivate_extra_active_bans and deactivate_all_active_bans.
deactivate_extra_active_bans(keep) == active' = active \cap {keep}
deactivate_all_active_bans == active' = {}

\* Telegram's ban_chat_member, refused for an administrator with an error that
\* is not benign, and unban_chat_member(only_if_banned).
Barred(c) == c \in admin
ban_chat_member(c) ==
    /\ admin' = admin
    /\ IF c \in Refusing THEN UNCHANGED <<chatBan, member>>
       ELSE ~Barred(c) /\ chatBan' = chatBan \cup {c} /\ member' = member \ {c}
unban_chat_member(c) ==
    /\ chatBan' = IF c \in Refusing THEN chatBan ELSE chatBan \ {c}
    /\ UNCHANGED <<member, admin>>

\* A call that counts as failed, and one that is passed over: a benign refusal,
\* which says nothing about the calls before and after it.
CallFails(h, c) ==
    /\ failed' = [failed EXCEPT ![h] = @ \cup {c}] /\ skipped' = skipped /\ UNCHANGED telegram
CallSkipped(h, c) ==
    /\ skipped' = [skipped EXCEPT ![h] = @ \cup {c}] /\ failed' = failed /\ UNCHANGED telegram

\* Demote.execute: the role rows go, or the write fails and they stay.
Demote == \/ Works /\ staff' = FALSE
          \/ Fault /\ staff /\ staff' = staff

(***************************************************************************)
(* Initial states: no ban, or an enforced one, perhaps with the duplicate    *)
(* that an auto-ban leaves when its read fails; any chats connected, the     *)
(* target in any that do not ban it, with or without a role.                 *)
(***************************************************************************)
Init ==
    /\ created \in 0..2 /\ active = 1..created
    /\ connected \in SUBSET (Chats \ Primaries)
    /\ chatBan = IF created = 0 THEN {} ELSE (connected \cup Primaries) \ Refusing
    /\ member \in SUBSET (Chats \ chatBan) /\ admin = {}
    /\ staff \in BOOLEAN
    /\ warned = FALSE
    /\ faults = MaxFaults
    /\ kind = [h \in Handlers |-> "ban"]
    /\ pc = [h \in Handlers |-> "idle"]
    /\ at = [h \in Handlers |-> NoChat]
    /\ seen = [h \in Handlers |-> 0]
    /\ groups = [h \in Handlers |-> "unread"]
    /\ scope = [h \in Handlers |-> {}]
    /\ todo = [h \in Handlers |-> {}]
    /\ act = [h \in Handlers |-> {}]
    /\ failed = [h \in Handlers |-> {}]
    /\ skipped = [h \in Handlers |-> {}]
    /\ outcome = [h \in Handlers |-> "none"]
    /\ cut = [h \in Handlers |-> 0]
    /\ alone = [h \in Handlers |-> FALSE]

(***************************************************************************)
(* A new update is dispatched: concurrent_updates(True) starts its handler  *)
(* whatever else is in flight.                                              *)
(***************************************************************************)
Start(h, k, c, l) ==
    /\ k \in Kinds
    /\ pc[h] = "idle" /\ Cardinality(Busy) < MaxBusy
    /\ kind' = [kind EXCEPT ![h] = k]
    /\ at' = [at EXCEPT ![h] = c]
    /\ pc' = [pc EXCEPT ![h] = l]
    /\ alone' = [g \in Handlers |-> IF g = h THEN Busy = {}
                                   ELSE g \notin Busy /\ alone[g]]
    /\ UNCHANGED <<faults, locals, outcome, cut, created, active, connected, staff>>

StartBan(h) == Start(h, "ban", NoChat, "ban_read") /\ UNCHANGED <<telegram, warned>>
StartUnban(h) == Start(h, "unban", NoChat, "unban_read") /\ UNCHANGED <<telegram, warned>>
StartApprove(h) ==   \* the card was posted for an existing record
    created > 0 /\ Start(h, "approve", NoChat, "approve_read") /\ UNCHANGED <<telegram, warned>>
StartVerify(h) == Start(h, "verify", NoChat, "sync_read") /\ UNCHANGED <<telegram, warned>>
StartSweep(h) == Start(h, "sweep", NoChat, "sync_read") /\ UNCHANGED <<telegram, warned>>

\* execute_warn reaches its limit in chat c and calls the auto-ban.
StartAuto(h, c) ==
    /\ Start(h, "auto", c, "auto_role")
    /\ c \in Federated /\ warned' = TRUE
    /\ UNCHANGED telegram

\* The target enters a federated chat that does not ban it; Telegram delivers
\* the join.
StartJoin(h, c) ==
    /\ Start(h, "join", c, "join_read")
    /\ c \in Federated \ (chatBan \cup member)
    /\ member' = member \cup {c}
    /\ UNCHANGED <<chatBan, admin, warned>>

\* The owner of chat c taps Connect.
StartConnect(h, c) ==
    /\ Start(h, "connect", c, "conn_load")
    /\ c \in Chats \ Federated
    /\ UNCHANGED <<telegram, warned>>

(***************************************************************************)
(* The group fetch.  _execute_ban starts it as a task before anything else, *)
(* and the auto-ban and both syncs gather it with the ban read: it lands at *)
(* any moment until its result is awaited.                                  *)
(***************************************************************************)
FetchPoints == {"ban_read", "ban_dedupe", "ban_write", "ban_scope",
                "auto_read", "auto_write", "sync_read", "sync_scope"}

FetchGroups(h) ==
    /\ pc[h] \in FetchPoints /\ groups[h] = "unread"
    /\ \/ Works /\ groups' = [groups EXCEPT ![h] = "ok"]
                /\ scope' = [scope EXCEPT ![h] = connected]
       \/ Fault /\ groups' = [groups EXCEPT ![h] = "failed"] /\ scope' = scope
    /\ UNCHANGED <<stores, telegram, control, pc, outcome, seen, todo, act, failed, skipped>>

(***************************************************************************)
(* Ban executor: _execute_ban                                               *)
(***************************************************************************)
BanRead(h) ==
    /\ pc[h] = "ban_read"
    /\ \/ /\ Works /\ seen' = [seen EXCEPT ![h] = NewestBan]
          /\ Goto(h, IF active # {} THEN "ban_dedupe" ELSE "ban_write")
       \/ Fault /\ seen' = seen /\ End(h, "aborted")
    /\ UNCHANGED <<stores, telegram, control, groups, scope, todo, act, failed, skipped>>

BanDedupe(h) ==
    /\ pc[h] = "ban_dedupe"
    /\ \/ Works /\ deactivate_extra_active_bans(seen[h]) /\ Goto(h, "ban_write")
       \/ Fault /\ active' = active /\ End(h, "aborted")
    /\ UNCHANGED <<created, connected, staff, warned, telegram, control, locals>>

\* Mutation: fail open, the fan-out runs although the write failed.
BanWrite_FailOpen(h) ==
    /\ pc[h] = "ban_write" /\ Goto(h, "ban_scope")
    /\ \/ Works /\ IF seen[h] = 0 THEN create_ban(h) ELSE update_ban(h)
       \/ Fault /\ UNCHANGED <<created, active, seen>>
    /\ UNCHANGED <<connected, staff, warned, telegram, control,
                   groups, scope, todo, act, failed, skipped>>

\* The record is written before any chat is touched; a failed write ends the
\* handler (db_ok is False).
BanWrite(h) ==
    /\ pc[h] = "ban_write"
    /\ \/ /\ Works /\ Goto(h, "ban_scope")
          /\ IF seen[h] = 0 THEN create_ban(h) ELSE update_ban(h)
       \/ Fault /\ UNCHANGED <<created, active, seen>> /\ End(h, "aborted")
    /\ UNCHANGED <<connected, staff, warned, telegram, control,
                   groups, scope, todo, act, failed, skipped>>

\* The group list is awaited, the target demoted once more, the fan-out begins.
BanScope(h) ==
    /\ pc[h] = "ban_scope" /\ groups[h] # "unread"
    /\ Demote
    /\ todo' = [todo EXCEPT ![h] = with_primary_groups(h, {})]
    /\ Goto(h, "ban_fan")
    /\ UNCHANGED <<created, active, connected, warned, telegram, control,
                   seen, groups, scope, act, failed, skipped>>

\* One ban_chat_member call of a fan-out (ban, auto-ban, connect replay).
BanCall(h, c) ==
    /\ pc[h] \in {"ban_fan", "auto_fan", "conn_fan"} /\ c \in todo[h]
    /\ todo' = [todo EXCEPT ![h] = @ \ {c}]
    /\ \/ Works /\ ban_chat_member(c) /\ UNCHANGED <<failed, skipped>>
       \/ (Fault \/ (Works /\ Barred(c))) /\ CallFails(h, c)
       \/ Fault /\ CallSkipped(h, c)
    /\ UNCHANGED <<stores, control, pc, outcome, seen, groups, scope, act>>

\* Mutation: a reduced scope is reported as complete.
FanOutcome_IgnoresScope(h) == IF failed[h] = {} THEN "full" ELSE "partial"

\* The summary names the failed chats and a reduced scope.
FanOutcome(h) == IF failed[h] = {} /\ groups[h] # "failed" THEN "full" ELSE "partial"

\* complete_join returns whether it ran blind, not what its replay calls did.
ReplayOutcome(h) ==
    CASE groups[h] = "failed" -> "partial"
      [] groups[h] # "failed" /\ failed[h] # {} -> "logged"
      [] OTHER -> "full"

BanFinish(h) ==
    /\ pc[h] \in {"ban_fan", "conn_fan"} /\ todo[h] = {}
    /\ End(h, IF pc[h] = "conn_fan" THEN ReplayOutcome(h) ELSE FanOutcome(h))
    /\ UNCHANGED <<stores, telegram, faults, control, locals>>

(***************************************************************************)
(* Warning auto-ban: _execute_warn_auto_ban                                 *)
(***************************************************************************)
\* Staff are demoted and exempt; an unreadable role aborts.
AutoRole(h) ==
    /\ pc[h] = "auto_role"
    /\ \/ ~staff /\ Works /\ staff' = staff /\ Goto(h, "auto_read")
       \/ staff /\ Demote /\ End(h, "exempt")
       \/ Fault /\ staff' = staff /\ End(h, "aborted")
    /\ UNCHANGED <<created, active, connected, warned, telegram, control, locals>>

\* A failed ban read counts as not banned.
AutoRead(h) ==
    /\ pc[h] = "auto_read"
    /\ \/ Works /\ seen' = [seen EXCEPT ![h] = NewestBan]
       \/ Fault /\ seen' = seen
    /\ Goto(h, "auto_write")
    /\ UNCHANGED <<stores, telegram, control, groups, scope, todo, act, failed, skipped>>

AutoScope(h) == with_primary_groups(h, {at[h]})

AutoWrite(h) ==
    /\ pc[h] = "auto_write" /\ groups[h] # "unread"
    /\ \/ /\ Works /\ Goto(h, "auto_fan")
          /\ IF seen[h] = 0 THEN create_ban(h) ELSE UNCHANGED <<created, active, seen>>
          /\ scope' = [scope EXCEPT ![h] = AutoScope(h)]
          /\ todo' = [todo EXCEPT ![h] = AutoScope(h)]
       \/ /\ Fault /\ seen[h] = 0 /\ End(h, "aborted")
          /\ UNCHANGED <<created, active, seen, scope, todo>>
    /\ UNCHANGED <<connected, staff, warned, telegram, control, groups, act, failed, skipped>>

\* Warnings are cleared once at least one call did not fail transiently.
AutoFinish(h) ==
    /\ pc[h] = "auto_fan" /\ todo[h] = {}
    /\ End(h, FanOutcome(h))
    /\ IF scope[h] \subseteq failed[h]
       THEN Works /\ warned' = warned
       ELSE \/ Works /\ warned' = FALSE
            \/ Fault /\ warned' = warned
    /\ UNCHANGED <<created, active, connected, staff, telegram, control, locals>>

(***************************************************************************)
(* Unban command: cmd_unban and execute_unban                               *)
(***************************************************************************)
\* The ban is pre-fetched next to the role check; only the role check is fatal.
UnbanRead(h) ==
    /\ pc[h] = "unban_read"
    /\ \/ Works /\ seen' = [seen EXCEPT ![h] = NewestBan]
                /\ Goto(h, IF staff THEN "unban_staff" ELSE "unban_fetch")
       \/ Fault /\ seen' = seen /\ Goto(h, IF staff THEN "unban_staff" ELSE "unban_fetch")
       \/ Fault /\ seen' = seen /\ End(h, "aborted")
    /\ UNCHANGED <<stores, telegram, control, groups, scope, todo, act, failed, skipped>>

\* A staff target is demoted first, and only when a ban is proven.
UnbanStaff(h) ==
    /\ pc[h] = "unban_staff"
    /\ LET proven == seen[h] # 0 \/ active # {} IN
       \/ proven /\ Works /\ staff' = FALSE /\ Goto(h, "unban_fetch")
       \/ proven /\ Fault /\ staff' = staff /\ End(h, "aborted")
       \/ ~proven /\ Works /\ staff' = staff /\ End(h, "nothing")
       \/ seen[h] = 0 /\ Fault /\ staff' = staff /\ End(h, "nothing")
    /\ UNCHANGED <<created, active, connected, warned, telegram, control, locals>>

UnbanFetch(h) ==
    /\ pc[h] = "unban_fetch"
    /\ \/ seen[h] # 0 /\ Works /\ seen' = seen /\ Goto(h, "lift_groups")
       \/ /\ seen[h] = 0 /\ Works
          /\ seen' = [seen EXCEPT ![h] = NewestBan]
          /\ IF active = {} THEN End(h, "nothing") ELSE Goto(h, "lift_groups")
       \/ seen[h] = 0 /\ Fault /\ seen' = seen /\ End(h, "aborted")
    /\ UNCHANGED <<stores, telegram, control, groups, scope, todo, act, failed, skipped>>

(***************************************************************************)
(* Appeal approval: on_decision for some record's card, then               *)
(* _approve_appeal, which mirrors execute_unban from the group fetch on.    *)
(***************************************************************************)
ApproveRead(h) ==
    /\ pc[h] = "approve_read"
    /\ \E b \in 1..created :
          \/ b \in active /\ Works /\ seen' = [seen EXCEPT ![h] = b] /\ Goto(h, "lift_groups")
          \/ b \notin active /\ Works /\ seen' = seen /\ End(h, "nothing")
          \/ Fault /\ seen' = seen /\ End(h, "aborted")
    /\ UNCHANGED <<stores, telegram, control, groups, scope, todo, act, failed, skipped>>

\* Groups first: without the list the record stays as it is.
LiftGroups(h) ==
    /\ pc[h] = "lift_groups"
    /\ \/ /\ Works /\ groups' = [groups EXCEPT ![h] = "ok"]
          /\ scope' = [scope EXCEPT ![h] = connected] /\ Goto(h, "lift_deact")
       \/ Fault /\ UNCHANGED <<groups, scope>> /\ End(h, "aborted")
    /\ UNCHANGED <<stores, telegram, control, seen, todo, act, failed, skipped>>

\* The single authoritative write: every active record goes, or no chat is
\* touched.
LiftDeactivate(h) ==
    /\ pc[h] = "lift_deact"
    /\ \/ /\ Works /\ deactivate_all_active_bans
          /\ cut' = [cut EXCEPT ![h] = created]
          /\ todo' = [todo EXCEPT ![h] = with_primary_groups(h, {})]
          /\ Goto(h, "lift_fan")
       \/ Fault /\ UNCHANGED <<active, cut, todo>> /\ End(h, "aborted")
    /\ UNCHANGED <<created, connected, staff, warned, telegram, kind, at, alone,
                   seen, groups, scope, act, failed, skipped>>

LiftCall(h, c) ==
    /\ pc[h] = "lift_fan" /\ c \in todo[h]
    /\ todo' = [todo EXCEPT ![h] = @ \ {c}]
    /\ \/ Works /\ unban_chat_member(c) /\ UNCHANGED <<failed, skipped>>
       \/ Fault /\ (CallFails(h, c) \/ CallSkipped(h, c))
    /\ UNCHANGED <<stores, control, pc, outcome, seen, groups, scope, act>>

\* execute_unban counts the failed chats in its reply, an approval in the log.
LiftFinish(h) ==
    /\ pc[h] = "lift_fan" /\ todo[h] = {}
    /\ End(h, IF kind[h] = "approve" /\ failed[h] # {} THEN "logged" ELSE FanOutcome(h))
    /\ UNCHANGED <<stores, telegram, faults, control, locals>>

(***************************************************************************)
(* Join enforcement: _handle_member, on_join_request_approved               *)
(***************************************************************************)
\* An unreadable ban leaves the joiner alone, and ungreeted.  Nobody is there to
\* be told of a failure: it goes to the log.
JoinRead(h) ==
    /\ pc[h] = "join_read"
    /\ \/ /\ Works /\ seen' = [seen EXCEPT ![h] = NewestBan]
          /\ IF active = {} THEN End(h, "nothing") ELSE Goto(h, "join_demote")
       \/ Fault /\ seen' = seen /\ End(h, "logged")
    /\ UNCHANGED <<stores, telegram, control, groups, scope, todo, act, failed, skipped>>

JoinDemote(h) ==
    /\ pc[h] = "join_demote"
    /\ Demote /\ Goto(h, "join_ban")
    /\ UNCHANGED <<created, active, connected, warned, telegram, control, locals>>

JoinBan(h) ==
    /\ pc[h] = "join_ban"
    /\ \/ Works /\ at[h] \notin Refusing /\ ban_chat_member(at[h]) /\ End(h, "full")
       \/ /\ Fault \/ (Works /\ (Barred(at[h]) \/ at[h] \in Refusing))
          /\ UNCHANGED telegram /\ End(h, "logged")
    /\ UNCHANGED <<stores, control, locals>>

(***************************************************************************)
(* Sync: verify_user and run_ban_sync.  Both act on a snapshot, pair by     *)
(* pair: a membership probe, then a correction when the probe asks for one. *)
(* The scheduled sweep has no operator, only the log.                       *)
(***************************************************************************)
SyncAborts(h) == End(h, "aborted") \/ (kind[h] = "sweep" /\ End(h, "logged"))

SyncRead(h) ==
    /\ pc[h] = "sync_read"
    /\ \/ Works /\ seen' = [seen EXCEPT ![h] = NewestBan] /\ Goto(h, "sync_scope")
       \/ Fault /\ seen' = seen /\ SyncAborts(h)
    /\ UNCHANGED <<stores, telegram, control, groups, scope, todo, act, failed, skipped>>

\* Only verify_user also clears stale kicks; the sweep has no pair for a user
\* without an active ban.
SyncPairs(h) == IF kind[h] = "sweep" /\ seen[h] = 0 THEN {} ELSE scope[h]

SyncScope(h) ==
    /\ pc[h] = "sync_scope" /\ groups[h] # "unread"
    /\ IF groups[h] = "failed"
       THEN SyncAborts(h) /\ todo' = todo
       ELSE Goto(h, "sync_fan") /\ todo' = [todo EXCEPT ![h] = SyncPairs(h)]
    /\ UNCHANGED <<stores, telegram, faults, control, seen, groups, scope, act, failed, skipped>>

\* Mutation: the unban direction is forgotten.
NeedsCorrection_BansOnly(h, c) == c \notin Refusing /\ seen[h] # 0 /\ c \in member \ admin

\* _sync_ban_pair acts on a present member, unless it is privileged, and
\* _sync_unban_pair on a kicked user.
Privileged(h, c) == seen[h] # 0 /\ Barred(c)
NeedsCorrection(h, c) ==
    c \notin Refusing /\ (IF seen[h] # 0 THEN c \in member \ admin ELSE c \in chatBan)

\* Any refusal of the probe or of the correction counts as "absent".
SyncProbe(h, c) ==
    /\ pc[h] = "sync_fan" /\ c \in todo[h]
    /\ todo' = [todo EXCEPT ![h] = @ \ {c}]
    /\ \/ /\ Works /\ ~Privileged(h, c) /\ UNCHANGED <<failed, skipped, telegram>>
          /\ act' = [act EXCEPT ![h] = IF NeedsCorrection(h, c) THEN @ \cup {c} ELSE @]
       \/ Fault /\ CallFails(h, c) /\ act' = act
       \/ (Fault \/ (Works /\ Privileged(h, c))) /\ CallSkipped(h, c) /\ act' = act
    /\ UNCHANGED <<stores, control, pc, outcome, seen, groups, scope>>

SyncAct(h, c) ==
    /\ pc[h] = "sync_fan" /\ c \in act[h]
    /\ act' = [act EXCEPT ![h] = @ \ {c}]
    /\ \/ /\ Works /\ UNCHANGED <<failed, skipped>>
          /\ IF seen[h] # 0 THEN ban_chat_member(c) ELSE unban_chat_member(c)
       \/ Fault /\ CallFails(h, c)
       \/ (Fault \/ (Works /\ Privileged(h, c))) /\ CallSkipped(h, c)
    /\ UNCHANGED <<stores, control, pc, outcome, seen, groups, scope, todo>>

SyncFinish(h) ==
    /\ pc[h] = "sync_fan" /\ todo[h] = {} /\ act[h] = {}
    /\ \/ End(h, FanOutcome(h))
       \/ kind[h] = "sweep" /\ failed[h] # {} /\ End(h, "logged")
    /\ UNCHANGED <<stores, telegram, faults, control, locals>>

(***************************************************************************)
(* Connecting a chat: complete_join gathers the ban snapshot with the       *)
(* add_group write, in either order, then replays the bans it saw.          *)
(***************************************************************************)
ReplayTargets(h) == IF seen'[h] # 0 THEN {at[h]} ELSE {}

\* A failed snapshot replays nothing and reports a blind connection.
ConnectRead(h) ==
    /\ pc[h] \in {"conn_load", "conn_added"}
    /\ \/ /\ Works /\ seen' = [seen EXCEPT ![h] = NewestBan]
          /\ groups' = [groups EXCEPT ![h] = "ok"]
       \/ Fault /\ seen' = seen /\ groups' = [groups EXCEPT ![h] = "failed"]
    /\ Goto(h, IF pc[h] = "conn_load" THEN "conn_read" ELSE "conn_fan")
    /\ todo' = IF pc[h] = "conn_load" THEN todo
               ELSE [todo EXCEPT ![h] = ReplayTargets(h)]
    /\ UNCHANGED <<stores, telegram, control, scope, act, failed, skipped>>

\* add_group is the critical write: when it fails nothing is replayed.
ConnectAdd(h) ==
    /\ pc[h] \in {"conn_load", "conn_read"} /\ seen' = seen
    /\ \/ /\ Works /\ connected' = connected \cup {at[h]}
          /\ Goto(h, IF pc[h] = "conn_load" THEN "conn_added" ELSE "conn_fan")
          /\ todo' = IF pc[h] = "conn_load" THEN todo
                     ELSE [todo EXCEPT ![h] = ReplayTargets(h)]
       \/ Fault /\ UNCHANGED <<connected, todo>> /\ End(h, "aborted")
    /\ UNCHANGED <<created, active, staff, warned, telegram, control,
                   groups, scope, act, failed, skipped>>

(***************************************************************************)
(* The world around the handlers                                            *)
(***************************************************************************)
\* The target leaves a chat, or is made an administrator of one that does not
\* refuse every call anyway.
Leave(c) ==
    /\ c \in member /\ member' = member \ {c} /\ admin' = admin \ {c}
    /\ UNCHANGED <<stores, chatBan, faults, control, pc, locals, outcome>>

Appoint(c) ==
    /\ c \in member \ (admin \cup Refusing) /\ admin' = admin \cup {c}
    /\ UNCHANGED <<stores, chatBan, member, faults, control, pc, locals, outcome>>

\* Promote._assign_admin and _assign_subrole: neither consults the bans.
Promote ==
    /\ ~staff /\ staff' = TRUE
    /\ UNCHANGED <<created, active, connected, warned, telegram, faults, control,
                   pc, locals, outcome>>

Terminated == (\A h \in Handlers : pc[h] = "done") /\ UNCHANGED vars

Dispatch(h) ==
    \/ StartBan(h) \/ StartUnban(h) \/ StartApprove(h) \/ StartVerify(h) \/ StartSweep(h)
    \/ \E c \in Chats : StartAuto(h, c) \/ StartJoin(h, c) \/ StartConnect(h, c)

Step(h) ==
    \/ FetchGroups(h)
    \/ BanRead(h) \/ BanDedupe(h) \/ BanWrite(h) \/ BanScope(h) \/ BanFinish(h)
    \/ AutoRole(h) \/ AutoRead(h) \/ AutoWrite(h) \/ AutoFinish(h)
    \/ UnbanRead(h) \/ UnbanStaff(h) \/ UnbanFetch(h)
    \/ ApproveRead(h) \/ LiftGroups(h) \/ LiftDeactivate(h) \/ LiftFinish(h)
    \/ JoinRead(h) \/ JoinDemote(h) \/ JoinBan(h)
    \/ SyncRead(h) \/ SyncScope(h) \/ SyncFinish(h)
    \/ ConnectRead(h) \/ ConnectAdd(h)
    \/ \E c \in Chats : BanCall(h, c) \/ LiftCall(h, c) \/ SyncProbe(h, c) \/ SyncAct(h, c)

Next ==
    \/ \E h \in Handlers : Dispatch(h) \/ Step(h)
    \/ \E c \in Chats : Leave(c) \/ Appoint(c)
    \/ Promote
    \/ Terminated

Spec == Init /\ [][Next]_vars

\* The event loop resumes every handler whose awaited call has returned, and
\* every call returns or times out.
FairSpec == Spec /\ \A h \in Handlers : WF_vars(Step(h))

(***************************************************************************)
(* Properties                                                               *)
(***************************************************************************)
\* The type invariant; with it, every fan-out of with_primary_groups reaches
\* only group chats the bot knows, never the private chat of a command.
TypeOK ==
    /\ created \in Nat /\ active \in SUBSET (1..created)
    /\ connected \in SUBSET Chats /\ chatBan \in SUBSET Chats /\ member \in SUBSET Chats
    /\ admin \in SUBSET member /\ skipped \in [Handlers -> SUBSET Chats]
    /\ staff \in BOOLEAN /\ warned \in BOOLEAN /\ faults \in 0..MaxFaults
    /\ kind \in [Handlers -> AllKinds] /\ pc \in [Handlers -> Points]
    /\ at \in [Handlers -> Chats \cup {NoChat}]
    /\ seen \in [Handlers -> Nat] /\ cut \in [Handlers -> Nat]
    /\ groups \in [Handlers -> {"unread", "ok", "failed"}]
    /\ scope \in [Handlers -> SUBSET Chats] /\ todo \in [Handlers -> SUBSET Chats]
    /\ act \in [Handlers -> SUBSET Chats] /\ failed \in [Handlers -> SUBSET Chats]
    /\ outcome \in [Handlers -> Outcomes] /\ alone \in [Handlers -> BOOLEAN]

\* Handlers that are about to ban the target somewhere.
Enforcing(h) ==
    \/ pc[h] \in {"ban_scope", "ban_fan", "auto_fan", "join_demote", "join_ban"}
    \/ pc[h] = "conn_fan" /\ todo[h] # {}
    \/ pc[h] = "sync_fan" /\ seen[h] # 0

\* Fail closed (executor.py, autoban.py): whichever path enforces, however its
\* reads and writes fail, the record it acts for is in the database, so a chat
\* that bans the target always has a record /check and the audit trail can show.
EnforcementHasRecord ==
    /\ \A h \in Handlers : Enforcing(h) => seen[h] \in 1..created
    /\ chatBan # {} => created > 0

\* A lifted ban never comes back: a late ban update, a duplicate cleanup or a
\* sync working from an old snapshot cannot re-activate a record that an unban,
\* an approved appeal or a cleanup deactivated.
LiftedStaysLifted == [][\A i \in 1..created : i \notin active => i \notin active']_vars

\* A chat is unbanned by /tcunban or an approved appeal only after every record
\* that existed at its deactivation, duplicates included, is inactive: no
\* rejoin finds a record older than the lift and bans the user again.
LiftFollowsDeactivation ==
    \A h \in Handlers : pc[h] = "lift_fan" => active \cap (1..cut[h]) = {}

\* Chats of the federation that disagree with the bans collection.
Divergent ==
    {c \in Federated \ Refusing : IF active = {} THEN c \in chatBan ELSE c \in member}

\* Chats that answered a ban or a lift with a benign refusal, which no handler
\* counts.
Refused ==
    UNION {skipped[h] : h \in {g \in Handlers : kind[g] \notin {"verify", "sweep"}}}

\* The report of handler h is about chat c: it counts c's call as failed, or h
\* could not load the groups, or c is the chat it was started for.
ReportCovers(h, c) ==
    \/ c \in failed[h]
    \/ kind[h] \in {"ban", "auto"} /\ groups[h] = "failed"
    \/ kind[h] \in {"join", "connect"} /\ c = at[h]

\* When handlers do not overlap, a chat that disagrees with the bans collection
\* was reported: some handler told its operator about that very chat, or that
\* its scope was reduced; where the code tells nobody (a join, a connect's
\* replayed bans, an approval's unbans), it left the failure in the log.  The
\* exception is a call that Telegram refused as benign.
NoSilentDivergence ==
    Busy = {} =>
        \A c \in Divergent \ Refused :
            \E h \in Handlers : outcome[h] \in {"partial", "logged"} /\ ReportCovers(h, c)

\* When handlers do not overlap, warnings are given up only for a ban that the
\* database holds: an auto-ban whose record was not written keeps them.
WarningsBecomeABan == [][warned /\ ~warned' => active # {}]_vars

\* /tcsync <target> repairs both directions: when it ran alone and counted no
\* failure, every group it checked agrees with the bans collection, except those
\* whose pair it skipped: the target is an administrator there, or Telegram
\* refused a call, which counts as absent.
Agrees(c) == c \in Refusing \/ (IF active = {} THEN c \notin chatBan ELSE c \notin member)
VerifyRepairs ==
    [][\A h \in Handlers :
          /\ kind[h] = "verify" /\ pc[h] = "sync_fan" /\ pc'[h] = "done"
          /\ alone[h] /\ failed[h] = {}
          => \A c \in scope[h] \ skipped[h] : Agrees(c)]_vars

\* As long as no call failed, a banned user does not stay in a chat that was in
\* the federation all along, unless it is an administrator there: whichever way
\* the ban, the joins, the unbans and the syncs interleave, either the member is
\* removed or every record is lifted.
JustConnected(c) == \E h \in Handlers : kind[h] = "connect" /\ at[h] = c
BannedMemberRemoved ==
    \A c \in Chats \ Refusing :
        (active # {} /\ c \in member \cap Federated /\ ~JustConnected(c))
            ~> (active = {} \/ c \notin member \/ c \in admin \/ faults # MaxFaults)

\* What executor.py says fail-closed enforcement rules out: a chat that bans the
\* target while get_active_ban returns None, with no handler left to lift it.
NoSplitBrain ==
    Busy = {} /\ faults = MaxFaults => (active = {} => chatBan \cap Federated = {})

\* What complete_join promises: a connected chat has all active bans applied.
ConnectedChatsEnforce ==
    Busy = {} /\ faults = MaxFaults => (active # {} => member \cap Federated \subseteq Refusing \cup admin)
=============================================================================
