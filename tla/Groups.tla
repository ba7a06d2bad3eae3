------------------------------- MODULE Groups -------------------------------
(***************************************************************************)
(* Membership of one Telegram group in the federation: the federated_groups  *)
(* row, the pending_joins row, the connected cache, the bot's own membership *)
(* and the join prompt; connecting, disconnecting, forced removal, leaving   *)
(* all groups, cleanup, and the migration of the basic group Old to the      *)
(* supergroup New.                                                          *)
(*                                                                         *)
(* A step is the code between two awaits, or one of the calls that a gather  *)
(* runs side by side.  is_connected is one step: what happens when a fetch   *)
(* overlaps a write is the subject of TwoLevelCache.  The replay of bans and *)
(* mutes into the group is the subject of Federation.                       *)
(***************************************************************************)
EXTENDS Naturals, FiniteSets, Sequences

CONSTANTS
    Old, New,   \* chat ids of the basic group and of its supergroup
    Handlers,   \* handler instances; each runs at most once
    Kinds,      \* which operations this instance may start
    MaxBusy,    \* bound: handlers in flight at the same time
    MaxMoves,   \* bound: changes of the bot's membership made by people
    MaxFaults   \* bound: failing database and Telegram calls

ASSUME ChatAssumption == Old # New
ASSUME BoundAssumption == MaxFaults \in Nat /\ MaxMoves \in Nat

VARIABLES
    row,        \* federated_groups: none, active or inactive, per chat id
    pend,       \* pending_joins: is there a row, per chat id
    conn,       \* connected_cache: yes, no or unknown, per chat id
    bot,        \* the bot in the group: out, member, admin (with all rights)
    moved,      \* Telegram has turned Old into New
    prompt,     \* the join prompt: none, live (with buttons) or spent
    updates,    \* my_chat_member and migration updates on their way, in order
    moves,      \* membership changes still to happen
    faults,     \* failures still to happen
    kind, pc,   \* per handler: operation and control point
    chat,       \* per handler: the chat id it works on
    todo,       \* per handler: gathered calls still running, <<call, chat>>
    bad,        \* per handler: gathered calls that raised
    outcome,    \* per handler: what it reported
    gone,       \* history, per handler: chats the bot was out of while it ran
    told,       \* history: an owner was told "connected" and the bot has stayed since
    overlap,    \* history: two handlers overlapped
    missed,     \* history: a removal of the bot failed to clear a row
    late,       \* history: a pending row was written for a chat the bot had left
    stale       \* history: a migration left the supergroup an inactive row

stores == <<row, pend, conn>>
telegram == <<bot, moved, prompt, updates>>
control == <<kind, chat>>
calls == <<todo, bad>>
history == <<gone, told, overlap, missed, late, stale>>
vars == <<stores, telegram, moves, faults, control, pc, calls, outcome, history>>

Chats == {Old, New}
AllKinds == {"update", "join", "cancel", "connect", "disconnect", "rmtc", "leaveall", "cleanup", "migrate"}
Points == {"idle", "done", "removed", "added", "ask", "pending", "taken", "perms", "known",
           "add_group", "unpend", "confirm", "cancelled", "leave", "check", "gather",
           "deactivate", "rm", "all", "leaving", "probe", "pruning", "move", "drop", "move_pending"}
Outcomes == {"none", "failed", "ignored", "asked", "connected", "declined", "disconnected",
             "left", "pruned", "migrated"}

Busy == {h \in Handlers : pc[h] \notin {"idle", "done"}}
Live == IF moved THEN New ELSE Old

\* Where the bot is, as Telegram answers: a migrated basic group is dead.
In(c) == c = Live /\ bot # "out"

(***************************************************************************)
(* Calls that may fail, and how a handler moves on                          *)
(***************************************************************************)
Fault == faults > 0 /\ faults' = faults - 1
Works == faults' = faults

Goto(h, l) == pc' = [pc EXCEPT ![h] = l] /\ outcome' = outcome
End(h, o) == pc' = [pc EXCEPT ![h] = "done"] /\ outcome' = [outcome EXCEPT ![h] = o]

\* is_connected answers k: from the cache, or, when the entry is missing or
\* has expired, from the row, and then the cache keeps the answer.
is_connected(c, k) ==
    \/ conn[c] = (IF k THEN "yes" ELSE "no") /\ conn' = conn
    \/ k = (row[c] = "active") /\ conn' = [conn EXCEPT ![c] = IF k THEN "yes" ELSE "no"]

\* add_group and deactivate_group write the row, then put the answer in the cache.
add_group(c) == row' = [row EXCEPT ![c] = "active"] /\ conn' = [conn EXCEPT ![c] = "yes"]
deactivate_group(c) ==
    IF row[c] = "none" THEN UNCHANGED <<row, conn>>
    ELSE row' = [row EXCEPT ![c] = "inactive"] /\ conn' = [conn EXCEPT ![c] = "no"]

add_pending(c) ==
    pend' = [pend EXCEPT ![c] = TRUE] /\ late' = (late \/ ~In(c))
remove_pending(c) == pend' = [pend EXCEPT ![c] = FALSE]

\* The bot's membership changes and Telegram queues the update.
Becomes(s) ==
    /\ bot' = s /\ updates' = Append(updates, [chat |-> Live, was |-> bot, is |-> s])
    /\ gone' = IF s = "out" THEN [h \in Handlers |-> IF h \in Busy THEN gone[h] \cup {Live} ELSE gone[h]]
               ELSE gone
    /\ told' = (told /\ s # "out")
StaysAs == UNCHANGED <<bot, updates, gone, told>>

\* leave_chat: refused for a chat that the bot is not in.
leave_chat(c) == IF In(c) THEN Becomes("out") ELSE StaysAs

\* The bot is outside, or waits for its rights with the prompt on show, or
\* the group is connected.
Init ==
    /\ row \in [Chats -> {"none", "active", "inactive"}] /\ row[New] = "none"
    /\ bot \in {"out", "member", "admin"} /\ (row[Old] = "active" <=> bot = "admin")
    /\ pend = [c \in Chats |-> c = Old /\ bot = "member"] /\ conn = [c \in Chats |-> "unknown"]
    /\ prompt = (IF bot = "member" THEN "live" ELSE "none")
    /\ moved = FALSE /\ updates = << >>
    /\ moves = MaxMoves /\ faults = MaxFaults
    /\ kind = [h \in Handlers |-> "update"] /\ pc = [h \in Handlers |-> "idle"]
    /\ chat = [h \in Handlers |-> Old]
    /\ todo = [h \in Handlers |-> {}] /\ bad = [h \in Handlers |-> {}]
    /\ outcome = [h \in Handlers |-> "none"]
    /\ gone = [h \in Handlers |-> {}] /\ told = FALSE
    /\ overlap = FALSE /\ missed = FALSE /\ late = FALSE /\ stale = FALSE

(***************************************************************************)
(* The group's people and Telegram                                          *)
(***************************************************************************)
Move(s) ==
    /\ moves > 0 /\ moves' = moves - 1 /\ s # bot /\ Becomes(s)
    /\ UNCHANGED <<stores, moved, prompt, faults, control, pc, calls, outcome, overlap, missed, late, stale>>

\* The update of a migration is the service message in the supergroup.
Migrate ==
    /\ ~moved /\ bot # "out" /\ moved' = TRUE
    /\ updates' = Append(updates, [chat |-> New, was |-> "moved", is |-> "moved"])
    /\ UNCHANGED <<stores, bot, prompt, moves, faults, control, pc, calls, outcome, history>>

(***************************************************************************)
(* Dispatch                                                                 *)
(***************************************************************************)
Start(h, k, c, l) ==
    /\ k \in Kinds /\ pc[h] = "idle" /\ Cardinality(Busy) < MaxBusy
    /\ kind' = [kind EXCEPT ![h] = k] /\ chat' = [chat EXCEPT ![h] = c]
    /\ pc' = [pc EXCEPT ![h] = l] /\ outcome' = outcome
    /\ gone' = [gone EXCEPT ![h] = {d \in Chats : ~In(d)}]
    /\ overlap' = (overlap \/ Busy # {})
    /\ UNCHANGED <<stores, bot, moved, moves, faults, told, missed, late, stale>>

\* A my_chat_member update.  A removal starts three calls; a demotion, a
\* primary group and an unknown user who added the bot are only logged;
\* everything else is a chance to connect.
on_bot_added(h) ==
    /\ updates # << >> /\ Head(updates).is # "moved"
    /\ LET u == Head(updates) IN
       /\ Start(h, "update", u.chat,
                IF u.is = "out" THEN "removed"
                ELSE IF u.was = "admin" THEN "done"
                ELSE IF u.is = "admin" THEN "added" ELSE "ask")
       /\ todo' = [todo EXCEPT ![h] = IF u.is = "out" THEN {"check", "deactivate", "unpend"} \X {u.chat} ELSE {}]
    /\ updates' = Tail(updates) /\ UNCHANGED <<prompt, bad>>

\* The service message of a migration.
on_chat_migration(h) ==
    /\ updates # << >> /\ Head(updates).is = "moved" /\ Start(h, "migrate", New, "move")
    /\ updates' = Tail(updates) /\ UNCHANGED <<prompt, calls>>

\* A tap on Connect or Cancel.  The buttons stay until the handler edits the
\* prompt, so the owner may tap again; a tap of someone else, or one whose
\* tapper cannot be looked up, only takes the buttons away.
on_join_decision(h) ==
    /\ prompt = "live" /\ bot # "out"
    /\ \/ Start(h, "join", Live, "perms") /\ prompt' = prompt
       \/ Start(h, "cancel", Live, "cancelled") /\ prompt' = prompt
       \/ Start(h, "join", Live, "done") /\ prompt' = "spent"
    /\ UNCHANGED <<updates, calls>>

\* Commands written in the group by its administrators.
cmd_tcconnect(h) ==
    bot # "out" /\ Start(h, "connect", Live, "gather") /\ UNCHANGED <<updates, prompt, calls>>
cmd_tcdisconnect(h) ==
    bot # "out" /\ Start(h, "disconnect", Live, "check") /\ UNCHANGED <<updates, prompt, calls>>

\* Staff commands, written anywhere.
cmd_rmtc(h, c) ==
    row[c] # "none" /\ Start(h, "rmtc", c, "rm") /\ UNCHANGED <<updates, prompt, calls>>
cmd_leaveall(h) == Start(h, "leaveall", Live, "all") /\ UNCHANGED <<updates, prompt, calls>>
cmd_cleanup(h) == Start(h, "cleanup", Live, "probe") /\ UNCHANGED <<updates, prompt, calls>>

Command(h) ==
    \/ cmd_tcconnect(h) \/ cmd_tcdisconnect(h) \/ cmd_leaveall(h) \/ cmd_cleanup(h)
    \/ \E c \in Chats : cmd_rmtc(h, c)

(***************************************************************************)
(* on_bot_added                                                             *)
(***************************************************************************)
\* Mutation: the removal of the bot leaves its pending row.
RemovedCall_KeepsPending(h, c) ==
    /\ pc[h] = "removed" /\ c \in todo[h] /\ Works /\ missed' = missed /\ pend' = pend
    /\ todo' = [todo EXCEPT ![h] = @ \ {c}]
    /\ IF c[1] = "deactivate" THEN deactivate_group(c[2]) ELSE UNCHANGED <<row, conn>>
    /\ UNCHANGED <<telegram, moves, control, pc, bad, outcome, gone, told, overlap, late, stale>>

\* Mutation: the removal of the bot leaves the group's record.
RemovedCall_KeepsRow(h, c) ==
    /\ pc[h] = "removed" /\ c \in todo[h] /\ Works /\ UNCHANGED <<row, conn, missed>>
    /\ todo' = [todo EXCEPT ![h] = @ \ {c}]
    /\ IF c[1] = "unpend" THEN remove_pending(c[2]) ELSE pend' = pend
    /\ UNCHANGED <<telegram, moves, control, pc, bad, outcome, gone, told, overlap, late, stale>>

\* One of the calls of a removal; failures are not even reported.
RemovedCall(h, c) ==
    /\ pc[h] = "removed" /\ c \in todo[h]
    /\ todo' = [todo EXCEPT ![h] = @ \ {c}]
    /\ \/ Works /\ c[1] = "deactivate" /\ deactivate_group(c[2]) /\ UNCHANGED <<pend, missed>>
       \/ Works /\ c[1] = "unpend" /\ remove_pending(c[2]) /\ UNCHANGED <<row, conn, missed>>
       \/ /\ Works /\ c[1] = "check" /\ (is_connected(c[2], TRUE) \/ is_connected(c[2], FALSE))
          /\ UNCHANGED <<row, pend, missed>>
       \/ Fault /\ missed' = (missed \/ c[1] # "check") /\ UNCHANGED stores
    /\ UNCHANGED <<telegram, moves, control, pc, bad, outcome, gone, told, overlap, late, stale>>

RemovedEnd(h) ==
    /\ pc[h] = "removed" /\ todo[h] = {} /\ End(h, "left")
    /\ UNCHANGED <<stores, telegram, moves, faults, control, calls, history>>

\* Pending row and connection are read together; a failed read counts as
\* absent.  An administrator with a pending request and all the rights
\* connects at once; a group that is neither connected nor pending gets the
\* prompt.
BotAdded(h) ==
    LET c == chat[h] IN
    /\ pc[h] \in {"added", "ask"}
    /\ \E p, k \in BOOLEAN :
         /\ \/ Works /\ p = pend[c] /\ is_connected(c, k)
            \/ Fault /\ ~p /\ is_connected(c, k)
            \/ Fault /\ p = pend[c] /\ ~k /\ conn' = conn
         /\ \/ p /\ pc[h] = "added" /\ Goto(h, "add_group") /\ prompt' = "spent"
            \/ p /\ pc[h] = "added" /\ End(h, "ignored") /\ prompt' = prompt
            \/ p /\ pc[h] # "added" /\ End(h, "ignored") /\ prompt' = prompt
            \/ ~p /\ k /\ End(h, "ignored") /\ prompt' = prompt
            \/ ~p /\ ~k /\ Goto(h, "pending") /\ prompt' = prompt
    /\ UNCHANGED <<row, pend, bot, moved, updates, moves, control, calls, history>>

\* The prompt is sent; a failure ends the attempt.
SendPrompt(h) ==
    /\ pc[h] = "pending"
    /\ \/ Works /\ In(chat[h]) /\ prompt' = "live" /\ Goto(h, "taken")
       \/ (Fault \/ (Works /\ ~In(chat[h]))) /\ prompt' = prompt /\ End(h, "failed")
    /\ UNCHANGED <<stores, bot, moved, updates, moves, control, calls, history>>

\* add_pending comes after the prompt.
StorePending(h) ==
    /\ pc[h] = "taken" /\ prompt' = IF kind[h] = "join" THEN "spent" ELSE prompt
    /\ \/ Works /\ add_pending(chat[h]) /\ End(h, "asked")
       \/ Fault /\ UNCHANGED <<pend, late>> /\ End(h, "failed")
    /\ UNCHANGED <<row, conn, bot, moved, updates, moves, control, calls, gone, told, overlap, missed, stale>>

(***************************************************************************)
(* on_join_decision and cmd_tcconnect                                       *)
(***************************************************************************)
\* Connect: the bot's rights are checked; without them the request stays
\* pending.
JoinPerms(h) ==
    /\ pc[h] = "perms"
    /\ \/ Works /\ In(chat[h]) /\ prompt' = prompt /\ Goto(h, IF bot = "admin" THEN "known" ELSE "taken")
       \/ (Fault \/ (Works /\ ~In(chat[h]))) /\ prompt' = "spent" /\ End(h, "failed")
    /\ UNCHANGED <<stores, bot, moved, updates, moves, control, calls, history>>

\* Every answer edits the prompt; a group still to connect gets the progress
\* message.
JoinKnown(h) ==
    /\ pc[h] = "known" /\ prompt' = "spent"
    /\ \/ Works /\ is_connected(chat[h], TRUE) /\ End(h, "ignored")
       \/ Works /\ is_connected(chat[h], FALSE) /\ Goto(h, "add_group")
       \/ Fault /\ conn' = conn /\ End(h, "failed")
    /\ UNCHANGED <<row, pend, bot, moved, updates, moves, control, calls, history>>

\* Cancel: the pending row goes first, then the bot leaves.
JoinCancel(h) ==
    /\ pc[h] = "cancelled" /\ Goto(h, "leave")
    /\ \/ Works /\ remove_pending(chat[h])
       \/ Fault /\ pend' = pend
    /\ UNCHANGED <<row, conn, telegram, moves, control, calls, history>>

\* /tcconnect gathers rights, connection and pending row; failed reads of the
\* last two count as absent.
ConnectGather(h) ==
    LET c == chat[h] IN
    /\ pc[h] = "gather"
    /\ \E p, k \in BOOLEAN :
         /\ \/ Works /\ p = pend[c] /\ is_connected(c, k)
            \/ Fault /\ ~p /\ is_connected(c, k)
            \/ Fault /\ p = pend[c] /\ ~k /\ conn' = conn
         /\ IF k \/ p THEN End(h, "ignored")
            ELSE IF bot = "admin" /\ In(c) THEN Goto(h, "add_group") ELSE End(h, "failed")
    /\ UNCHANGED <<row, pend, telegram, moves, control, calls, history>>

\* Mutation: the confirmation does not wait for the group record.
JoinAddGroup_Optimistic(h) ==
    /\ pc[h] = "add_group" /\ Goto(h, "unpend")
    /\ \/ Works /\ add_group(chat[h])
       \/ Fault /\ UNCHANGED <<row, conn>>
    /\ UNCHANGED <<pend, telegram, moves, control, calls, history>>

\* complete_join: a failed group record raises; the pending row survives it.
JoinAddGroup(h) ==
    /\ pc[h] = "add_group"
    /\ \/ Works /\ add_group(chat[h]) /\ Goto(h, "unpend")
       \/ Fault /\ UNCHANGED <<row, conn>> /\ End(h, "failed")
    /\ UNCHANGED <<pend, telegram, moves, control, calls, history>>

\* complete_join, after the record: the pending row goes, a failure is logged.
JoinUnpend(h) ==
    /\ pc[h] = "unpend" /\ Goto(h, "confirm")
    /\ \/ Works /\ remove_pending(chat[h])
       \/ Fault /\ pend' = pend
    /\ UNCHANGED <<row, conn, telegram, moves, control, calls, history>>

\* The owner is told once the replay is over.
JoinConfirm(h) ==
    /\ pc[h] = "confirm" /\ End(h, "connected") /\ prompt' = IF prompt = "live" THEN "spent" ELSE prompt
    /\ told' = (chat[h] = Live /\ Live \notin gone[h])
    /\ UNCHANGED <<stores, bot, moved, updates, moves, faults, control, calls, gone, overlap, missed, late, stale>>

(***************************************************************************)
(* Disconnecting                                                            *)
(***************************************************************************)
\* /tcdisconnect in a connected group, by someone who may manage it.
DisconnectCheck(h) ==
    /\ pc[h] = "check"
    /\ \/ Works /\ is_connected(chat[h], TRUE) /\ Goto(h, "deactivate")
       \/ Works /\ is_connected(chat[h], FALSE) /\ End(h, "ignored")
       \/ Fault /\ conn' = conn /\ End(h, "failed")
    /\ UNCHANGED <<row, pend, telegram, moves, control, calls, history>>

\* /tcdisconnect and /rmtc: the bot leaves only after the record says so.
Deactivate(h) ==
    /\ pc[h] \in {"deactivate", "rm"}
    /\ \/ /\ Works /\ deactivate_group(chat[h])
          /\ IF row[chat[h]] = "none" THEN End(h, "failed") ELSE Goto(h, "leave")
       \/ Fault /\ UNCHANGED <<row, conn>> /\ End(h, "failed")
    /\ UNCHANGED <<pend, telegram, moves, control, calls, history>>

\* leave_chat at the end of Cancel, /tcdisconnect and /rmtc; its failure is
\* only logged.
Leave(h) ==
    /\ pc[h] = "leave" /\ End(h, IF kind[h] = "cancel" THEN "declined" ELSE "disconnected")
    /\ \/ Works /\ leave_chat(chat[h])
       \/ Fault /\ StaysAs
    /\ prompt' = IF kind[h] = "cancel" THEN "spent" ELSE prompt
    /\ UNCHANGED <<stores, moved, moves, control, calls, overlap, missed, late, stale>>

(***************************************************************************)
(* /leaveall and /cleanup: over the active rows as they were read           *)
(***************************************************************************)
ActiveRows == {c \in Chats : row[c] = "active"}

LeaveAll(h) ==
    /\ pc[h] = "all"
    /\ \/ Works /\ Goto(h, "leaving")
          /\ todo' = [todo EXCEPT ![h] = {"leave", "deactivate"} \X ActiveRows]
       \/ Fault /\ todo' = todo /\ End(h, "failed")
    /\ UNCHANGED <<stores, telegram, moves, control, bad, history>>

\* _leave_one: leaving and deactivating run side by side.
LeaveOne(h, c) ==
    /\ pc[h] = "leaving" /\ c \in todo[h]
    /\ todo' = [todo EXCEPT ![h] = @ \ {c}]
    /\ \/ Works /\ c[1] = "leave" /\ leave_chat(c[2]) /\ UNCHANGED <<row, conn>>
          /\ bad' = IF In(c[2]) THEN bad ELSE [bad EXCEPT ![h] = @ \cup {c}]
       \/ Works /\ c[1] = "deactivate" /\ deactivate_group(c[2]) /\ StaysAs /\ bad' = bad
       \/ Fault /\ bad' = [bad EXCEPT ![h] = @ \cup {c}] /\ StaysAs /\ UNCHANGED <<row, conn>>
    /\ UNCHANGED <<pend, moved, prompt, moves, control, pc, outcome, overlap, missed, late, stale>>

\* A leave counts only when both sides worked.
LeaveAllEnd(h) ==
    /\ pc[h] = "leaving" /\ todo[h] = {} /\ End(h, IF bad[h] = {} THEN "left" ELSE "failed")
    /\ UNCHANGED <<stores, telegram, moves, faults, control, calls, history>>

\* _should_remove: left or kicked; an unanswered probe keeps the group.
ShouldRemove(c) == c = Live /\ bot = "out"

CleanupProbe(h) ==
    /\ pc[h] = "probe"
    /\ \/ /\ Works /\ Goto(h, "pruning")
          /\ todo' = [todo EXCEPT ![h] = {"deactivate"} \X {c \in ActiveRows : ShouldRemove(c)}]
       \/ Fault /\ todo' = todo /\ End(h, "failed")
    /\ UNCHANGED <<stores, telegram, moves, control, bad, history>>

CleanupDeactivate(h, c) ==
    /\ pc[h] = "pruning" /\ c \in todo[h]
    /\ todo' = [todo EXCEPT ![h] = @ \ {c}]
    /\ \/ Works /\ deactivate_group(c[2])
       \/ Fault /\ UNCHANGED <<row, conn>>
    /\ UNCHANGED <<pend, telegram, moves, control, pc, bad, outcome, history>>

CleanupEnd(h) ==
    /\ pc[h] = "pruning" /\ todo[h] = {} /\ End(h, "pruned")
    /\ UNCHANGED <<stores, telegram, moves, faults, control, calls, history>>

(***************************************************************************)
(* migrate_group                                                            *)
(***************************************************************************)
\* The row is repointed; when the supergroup has a row of its own the unique
\* index rejects that and the old row is dropped.
MigrateRow(h) ==
    /\ pc[h] = "move"
    /\ \/ /\ Works
          /\ \/ row[Old] # "none" /\ row[New] # "none" /\ Goto(h, "drop") /\ row' = row
             \/ row[Old] # "none" /\ row[New] = "none" /\ Goto(h, "move_pending")
                /\ row' = [row EXCEPT ![New] = row[Old], ![Old] = "none"]
             \/ row[Old] = "none" /\ Goto(h, "move_pending") /\ row' = row
          /\ bad' = IF row[Old] = "none" THEN [bad EXCEPT ![h] = {<<"row", Old>>}] ELSE bad
          /\ stale' = (stale \/ (row[Old] # "none" /\ "inactive" = IF row[New] = "none" THEN row[Old] ELSE row[New]))
       \/ Fault /\ End(h, "failed") /\ UNCHANGED <<row, bad, stale>>
    /\ UNCHANGED <<pend, conn, telegram, moves, control, todo, gone, told, overlap, missed, late>>

MigrateDrop(h) ==
    /\ pc[h] = "drop"
    /\ \/ Works /\ row' = [row EXCEPT ![Old] = "none"] /\ Goto(h, "move_pending")
       \/ Fault /\ row' = row /\ End(h, "failed")
    /\ UNCHANGED <<pend, conn, telegram, moves, control, calls, history>>

\* Mutation: every migration marks the supergroup as connected.
MigratePending_Poisons(h) ==
    /\ pc[h] = "move_pending" /\ End(h, "migrated") /\ Works
    /\ pend' = [pend EXCEPT ![New] = @ \/ pend[Old], ![Old] = FALSE]
    /\ conn' = [conn EXCEPT ![Old] = "no", ![New] = "yes"]
    /\ UNCHANGED <<row, telegram, moves, control, calls, history>>

\* The pending row follows; then the cache learns both answers, the new one
\* only when a group row moved.
MigratePending(h) ==
    LET rowMoved == bad[h] = {}
        pendMoved == pend[Old] /\ ~pend[New]
    IN
    /\ pc[h] = "move_pending" /\ End(h, "migrated")
    /\ \E ok \in BOOLEAN :
         /\ IF ok THEN Works ELSE Fault
         /\ pend' = IF ok THEN [pend EXCEPT ![New] = @ \/ pend[Old], ![Old] = FALSE] ELSE pend
         /\ conn' = IF rowMoved THEN [conn EXCEPT ![Old] = "no", ![New] = "yes"]
                    ELSE IF ok /\ pendMoved THEN [conn EXCEPT ![Old] = "no"] ELSE conn
         /\ late' = (late \/ (ok /\ pend[Old] /\ ~In(New)))
    /\ UNCHANGED <<row, telegram, moves, control, calls, gone, told, overlap, missed, stale>>

Step(h) ==
    \/ (\E c \in todo[h] : RemovedCall(h, c) \/ LeaveOne(h, c) \/ CleanupDeactivate(h, c))
    \/ RemovedEnd(h) \/ BotAdded(h) \/ SendPrompt(h) \/ StorePending(h)
    \/ JoinPerms(h) \/ JoinKnown(h) \/ JoinCancel(h) \/ ConnectGather(h)
    \/ JoinAddGroup(h) \/ JoinUnpend(h) \/ JoinConfirm(h)
    \/ DisconnectCheck(h) \/ Deactivate(h) \/ Leave(h)
    \/ LeaveAll(h) \/ LeaveAllEnd(h) \/ CleanupProbe(h) \/ CleanupEnd(h)
    \/ MigrateRow(h) \/ MigrateDrop(h) \/ MigratePending(h)

\* Nothing is left to run.
Terminated == Busy = {} /\ UNCHANGED vars

Next ==
    \/ \E h \in Handlers :
         on_bot_added(h) \/ on_chat_migration(h) \/ on_join_decision(h) \/ Command(h) \/ Step(h)
    \/ \E s \in {"out", "member", "admin"} : Move(s)
    \/ Migrate \/ Terminated

Spec == Init /\ [][Next]_vars

(***************************************************************************)
(* Properties                                                               *)
(***************************************************************************)
TypeOK ==
    /\ row \in [Chats -> {"none", "active", "inactive"}]
    /\ pend \in [Chats -> BOOLEAN] /\ conn \in [Chats -> {"yes", "no", "unknown"}]
    /\ bot \in {"out", "member", "admin"} /\ moved \in BOOLEAN
    /\ prompt \in {"none", "live", "spent"}
    /\ LET Status == {"out", "member", "admin", "moved"}
       IN  updates \in Seq([chat : Chats, was : Status, is : Status])
    /\ moves \in 0..MaxMoves /\ faults \in 0..MaxFaults
    /\ kind \in [Handlers -> AllKinds] /\ pc \in [Handlers -> Points]
    /\ chat \in [Handlers -> Chats]
    /\ todo \in [Handlers -> SUBSET ({"check", "deactivate", "unpend", "leave"} \X Chats)]
    /\ bad \in [Handlers -> SUBSET ({"row", "leave", "deactivate"} \X Chats)]
    /\ outcome \in [Handlers -> Outcomes] /\ gone \in [Handlers -> SUBSET Chats] /\ told \in BOOLEAN
    /\ overlap \in BOOLEAN /\ missed \in BOOLEAN /\ late \in BOOLEAN /\ stale \in BOOLEAN

\* Every update has been handled and nothing runs.
Quiet == Busy = {} /\ updates = << >>

\* A pending row of a group that the bot is not in blocks its next connection.
\* It is left only by a removal whose delete failed, or by a request stored
\* or moved after the bot had left (on_bot_added, on_join_decision,
\* migrate_group).
NoStrandedRequest == (Quiet /\ bot = "out" /\ pend[Live]) => missed \/ late

\* Handlers that do not overlap leave no ghost, an active record of a group
\* that the bot is not in, unless a removal failed to write: whichever of
\* them failed half-way (cmd_tcdisconnect, cmd_rmtc, _leave_one, on_bot_added).
NoGhost == (Quiet /\ ~overlap /\ bot = "out" /\ ~missed) => row[Live] # "active"

\* A group whose owner was told that it is connected is active, until someone
\* removes it or the bot: every failed step on the way is reported, and the
\* migration carries the connection along (complete_join, migrate_group).
ConfirmedIsConnected ==
    (/\ Busy = {} /\ told
     /\ \A h \in Handlers : pc[h] = "idle" \/ kind[h] \in {"join", "connect", "update", "migrate"}
     /\ \A h \in Handlers : outcome[h] # "left")
    => \E c \in Chats : row[c] = "active"

\* The cache says connected only of groups that are, whatever fails, unless
\* handlers overlapped.  A migration that leaves the supergroup an inactive row
\* nevertheless marks it as connected: that chat alone is excepted, and the old
\* one is right then too (is_connected, add_group, deactivate_group,
\* migrate_group).
CacheNotPoisoned ==
    (Busy = {} /\ ~overlap) => \A c \in Chats : conn[c] = "yes" => row[c] = "active" \/ (stale /\ c = New)

\* "Only mark the new chat connected when its federated_groups row actually
\* moved: a [...] migration must not poison is_connected" (migrate_group).
\* Refuted: the row of a disconnected group moves as well.
MigrationDoesNotPoison ==
    (Busy = {} /\ ~overlap) => \A c \in Chats : conn[c] = "yes" => row[c] = "active"
=============================================================================
