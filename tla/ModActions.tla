---------------------------- MODULE ModActions ----------------------------
(***************************************************************************)
(* Mutes and kicks: the reason-and-proof conversation of one moderator, the  *)
(* executors it starts, and the /tcunmute and sync commands of others.       *)
(*                                                                         *)
(* One target user.  A request is one /tcmute or /tckick, numbered in order. *)
(* Conversations are kept per chat, but their data (user_data) per user, so  *)
(* the moderator's conversations share one record.  Handlers are the updates *)
(* being processed, used again and again.                                    *)
(***************************************************************************)
EXTENDS Naturals, FiniteSets

CONSTANTS
    Chats,        \* connected chats, also the ones the moderator writes in
    Handlers,     \* updates that can be in process at once
    MaxRequests,  \* bound: commands that open a conversation
    MaxOthers,    \* bound: /tcunmute and sync commands
    MaxFaults     \* bound: failing calls and restarts

ASSUME BoundAssumption == MaxRequests \in Nat /\ MaxOthers \in Nat /\ MaxFaults \in Nat

VARIABLES
    action,       \* which of the two flows: "mute" or "kick"
    rank,         \* the moderator still has the tester role
    conv,         \* per chat: the conversation's state
    ud,           \* the action's keys in user_data
    record,       \* the active_mutes document of the target exists
    limited,      \* chats in which the target may not send
    banned,       \* chats in which the target is banned by a kick
    rows,         \* requests in the kicks collection; 0 is user id 0
    asked,        \* requests so far
    others,       \* /tcunmute and sync commands left
    faults,       \* faults left
    pc, at,       \* per handler: control point, its chat
    req,          \* per handler: the request its executor took, 0 for none
    todo, failed, \* per handler: chats to call, chats whose call failed
    met,          \* history, per handler: it ran across another mute or replay
    ran,          \* history, per request: executors that took it
    left,         \* history, per handler: chats its unmute did not reach
    stuck,        \* history: chats an unmute gave up on when it deleted the record
    raced,        \* history: a mute record was deleted across another mute
    cut           \* history: a kick was cut off between its ban and its unban

store == <<record, limited, banned, rows>>
locals == <<pc, at, req, todo, failed>>
history == <<met, left, stuck, ran, raced, cut>>
vars == <<action, rank, conv, ud, store, asked, others, faults, locals, history>>

Empty == [req |-> 0, proof |-> FALSE, exec |-> FALSE]
Requests == 1..MaxRequests
Executing == {"mute_groups", "mute_set", "mute_log", "mute_undo", "mute_call",
              "kick_pop", "kick_log", "kick_ban", "kick_unban"}
Points == Executing \cup {"idle", "stay_reason", "stay_proof", "entry", "prompt", "reason", "done", "recheck", "run", "flow_end", "end",
                          "un_read", "un_groups", "un_call", "sync_read", "sweep_read", "sync_call"}

Home == CHOOSE c \in Chats : TRUE   \* where an idle handler is said to be

Busy == {h \in Handlers : pc[h] # "idle"}
Fault == faults > 0 /\ faults' = faults - 1
Works == faults' = faults
Goto(h, l) == pc' = [pc EXCEPT ![h] = l]

Init ==
    /\ action \in {"mute", "kick"} /\ rank = TRUE
    /\ conv = [c \in Chats |-> "none"] /\ ud = Empty
    /\ record = FALSE /\ limited = {} /\ banned = {} /\ rows = {}
    /\ asked = 0 /\ others = MaxOthers /\ faults = MaxFaults
    /\ pc = [h \in Handlers |-> "idle"] /\ at = [h \in Handlers |-> Home]
    /\ req = [h \in Handlers |-> 0]
    /\ todo = [h \in Handlers |-> {}] /\ failed = [h \in Handlers |-> {}]
    /\ met = [h \in Handlers |-> FALSE] /\ left = [h \in Handlers |-> {}] /\ stuck = {}
    /\ ran = [r \in Requests |-> 0] /\ raced = FALSE /\ cut = FALSE

(***************************************************************************)
(* The conversation                                                         *)
(***************************************************************************)
\* An update reaches a handler in a chat.
Take(h, c, l) ==
    /\ pc[h] = "idle" /\ Goto(h, l) /\ at' = [at EXCEPT ![h] = c]
    /\ UNCHANGED <<req, todo, failed>>

\* The handler returns a conversation state.
Return(h, s) ==
    /\ Goto(h, "idle") /\ conv' = [conv EXCEPT ![at[h]] = s]
    /\ at' = [at EXCEPT ![h] = Home]
    /\ UNCHANGED <<todo, failed>>

_clear_user_data == ud' = Empty

\* A command with no conversation open in the chat: the decorators and the
\* checks of target and rank pass.
Open(h, c) ==
    /\ conv[c] = "none" /\ rank /\ Take(h, c, "entry")
    /\ asked + Cardinality({g \in Handlers : pc[g] = "entry"}) < MaxRequests
    /\ UNCHANGED <<action, rank, conv, ud, store, asked, others, faults, history>>

cmd_mute(h, c) == action = "mute" /\ Open(h, c)

cmd_kick(h, c) == action = "kick" /\ Open(h, c)

\* The target's role, if any, is gone and the keys are stored; a failing check
\* or demotion ends the command.  What a running executor or a late proof left
\* in user_data is not reset.
EntryStore(h) ==
    /\ pc[h] = "entry"
    /\ \/ Works /\ rank /\ asked' = asked + 1 /\ ud' = [ud EXCEPT !.req = asked + 1]
          /\ Goto(h, "prompt") /\ UNCHANGED <<conv, at, todo, failed>>
       \/ (Fault \/ (Works /\ ~rank)) /\ Return(h, "none") /\ UNCHANGED <<asked, ud>>
    /\ UNCHANGED <<action, rank, req, store, others, met, left, stuck, ran, raced, cut>>

\* The prompt is sent, for the reason or, after an inline reason, for proof.  A
\* prompt that cannot be sent takes the entry's keys with it.
EntryPrompt(h) ==
    /\ pc[h] = "prompt"
    /\ \/ Works /\ ud' = ud /\ (Return(h, "reason") \/ Return(h, "proof"))
       \/ Fault /\ ud' = [ud EXCEPT !.req = 0] /\ Return(h, "none")
    /\ UNCHANGED <<action, rank, req, store, asked, others, met, left, stuck, ran, raced, cut>>

MutePrompt(h) == action = "mute" /\ EntryPrompt(h)

KickPrompt(h) == action = "kick" /\ EntryPrompt(h)

\* A handler that changes no conversation data before its first await.
Receive(h, c, l) ==
    /\ Take(h, c, l)
    /\ UNCHANGED <<action, rank, conv, ud, store, asked, others, faults, history>>

\* A reason is stored, unless it is too long.
_on_reason_text(h, c) == conv[c] = "reason" /\ (Receive(h, c, "reason") \/ Receive(h, c, "stay_reason"))

_on_skip_reason(h, c) == conv[c] = "reason" /\ Receive(h, c, "reason")

\* Anything else is answered; the state returned is the one it was received in.
_on_reason_unexpected(h, c) == conv[c] = "reason" /\ Receive(h, c, "stay_reason")

_on_proof_unexpected(h, c) == conv[c] = "proof" /\ Receive(h, c, "stay_proof")

Stay(h) ==
    /\ \/ pc[h] = "stay_reason" /\ Return(h, "reason")
       \/ pc[h] = "stay_proof" /\ Return(h, "proof")
    /\ UNCHANGED <<action, rank, ud, req, store, asked, others, faults, met, left, stuck, ran, raced, cut>>

\* The prompt is edited; a prompt that cannot be edited ends the conversation.
ReasonEdit(h) ==
    /\ pc[h] = "reason"
    /\ \/ Works /\ ud' = ud /\ Return(h, "proof")
       \/ Fault /\ _clear_user_data /\ Return(h, "none")
    /\ UNCHANGED <<action, rank, req, store, asked, others, met, left, stuck, ran, raced, cut>>

\* Proof media is buffered, unless the executing key is set.
_on_proof(c) ==
    /\ conv[c] = "proof"
    /\ IF ud.exec THEN conv' = [conv EXCEPT ![c] = "none"] /\ ud' = ud
                  ELSE ud' = [ud EXCEPT !.proof = TRUE] /\ conv' = conv
    /\ UNCHANGED <<action, rank, store, asked, others, faults, locals, history>>

\* Skip reads the executing key at once.
_on_skip_proof(h, c) ==
    /\ conv[c] = "proof" /\ Take(h, c, IF ud.exec THEN "end" ELSE "recheck")
    /\ UNCHANGED <<action, rank, conv, ud, store, asked, others, faults, met, left, stuck, ran, raced, cut>>

\* Done looks up the locale first.
_on_done_proof(h, c) ==
    /\ conv[c] = "proof" /\ Take(h, c, "done")
    /\ UNCHANGED <<action, rank, conv, ud, store, asked, others, faults, met, left, stuck, ran, raced, cut>>

DoneCheck(h) ==
    /\ pc[h] = "done"
    /\ \/ ~ud.proof /\ Return(h, "proof")
       \/ ud.proof /\ ud.exec /\ Return(h, "none")
       \/ ud.proof /\ ~ud.exec /\ Goto(h, "recheck") /\ UNCHANGED <<conv, at, todo, failed>>
    /\ UNCHANGED <<action, rank, ud, req, store, asked, others, faults, met, left, stuck, ran, raced, cut>>

\* The rank is looked up; only then is the executing key set.  A lost rank or a
\* failing lookup ends the conversation.
_recheck_tapper(h) ==
    /\ pc[h] = "recheck"
    /\ \/ Works /\ rank /\ ud' = [ud EXCEPT !.exec = TRUE] /\ Goto(h, "run")
          /\ UNCHANGED <<conv, at, todo, failed>>
       \/ (Fault \/ (Works /\ ~rank)) /\ _clear_user_data /\ Return(h, "none")
    /\ UNCHANGED <<action, rank, req, store, asked, others, met, left, stuck, ran, raced, cut>>

\* Cancel, or any other command: the keys go at once, the state on return.
_on_cancel(h, c) ==
    /\ conv[c] # "none" /\ Take(h, c, "end") /\ _clear_user_data
    /\ UNCHANGED <<action, rank, conv, store, asked, others, faults, history>>

EndConversation(h) ==
    /\ pc[h] = "end" /\ Return(h, "none")
    /\ UNCHANGED <<action, rank, ud, req, store, asked, others, faults, met, left, stuck, ran, raced, cut>>

\* The executor has returned: the keys are cleared again.
FlowEnd(h) ==
    /\ pc[h] = "flow_end" /\ _clear_user_data /\ Return(h, "none")
    /\ req' = [req EXCEPT ![h] = 0] /\ met' = [met EXCEPT ![h] = FALSE]
    /\ UNCHANGED <<action, rank, store, asked, others, faults, left, stuck, ran, raced, cut>>

\* An executor takes the stored request, if there is one.
Took(h) ==
    /\ req' = [req EXCEPT ![h] = ud.req]
    /\ ran' = [r \in Requests |-> ran[r] + IF r = ud.req THEN 1 ELSE 0]

(***************************************************************************)
(* Mute                                                                     *)
(***************************************************************************)
MuteFrame == UNCHANGED <<action, rank, conv, at, asked, others, banned, rows, left, stuck, cut>>

\* Mutation: the keys are copied and stay.
_exec_mute_Copies(h) ==
    /\ pc[h] = "run" /\ action = "mute" /\ Took(h) /\ ud' = ud
    /\ Goto(h, IF ud.req = 0 THEN "flow_end" ELSE "mute_groups")
    /\ UNCHANGED <<record, limited, faults, todo, failed, met, raced>> /\ MuteFrame

\* All keys are moved out, the executing key too; no target, no action.
_exec_mute(h) ==
    /\ pc[h] = "run" /\ action = "mute" /\ Took(h) /\ _clear_user_data
    /\ Goto(h, IF ud.req = 0 THEN "flow_end" ELSE "mute_groups")
    /\ UNCHANGED <<record, limited, faults, todo, failed, met, raced>> /\ MuteFrame

MuteGroups(h) ==
    /\ pc[h] = "mute_groups"
    /\ \/ Works /\ Goto(h, "mute_set") /\ todo' = [todo EXCEPT ![h] = Chats]
       \/ Fault /\ Goto(h, "flow_end") /\ todo' = todo
    /\ UNCHANGED <<ud, req, record, limited, failed, met, ran, raced>> /\ MuteFrame

\* Handlers that lift or undo a mute, or replay one, while h starts another.
Meets(h) ==
    met' = [g \in Handlers |->
              IF g = h THEN record
              ELSE met[g] \/ pc[g] \in {"un_groups", "un_call", "mute_log", "mute_undo"}]

\* Mutation: a failed write is logged and the mute goes on.
set_active_mute_FailOpen(h) ==
    /\ pc[h] = "mute_set" /\ Goto(h, "mute_log") /\ Meets(h)
    /\ \/ Works /\ record' = TRUE
       \/ Fault /\ record' = record
    /\ UNCHANGED <<ud, req, limited, todo, failed, ran, raced>> /\ MuteFrame

\* The record comes first; without it nothing is restricted.
set_active_mute(h) ==
    /\ pc[h] = "mute_set"
    /\ \/ Works /\ record' = TRUE /\ Meets(h) /\ Goto(h, "mute_log")
       \/ Fault /\ UNCHANGED <<record, met>> /\ Goto(h, "flow_end")
    /\ UNCHANGED <<ud, req, limited, todo, failed, ran, raced>> /\ MuteFrame

log_mute(h) ==
    /\ pc[h] = "mute_log"
    /\ \/ Works /\ Goto(h, "mute_call")
       \/ Fault /\ Goto(h, "mute_undo")
    /\ UNCHANGED <<ud, req, record, limited, todo, failed, met, ran, raced>> /\ MuteFrame

\* The record of the target is deleted, whoever wrote it.
clear_active_mute(h) ==
    /\ record' = FALSE
    /\ raced' = (raced \/ met[h]
                 \/ \E g \in Handlers \ {h} : pc[g] \in {"mute_log", "mute_undo", "mute_call", "sync_call"})

\* No audit row: the record is taken back, as far as the database allows.
MuteUndo(h) ==
    /\ pc[h] = "mute_undo" /\ Goto(h, "flow_end") /\ todo' = [todo EXCEPT ![h] = {}]
    /\ \/ Works /\ clear_active_mute(h)
       \/ Fault /\ UNCHANGED <<record, raced>>
    /\ UNCHANGED <<ud, req, limited, failed, met, ran>> /\ MuteFrame

\* One call of the fan-out; failures are counted, the record stays.
MuteCall(h, c) ==
    /\ pc[h] = "mute_call" /\ c \in todo[h] /\ todo' = [todo EXCEPT ![h] = @ \ {c}]
    /\ \/ Works /\ limited' = limited \cup {c}
       \/ Fault /\ limited' = limited
    /\ Goto(h, IF todo[h] = {c} THEN "flow_end" ELSE "mute_call")
    /\ UNCHANGED <<ud, req, record, failed, met, ran, raced>> /\ MuteFrame

(***************************************************************************)
(* /tcunmute and the replay of mutes by sync                                *)
(***************************************************************************)
OtherFrame == UNCHANGED <<action, rank, conv, ud, banned, rows, asked, ran, cut>>

execute_unmute(h) ==
    /\ pc[h] = "idle" /\ others > 0 /\ others' = others - 1 /\ Goto(h, "un_read")
    /\ UNCHANGED <<at, req, todo, failed, record, limited, faults, met, left, stuck, raced>> /\ OtherFrame

\* No record, no unmute.
UnmuteRead(h) ==
    /\ pc[h] = "un_read"
    /\ \/ Works /\ Goto(h, IF record THEN "un_groups" ELSE "idle")
       \/ Fault /\ Goto(h, "idle")
    /\ met' = [met EXCEPT ![h] = record /\ \E g \in Handlers : pc[g] \in {"mute_log", "mute_call", "sync_call"}]
    /\ UNCHANGED <<at, req, todo, failed, record, limited, others, left, stuck, raced>> /\ OtherFrame

UnmuteGroups(h) ==
    /\ pc[h] = "un_groups"
    /\ \/ Works /\ Goto(h, "un_call") /\ todo' = [todo EXCEPT ![h] = Chats]
       \/ Fault /\ Goto(h, "idle") /\ todo' = todo
    /\ UNCHANGED <<at, req, failed, record, limited, others, met, left, stuck, raced>> /\ OtherFrame

\* One call of the fan-out: the chat is freed, or the call fails (an outage may
\* last for the rest of the fan-out), or Telegram refuses it in a way that
\* counts as no failure (the bot was demoted there, the chat is gone).
UnmuteCall(h, c) ==
    /\ pc[h] = "un_call" /\ c \in todo[h] /\ todo' = [todo EXCEPT ![h] = @ \ {c}]
    /\ \/ Works /\ limited' = limited \ {c} /\ stuck' = stuck \ {c} /\ UNCHANGED <<failed, left>>
       \/ /\ UNCHANGED <<limited, stuck>> /\ left' = [left EXCEPT ![h] = @ \cup {c}]
          /\ \/ (Fault \/ (failed[h] # {} /\ Works)) /\ failed' = [failed EXCEPT ![h] = @ \cup {c}]
             \/ Fault /\ failed' = failed
    /\ UNCHANGED <<pc, at, req, record, others, met, raced>> /\ OtherFrame

\* The record goes unless every chat failed or the delete fails.
UnmuteEnd(h) ==
    /\ pc[h] = "un_call" /\ todo[h] = {} /\ Goto(h, "idle")
    /\ failed' = [failed EXCEPT ![h] = {}] /\ left' = [left EXCEPT ![h] = {}]
    /\ \/ failed[h] = Chats /\ Works /\ UNCHANGED <<record, stuck, raced>>
       \/ failed[h] # Chats /\ Works /\ clear_active_mute(h) /\ stuck' = stuck \cup left[h]
       \/ failed[h] # Chats /\ Fault /\ UNCHANGED <<record, stuck, raced>>
    /\ met' = [met EXCEPT ![h] = FALSE]
    /\ UNCHANGED <<at, req, todo, limited, others>> /\ OtherFrame

verify_user(h) ==
    /\ pc[h] = "idle" /\ others > 0 /\ others' = others - 1 /\ Goto(h, "sync_read")
    /\ UNCHANGED <<at, req, todo, failed, record, limited, faults, met, left, stuck, raced>> /\ OtherFrame

\* An unreadable record counts as none.
SyncRead(h) ==
    /\ pc[h] = "sync_read"
    /\ \/ Works /\ record /\ Goto(h, "sync_call") /\ todo' = [todo EXCEPT ![h] = Chats] /\ Meets(h)
       \/ Works /\ ~record /\ Goto(h, "idle") /\ UNCHANGED <<todo, met>>
       \/ Fault /\ Goto(h, "idle") /\ UNCHANGED <<todo, met>>
    /\ UNCHANGED <<at, req, failed, record, limited, others, left, stuck, raced>> /\ OtherFrame

\* The sweep of all bans and mutes, by /tcsync without a target or on a timer.
_run_scheduled_sync(h) ==
    /\ pc[h] = "idle" /\ others > 0 /\ others' = others - 1 /\ Goto(h, "sweep_read")
    /\ UNCHANGED <<at, req, todo, failed, record, limited, faults, met, left, stuck, raced>> /\ OtherFrame

\* The mutes get what budget the bans leave, so any part of the chats; a sweep
\* that times out has done a part as well.
SweepRead(h) ==
    /\ pc[h] = "sweep_read"
    /\ \/ /\ Works /\ record /\ Goto(h, "sync_call") /\ Meets(h)
          /\ \E part \in SUBSET Chats \ {{}} : todo' = [todo EXCEPT ![h] = part]
       \/ Works /\ Goto(h, "idle") /\ UNCHANGED <<todo, met>>
       \/ Fault /\ Goto(h, "idle") /\ UNCHANGED <<todo, met>>
    /\ UNCHANGED <<at, req, failed, record, limited, others, left, stuck, raced>> /\ OtherFrame

\* Restrict, unless the probe fails, finds a restriction, perhaps one that is
\* lifted meanwhile, or no member.
_sync_mute_pair(h, c) ==
    /\ pc[h] = "sync_call" /\ c \in todo[h] /\ todo' = [todo EXCEPT ![h] = @ \ {c}]
    /\ Works /\ limited' \in {limited, limited \cup {c}}
    /\ Goto(h, IF todo[h] = {c} THEN "idle" ELSE "sync_call")
    /\ UNCHANGED <<at, req, failed, record, others, met, left, stuck, raced>> /\ OtherFrame

(***************************************************************************)
(* Kick                                                                     *)
(***************************************************************************)
KickFrame == UNCHANGED <<action, rank, conv, at, asked, others, record, limited,
                         todo, failed, met, left, stuck, raced>>

\* The target is popped, 0 if it is gone.
_exec_kick(h) ==
    /\ pc[h] = "run" /\ action = "kick" /\ Took(h) /\ Goto(h, "kick_pop")
    /\ ud' = [ud EXCEPT !.req = 0]
    /\ UNCHANGED <<banned, rows, faults, cut>> /\ KickFrame

\* After the locale lookup the proof is popped; the executing key stays.
KickPop(h) ==
    /\ pc[h] = "kick_pop" /\ ud' = [ud EXCEPT !.proof = FALSE] /\ Goto(h, "kick_log")
    /\ UNCHANGED <<req, banned, rows, faults, ran, cut>> /\ KickFrame

log_kick(h) ==
    /\ pc[h] = "kick_log"
    /\ \/ Works /\ rows' = rows \cup {req[h]} /\ Goto(h, "kick_ban")
       \/ Fault /\ rows' = rows /\ Goto(h, "flow_end")
    /\ UNCHANGED <<ud, req, banned, ran, cut>> /\ KickFrame

\* Telegram refuses user id 0.
KickBan(h) ==
    /\ pc[h] = "kick_ban"
    /\ \/ Works /\ req[h] # 0 /\ banned' = banned \cup {at[h]} /\ Goto(h, "kick_unban")
       \/ (Fault \/ (Works /\ req[h] = 0)) /\ banned' = banned /\ Goto(h, "flow_end")
    /\ UNCHANGED <<ud, req, rows, ran, cut>> /\ KickFrame

\* Mutation: a failing role lookup ends the kick.
KickUnban_StopsAtLookup(h) ==
    /\ pc[h] = "kick_unban" /\ Goto(h, "flow_end")
    /\ \/ Works /\ banned' = banned \ {at[h]}
       \/ Fault /\ banned' = banned
    /\ UNCHANGED <<ud, req, rows, ran, cut>> /\ KickFrame

\* Whatever the re-demotion meets, the ban is lifted; the lift may fail.
KickUnban(h) ==
    /\ pc[h] = "kick_unban" /\ Goto(h, "flow_end")
    /\ \/ (Works \/ Fault) /\ banned' = banned \ {at[h]} /\ cut' = cut
       \/ Fault /\ banned' = banned /\ cut' = TRUE
    /\ UNCHANGED <<ud, req, rows, ran>> /\ KickFrame

(***************************************************************************)
(* The world                                                                *)
(***************************************************************************)
\* Somebody demotes the moderator.
Demoted ==
    /\ rank /\ rank' = FALSE
    /\ UNCHANGED <<action, conv, ud, store, asked, others, faults, locals, history>>

\* The process stops: conversations, user_data and handlers are memory.
Restart ==
    /\ Fault /\ conv' = [c \in Chats |-> "none"] /\ _clear_user_data
    /\ pc' = [h \in Handlers |-> "idle"] /\ at' = [h \in Handlers |-> Home]
    /\ met' = [h \in Handlers |-> FALSE] /\ req' = [h \in Handlers |-> 0]
    /\ todo' = [h \in Handlers |-> {}] /\ failed' = [h \in Handlers |-> {}]
    /\ left' = [h \in Handlers |-> {}]
    /\ cut' = (cut \/ \E h \in Handlers : pc[h] = "kick_unban")
    /\ UNCHANGED <<action, rank, store, asked, others, stuck, ran, raced>>

Updates(h) ==
    \/ \E c \in Chats :
          \/ cmd_mute(h, c) \/ cmd_kick(h, c) \/ _on_reason_text(h, c) \/ _on_skip_reason(h, c)
          \/ _on_reason_unexpected(h, c) \/ _on_proof_unexpected(h, c)
          \/ _on_skip_proof(h, c) \/ _on_done_proof(h, c) \/ _on_cancel(h, c)
    \/ execute_unmute(h) \/ verify_user(h) \/ _run_scheduled_sync(h)

Step(h) ==
    \/ EntryStore(h) \/ MutePrompt(h) \/ KickPrompt(h) \/ ReasonEdit(h) \/ Stay(h) \/ DoneCheck(h)
    \/ _recheck_tapper(h) \/ EndConversation(h) \/ FlowEnd(h)
    \/ _exec_mute(h) \/ MuteGroups(h) \/ set_active_mute(h) \/ log_mute(h) \/ MuteUndo(h)
    \/ (\E c \in Chats : MuteCall(h, c) \/ UnmuteCall(h, c) \/ _sync_mute_pair(h, c))
    \/ UnmuteRead(h) \/ UnmuteGroups(h) \/ UnmuteEnd(h) \/ SyncRead(h) \/ SweepRead(h)
    \/ _exec_kick(h) \/ KickPop(h) \/ log_kick(h) \/ KickBan(h) \/ KickUnban(h)

\* Everything is used up and everybody idle.
Terminated == Busy = {} /\ UNCHANGED vars

Next ==
    \/ \E h \in Handlers : Updates(h) \/ Step(h)
    \/ \E c \in Chats : _on_proof(c)
    \/ Demoted \/ Restart \/ Terminated

Spec == Init /\ [][Next]_vars

(***************************************************************************)
(* Properties                                                               *)
(***************************************************************************)
TypeOK ==
    /\ action \in {"mute", "kick"} /\ rank \in BOOLEAN
    /\ conv \in [Chats -> {"none", "reason", "proof"}]
    /\ ud \in [req : 0..MaxRequests, proof : BOOLEAN, exec : BOOLEAN]
    /\ record \in BOOLEAN /\ limited \subseteq Chats /\ banned \subseteq Chats
    /\ rows \subseteq 0..MaxRequests /\ asked \in 0..MaxRequests
    /\ others \in 0..MaxOthers /\ faults \in 0..MaxFaults
    /\ pc \in [Handlers -> Points] /\ at \in [Handlers -> Chats]
    /\ req \in [Handlers -> 0..MaxRequests]
    /\ todo \in [Handlers -> SUBSET Chats] /\ failed \in [Handlers -> SUBSET Chats]
    /\ met \in [Handlers -> BOOLEAN] /\ left \in [Handlers -> SUBSET Chats] /\ stuck \subseteq Chats
    /\ ran \in [Requests -> Nat] /\ raced \in BOOLEAN /\ cut \in BOOLEAN

\* However taps, proof, cancels and commands of both chats interleave, a request
\* is executed at most once: the executors empty user_data as they start, which
\* is what stops a second tap that passed the executing key (_exec_mute,
\* _exec_kick).
ExecutedOnce == \A r \in Requests : ran[r] <= 1

\* A restriction can be lifted: with nobody at work a chat that silences the
\* target has a record for /tcunmute to find.  Two things are excepted: a record
\* deleted while another mute or replay of the target was under way, or by the
\* undo of a second mute; and, chat by chat, a chat whose own call of the last
\* unmute failed or was refused, which costs the record while other chats did
\* not fail (set_active_mute, MuteUndo, UnmuteCall, UnmuteEnd).
MuteIsLiftable == Busy = {} /\ ~raced /\ ~record => limited \subseteq stuck

\* A kick leaves nobody banned, unless the call that lifts the ban failed or the
\* process stopped before it (KickBan, KickUnban).
KickIsNotABan == Busy = {} /\ banned # {} => cut

\* mute.py says that enforcing chats without a record "leaves an un-unmutable
\* split brain", which writing the record first and undoing it is to prevent.
RestrictedHasRecord == Busy = {} /\ limited # {} => record

\* workflows.md says that a duplicate tap "returns ConversationHandler.END
\* immediately": no executor starts without a request, so no kick is logged
\* against user id 0.
KickRowsNameATarget == 0 \notin rows
=============================================================================
