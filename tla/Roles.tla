------------------------------- MODULE Roles -------------------------------
(***************************************************************************)
(* Federation roles: the owner row, the Admin rows, the Developer / Tester   *)
(* rows, and the queue of promotion requests.                               *)
(*                                                                         *)
(* The effective role of a user is spread over three collections that no    *)
(* transaction spans; every handler reads roles first and writes after an   *)
(* await.  A step is the code between two awaits.  A role read is one step:  *)
(* the cache in front of it is the subject of TwoLevelCache.                 *)
(*                                                                         *)
(* Handlers (kind[h]): promote (/tcpromote), button (its role buttons),      *)
(* request (/tcpromoterequests), decide (the Approve and Reject buttons), ask *)
(* (/tcdemote), demote (its Confirm button), transfer (/transferowner), auto  *)
(* (the auto-demotion at the entry of a ban, a kick or a mute), redemote (the *)
(* one right before its fan-out).                                            *)
(***************************************************************************)
EXTENDS Naturals, FiniteSets

CONSTANTS
    Users,      \* user ids; the lowest owner row is the owner
    Founder,    \* cfg.owner_id, the initial owner
    Requests,   \* ids that promotion requests may get
    Handlers,   \* handler instances; each runs at most once
    Kinds,      \* which operations this instance may start
    MaxBusy,    \* bound: handlers in flight at the same time
    MaxFaults   \* bound: failing database calls and process crashes

ASSUME UserAssumption == Users \subseteq Nat /\ Founder \in Users
ASSUME RequestAssumption == Requests \subseteq Nat \ {0}
ASSUME BoundAssumption == MaxFaults \in Nat

VARIABLES
    owners,     \* user ids with a row in tc_owners
    admins,     \* user ids with a row in tc_admins
    sub,        \* tc_roles: the custom role of each user, or "none"
    status,     \* promotion_requests: status of each request; free: no row yet
    about,      \* promotion_requests: target_id
    prompts,    \* buttons in chats, <<role or "demote", user>>; the edit that
                \* removes one may fail, so a posted button stays tappable
    faults,     \* database failures and crashes still to happen
    boot,       \* up, or the step of ensure_initial_owner
    kind, pc,   \* per handler: operation and control point
    who, tgt,   \* per handler: executor and target
    want,       \* per handler: the role to assign, or the verdict
    by,         \* per handler: the executor's role as it was read
    seen,       \* per handler: the target's role as it was read
    req,        \* per handler: the request decided on; 0 for none
    dels,       \* per handler: deletes of Demote.remove_role still running
    hit,        \* per handler: some delete removed a row
    broken,     \* per handler: some delete raised
    outcome,    \* per handler: what it told its operator
    regrant,    \* history: its target got a role while it ran
    made,       \* history: users that were ever written to tc_admins
    raced,      \* history: two set_owner calls overlapped
    overlap     \* history: two handlers overlapped

stores == <<owners, admins, sub, status, about>>
world == <<faults, boot>>
control == <<kind, who, tgt, want, req>>
removal == <<dels, hit, broken>>
history == <<regrant, made, raced, overlap>>
vars == <<stores, prompts, world, control, pc, by, seen, removal, outcome, history>>

SubRoles == {"tester", "developer"}
RoleNames == {"none", "founder", "admin"} \cup SubRoles
AllKinds == {"promote", "button", "request", "decide", "ask", "demote", "transfer", "auto", "redemote"}
Prompts == (SubRoles \cup {"admin", "demote"}) \X Users
Points == {"idle", "done", "pro_role", "pro_admin", "pro_clean", "pro_sub",
           "req_check", "req_read", "req_insert",
           "dec_read", "dec_add", "dec_approve", "dec_clean", "dec_reject",
           "dem_role", "removing", "auto_reread",
           "own_check", "own_replace", "own_delete", "own_keep"}
Outcomes == {"none", "refused", "failed", "prompted", "promoted", "submitted", "approved", "rejected",
             "demoted", "proceed", "aborted", "redemoted", "enforced", "transferred", "transferred_warned", "died"}

Busy == {h \in Handlers : pc[h] \notin {"idle", "done"}}

(***************************************************************************)
(* Role resolution                                                          *)
(***************************************************************************)
\* ROLE_RANK and role_rank.
role_rank(r) == CASE r = "founder" -> 4 [] r = "admin" -> 3 [] r = "developer" -> 2
                  [] r = "tester" -> 1 [] OTHER -> 0

\* get_owner_id: the lowest row of tc_owners.
Lowest(u, rows) == u \in rows /\ \A v \in rows : u <= v
is_owner(u) == Lowest(u, owners)

\* get_effective_role: owner before Admin before the custom role.
get_effective_role(u) ==
    IF is_owner(u) THEN "founder" ELSE IF u \in admins THEN "admin" ELSE sub[u]

\* classify: what the target is to the executor (bots and Telegram's own
\* accounts, refused everywhere, are left out).
classify(e, x) == IF e = x THEN "self" ELSE get_effective_role(x)

\* _REFUSE_KEYS and refuse_message.
refuse_message(action, k) ==
    k \in CASE action = "promote" -> {"self", "founder", "admin"}
            [] action = "transfer" -> {"self"}
            [] OTHER -> {"self", "founder"}

\* available_roles_for.
available_roles_for(r) == (IF r = "founder" THEN {"admin"} ELSE {}) \cup SubRoles

\* get_request: the pending request of a user.
PendingOf(u) == {r \in Requests : status[r] = "pending" /\ about[r] = u}

(***************************************************************************)
(* Calls that may fail, and how a handler moves on                          *)
(***************************************************************************)
Fault == faults > 0 /\ faults' = faults - 1 /\ boot' = boot
Works == UNCHANGED world

Goto(h, l) == pc' = [pc EXCEPT ![h] = l] /\ outcome' = outcome
End(h, o) == pc' = [pc EXCEPT ![h] = "done"] /\ outcome' = [outcome EXCEPT ![h] = o]

\* Every handler that is working on u learns, as history, that u got a role.
Granted(u) == regrant' = [h \in Handlers |-> regrant[h] \/ (h \in Busy /\ tgt[h] = u)]

\* The same for whoever a write of tc_owners makes the owner: the one it names or
\* the holder of a left-over row.
Crowned ==
    regrant' = [h \in Handlers |-> regrant[h] \/ (h \in Busy /\ ~is_owner(tgt[h]) /\ Lowest(tgt[h], owners'))]

\* add_admin: an upsert, a no-op when the row exists.
add_admin(u) ==
    /\ admins' = admins \cup {u} /\ made' = made \cup {u} /\ Granted(u)
    /\ UNCHANGED <<owners, sub, status, about, raced, overlap>>

\* remove_role: the custom role row goes.
remove_role(u) ==
    sub' = [sub EXCEPT ![u] = "none"] /\ UNCHANGED <<owners, admins, status, about, history>>

\* set_role: an upsert that replaces the custom role.
set_role(u, r) ==
    /\ sub' = [sub EXCEPT ![u] = r] /\ Granted(u)
    /\ UNCHANGED <<owners, admins, status, about, made, raced, overlap>>

\* Mutation: the update does not filter on status = pending.
resolve_Unfiltered(h, s) ==
    /\ status' = [status EXCEPT ![req[h]] = s]
    /\ UNCHANGED <<owners, admins, sub, about, history>>
    /\ IF s = "approved" THEN Goto(h, "dec_clean") ELSE End(h, s)

\* resolve: one conditional update; only the first decision matches, and only
\* the winner shows a verdict.
resolve(h, s) ==
    /\ status' = IF status[req[h]] = "pending" THEN [status EXCEPT ![req[h]] = s] ELSE status
    /\ UNCHANGED <<owners, admins, sub, about, history>>
    /\ IF status[req[h]] = "pending"
       THEN IF s = "approved" THEN Goto(h, "dec_clean") ELSE End(h, s)
       ELSE End(h, "failed")

(***************************************************************************)
(* Initial states: one owner, or the two rows an earlier version's crash    *)
(* could leave; any other roles, never two rows for one user; a request that *)
(* a role-less user made earlier; no buttons, or all of them, from before.  *)
(* Developers appear by promotion.                                          *)
(***************************************************************************)
Init ==
    /\ owners \in {{Founder}} \cup {{Founder, u} : u \in Users}
    /\ admins \in SUBSET (Users \ {Founder})
    /\ sub \in {f \in [Users -> {"none", "tester"}] :
                  \A u \in owners \cup admins : f[u] = "none"}
    /\ admins \cap owners = {}
    /\ status \in [Requests -> {"free", "pending"}]
    /\ about \in [Requests -> Users]
    /\ \A r \in Requests :
         IF status[r] = "free" THEN about[r] = Founder
         ELSE get_effective_role(about[r]) = "none" /\ \A s \in Requests : r <= s
    /\ prompts \in {{}, Prompts}
    /\ faults = MaxFaults /\ boot = "up"
    /\ kind = [h \in Handlers |-> "promote"] /\ pc = [h \in Handlers |-> "idle"]
    /\ who = [h \in Handlers |-> Founder] /\ tgt = [h \in Handlers |-> Founder]
    /\ want = [h \in Handlers |-> "none"] /\ by = [h \in Handlers |-> "none"]
    /\ seen = [h \in Handlers |-> "none"] /\ req = [h \in Handlers |-> 0]
    /\ dels = [h \in Handlers |-> {}] /\ hit = [h \in Handlers |-> FALSE]
    /\ broken = [h \in Handlers |-> FALSE] /\ outcome = [h \in Handlers |-> "none"]
    /\ regrant = [h \in Handlers |-> FALSE] /\ made = admins
    /\ raced = FALSE /\ overlap = FALSE

(***************************************************************************)
(* Dispatch: the update's handler starts and its decorator reads the        *)
(* executor's role (staff_only, owner_only, _check_callback_staff).         *)
(***************************************************************************)
Start(h, k, e, x, w, l) ==
    /\ k \in Kinds /\ boot = "up"
    /\ pc[h] = "idle" /\ Cardinality(Busy) < MaxBusy
    /\ kind' = [kind EXCEPT ![h] = k] /\ pc' = [pc EXCEPT ![h] = l]
    /\ who' = [who EXCEPT ![h] = e] /\ tgt' = [tgt EXCEPT ![h] = x]
    /\ want' = [want EXCEPT ![h] = w]
    /\ by' = [by EXCEPT ![h] = get_effective_role(e)]
    /\ overlap' = (overlap \/ Busy # {})
    /\ UNCHANGED <<stores, prompts, world, seen, removal, outcome, regrant, made, raced>>

\* staff_only: rank of an Admin or above.
staff_only(e) == role_rank(get_effective_role(e)) >= role_rank("admin")

\* The same for a button: whoever taps it is checked again.
_check_callback_staff(e) == get_effective_role(e) \in {"founder", "admin"}

\* /tcpromote with a role, or without one ("none"): then it offers a choice.
cmd_promote(h, e, x, r) ==
    /\ staff_only(e)
    /\ Start(h, "promote", e, x, r, "pro_role") /\ req' = req

\* The role button; nothing compares the tapper with the target.
on_promote_role_btn(h, e, x, r) ==
    /\ <<r, x>> \in prompts /\ _check_callback_staff(e)
    /\ Start(h, "button", e, x, r, "pro_role") /\ req' = req

cmd_promote_request(h, e) ==
    Start(h, "request", e, e, "admin", "req_check") /\ req' = req

\* A tap on the card of request r.  Anyone who sees the card may tap.
on_promo_decision(h, e, r, verdict) ==
    /\ status[r] # "free"
    /\ Start(h, "decide", e, about[r], verdict, "dec_read")
    /\ req' = [req EXCEPT ![h] = r]

\* /tcdemote shows a prompt; its Confirm button acts.
cmd_demote(h, e, x) ==
    /\ staff_only(e)
    /\ Start(h, "ask", e, x, "none", "dem_role") /\ req' = req

on_demote_confirm(h, e, x) ==
    /\ <<"demote", x>> \in prompts /\ _check_callback_staff(e)
    /\ Start(h, "demote", e, x, "none", "dem_role") /\ req' = req

\* owner_only admits the owner alone.
cmd_transfer(h, e, x) ==
    /\ is_owner(e) /\ ~refuse_message("transfer", classify(e, x))
    /\ Start(h, "transfer", e, x, "founder", "own_check") /\ req' = req

\* A moderation entry found a lower-ranked role holder and demotes it first.
StartAuto(h, e, x) ==
    /\ ~refuse_message("ban", classify(e, x)) /\ get_effective_role(x) # "none"
    /\ role_rank(get_effective_role(e)) > role_rank(get_effective_role(x))
    /\ Start(h, "auto", e, x, get_effective_role(x), "dem_role") /\ req' = req

\* A ban, kick or mute that was let through earlier reaches its fan-out.
StartRedemote(h, e, x) ==
    /\ e # x
    /\ Start(h, "redemote", e, x, "none", "dem_role") /\ req' = req

\* _classify_and_load_role and the refusal that follows it, in both commands.
_classify_and_load_role(h) ==
    \/ kind[h] = "promote" /\ refuse_message("promote", classify(who[h], tgt[h]))
    \/ kind[h] = "ask" /\ refuse_message("demote", classify(who[h], tgt[h]))

(***************************************************************************)
(* Promotion: Promote.execute                                               *)
(***************************************************************************)
\* /tcpromote without a role: the buttons the executor's role allows.
OfferRoles(h) ==
    /\ pc[h] = "pro_role" /\ want[h] = "none"
    /\ \/ Works /\ _classify_and_load_role(h) /\ End(h, "refused") /\ prompts' = prompts
       \/ /\ Works /\ ~_classify_and_load_role(h) /\ End(h, "prompted")
          /\ prompts' = prompts \cup (available_roles_for(by[h]) \X {tgt[h]})
       \/ Fault /\ End(h, "refused") /\ prompts' = prompts
    /\ UNCHANGED <<stores, control, by, seen, removal, history>>

\* The target's role is read; founders and equal or higher roles are refused.
PromoteRole(h) ==
    LET cur == get_effective_role(tgt[h]) IN
    /\ pc[h] = "pro_role" /\ want[h] # "none"
    /\ \/ /\ Works /\ seen' = [seen EXCEPT ![h] = cur]
          /\ IF _classify_and_load_role(h) \/ cur = "founder" \/ role_rank(cur) >= role_rank(want[h]) THEN End(h, "refused")
             ELSE Goto(h, IF want[h] # "admin" THEN "pro_sub"
                          ELSE IF by[h] = "founder" THEN "pro_admin" ELSE "req_read")
       \/ Fault /\ seen' = seen /\ End(h, "refused")
    /\ UNCHANGED <<stores, control, by, removal, history>>

\* _assign_admin, first write.
AssignAdmin(h) ==
    /\ pc[h] = "pro_admin"
    /\ \/ Works /\ add_admin(tgt[h]) /\ Goto(h, "pro_clean")
       \/ Fault /\ UNCHANGED <<stores, history>> /\ End(h, "failed")
    /\ UNCHANGED <<control, by, seen, removal>>

\* Mutation: the old custom role is left beside the Admin row.
AssignCleanup_Skipped(h) ==
    /\ pc[h] = "pro_clean" /\ Works /\ End(h, "promoted")
    /\ UNCHANGED <<stores, history, control, by, seen, removal>>

\* _assign_admin, cleanup: only if the role read earlier was a custom one; a
\* failure is logged.
AssignCleanup(h) ==
    /\ pc[h] = "pro_clean" /\ End(h, "promoted")
    /\ \/ seen[h] \in SubRoles /\ Works /\ remove_role(tgt[h])
       \/ seen[h] \notin SubRoles /\ Works /\ UNCHANGED <<stores, history>>
       \/ seen[h] \in SubRoles /\ Fault /\ UNCHANGED <<stores, history>>
    /\ UNCHANGED <<control, by, seen, removal>>

\* _assign_subrole.
AssignSubrole(h) ==
    /\ pc[h] = "pro_sub"
    /\ \/ Works /\ set_role(tgt[h], want[h]) /\ End(h, "promoted")
       \/ Fault /\ UNCHANGED <<stores, history>> /\ End(h, "failed")
    /\ UNCHANGED <<control, by, seen, removal>>

(***************************************************************************)
(* Requests                                                                 *)
(***************************************************************************)
\* cmd_promote_request: role and pending request are read; both lookups fail
\* closed.
RequestCheck(h) ==
    /\ pc[h] = "req_check"
    /\ \/ /\ Works
          /\ IF get_effective_role(tgt[h]) = "none" /\ PendingOf(tgt[h]) = {}
             THEN Goto(h, "req_read") ELSE End(h, "refused")
       \/ Fault /\ End(h, "refused")
    /\ UNCHANGED <<stores, control, by, seen, removal, history>>

\* request_admin, pre-check: a failed read relies on the unique index.
RequestRead(h) ==
    /\ pc[h] = "req_read"
    /\ \/ Works /\ IF PendingOf(tgt[h]) # {} THEN End(h, "refused") ELSE Goto(h, "req_insert")
       \/ Fault /\ Goto(h, "req_insert")
    /\ UNCHANGED <<stores, control, by, seen, removal, history>>

\* enqueue: the partial unique index rejects a second pending request; a fresh
\* request_id otherwise (the retry makes an id collision invisible).
enqueue(h) ==
    /\ pc[h] = "req_insert"
    /\ \/ /\ Works /\ PendingOf(tgt[h]) = {}
          /\ \E r \in Requests :
               /\ status[r] = "free" /\ \A s \in Requests : s < r => status[s] # "free"
               /\ status' = [status EXCEPT ![r] = "pending"]
               /\ about' = [about EXCEPT ![r] = tgt[h]]
          /\ End(h, "submitted") /\ UNCHANGED <<owners, admins, sub>>
       \/ Works /\ PendingOf(tgt[h]) # {} /\ End(h, "refused") /\ UNCHANGED stores
       \/ Fault /\ End(h, "failed") /\ UNCHANGED stores
    /\ UNCHANGED <<control, by, seen, removal, history>>

(***************************************************************************)
(* Decisions                                                                *)
(***************************************************************************)
\* Owner check and request read are gathered.
DecisionRead(h) ==
    /\ pc[h] = "dec_read"
    /\ \/ /\ Works
          /\ IF is_owner(who[h]) /\ status[req[h]] = "pending"
             THEN Goto(h, IF want[h] = "approved" THEN "dec_add" ELSE "dec_reject")
             ELSE End(h, "refused")
       \/ Fault /\ End(h, "refused")
    /\ UNCHANGED <<stores, control, by, seen, removal, history>>

DecisionAdd(h) ==
    /\ pc[h] = "dec_add"
    /\ \/ Works /\ add_admin(tgt[h]) /\ Goto(h, "dec_approve")
       \/ Fault /\ UNCHANGED <<stores, history>> /\ End(h, "failed")
    /\ UNCHANGED <<control, by, seen, removal>>

DecisionResolve(h) ==
    /\ \/ pc[h] = "dec_approve" /\ Works /\ resolve(h, "approved")
       \/ pc[h] = "dec_reject" /\ Works /\ resolve(h, "rejected")
       \/ /\ pc[h] \in {"dec_approve", "dec_reject"} /\ Fault /\ End(h, "failed")
          /\ UNCHANGED <<stores, history>>
    /\ UNCHANGED <<control, by, seen, removal>>

\* The custom role row is cleaned up best-effort; the card shows the approval.
DecisionCleanup(h) ==
    /\ pc[h] = "dec_clean" /\ End(h, "approved")
    /\ \/ Works /\ remove_role(tgt[h])
       \/ Fault /\ UNCHANGED <<stores, history>>
    /\ UNCHANGED <<control, by, seen, removal>>

(***************************************************************************)
(* Demotion: Demote.remove_role and its callers                             *)
(***************************************************************************)
\* /tcdemote reads the target's role; Founders, role-less targets and, for
\* Admins, other Admins are refused, and then the Confirm button is posted.
DemotePrompt(h) ==
    LET cur == get_effective_role(tgt[h]) IN
    /\ pc[h] = "dem_role" /\ kind[h] = "ask"
    /\ \/ /\ Works
          /\ IF _classify_and_load_role(h) \/ cur = "none" \/ (cur = "admin" /\ by[h] # "founder")
             THEN End(h, "refused") /\ prompts' = prompts
             ELSE End(h, "prompted") /\ prompts' = prompts \cup {<<"demote", tgt[h]>>}
       \/ Fault /\ End(h, "refused") /\ prompts' = prompts
    /\ UNCHANGED <<stores, control, by, seen, removal, history>>

\* The role decides whether the removal starts, and its deletes with it.
Remove(h, cur) ==
    /\ Goto(h, "removing") /\ seen' = [seen EXCEPT ![h] = cur]
    /\ dels' = [dels EXCEPT ![h] = {"admins", "roles"}]

Stay(h, o) == End(h, o) /\ UNCHANGED <<seen, dels>>

\* on_demote_confirm reads the role again and refuses the same targets.  The
\* moderation entry passes the role it read itself.
DemoteRole(h) ==
    LET cur == get_effective_role(tgt[h]) IN
    /\ pc[h] = "dem_role"
    /\ \/ kind[h] = "auto" /\ Works /\ Remove(h, want[h])
       \/ /\ kind[h] = "demote" /\ Works
          /\ IF cur \in {"none", "founder"} \/ (cur = "admin" /\ by[h] # "founder")
             THEN Stay(h, "refused") ELSE Remove(h, cur)
       \/ kind[h] = "demote" /\ Fault /\ Stay(h, "refused")
    /\ UNCHANGED <<stores, control, by, hit, broken, history>>

\* redemote_before_fanout: whoever holds a role by now loses it; without one,
\* or when the lookup fails, enforcement goes on.
redemote_before_fanout(h) ==
    LET cur == get_effective_role(tgt[h]) IN
    /\ pc[h] = "dem_role" /\ kind[h] = "redemote"
    /\ \/ Works /\ IF cur = "none" THEN Stay(h, "enforced") ELSE Remove(h, cur)
       \/ Fault /\ Stay(h, "enforced")
    /\ UNCHANGED <<stores, control, by, hit, broken, history>>

\* Mutation: only the collection of the role that was read is cleared.
DeleteRow_OnlySeen(h, c) ==
    /\ c \in dels[h] /\ Works
    /\ dels' = [dels EXCEPT ![h] = @ \ {c}]
    /\ hit' = [hit EXCEPT ![h] = TRUE]
    /\ admins' = IF c = "admins" /\ seen[h] = "admin" THEN admins \ {tgt[h]} ELSE admins
    /\ sub' = IF c = "roles" /\ seen[h] # "admin" THEN [sub EXCEPT ![tgt[h]] = "none"] ELSE sub
    /\ broken' = broken
    /\ UNCHANGED <<owners, status, about, control, pc, by, seen, outcome, history>>

\* remove_admin and remove_role run side by side; when one raises, gather
\* returns and the other keeps running.
DeleteRow(h, c) ==
    /\ c \in dels[h]
    /\ dels' = [dels EXCEPT ![h] = @ \ {c}]
    /\ \/ /\ Works /\ broken' = broken
          /\ \/ /\ c = "admins" /\ admins' = admins \ {tgt[h]} /\ sub' = sub
                /\ hit' = [hit EXCEPT ![h] = @ \/ tgt[h] \in admins]
             \/ /\ c = "roles" /\ sub' = [sub EXCEPT ![tgt[h]] = "none"] /\ admins' = admins
                /\ hit' = [hit EXCEPT ![h] = @ \/ sub[tgt[h]] # "none"]
       \/ Fault /\ broken' = [broken EXCEPT ![h] = TRUE] /\ UNCHANGED <<admins, sub, hit>>
    /\ UNCHANGED <<owners, status, about, control, pc, by, seen, outcome, history>>

\* What each caller does with the result: the moderation entry needs a removed
\* row or a second look, the others report or go on.
Removed(h) ==
    LET done == hit[h] /\ ~broken[h] IN
    /\ pc[h] = "removing" /\ (dels[h] = {} \/ broken[h]) /\ Works
    /\ \/ kind[h] = "demote" /\ End(h, IF done THEN "demoted" ELSE "failed")
       \/ kind[h] = "redemote" /\ End(h, IF done THEN "redemoted" ELSE "enforced")
       \/ kind[h] = "auto" /\ IF done THEN End(h, "proceed") ELSE Goto(h, "auto_reread")
    /\ UNCHANGED <<stores, control, by, seen, removal, history>>

\* auto_demote_or_abort: nothing was removed, so the live role decides; an
\* unreadable one counts as the role that was read at the entry.
AutoReread(h) ==
    /\ pc[h] = "auto_reread"
    /\ \/ /\ Works
          /\ End(h, IF get_effective_role(tgt[h]) \in SubRoles \cup {"admin"} THEN "aborted" ELSE "proceed")
       \/ Fault /\ End(h, "aborted")
    /\ UNCHANGED <<stores, control, by, seen, removal, history>>

(***************************************************************************)
(* Ownership transfer: cmd_transfer and set_owner                           *)
(***************************************************************************)
\* resolve_and_check(min_role = developer): the executor must outrank the
\* target.  A role the target holds is removed first.
TransferCheck(h) ==
    LET e == get_effective_role(who[h])
        x == get_effective_role(tgt[h])
    IN
    /\ pc[h] = "own_check"
    /\ \/ /\ Works
          /\ IF role_rank(e) < role_rank("developer") \/ (x # "none" /\ role_rank(e) <= role_rank(x))
             THEN Stay(h, "refused")
             ELSE IF x = "none" THEN Goto(h, "own_replace") /\ UNCHANGED <<seen, dels>>
             ELSE Remove(h, x)
       \/ Fault /\ Stay(h, "refused")
    /\ UNCHANGED <<stores, control, by, hit, broken, history>>

\* Whatever became of the new owner's former role, set_owner follows.
TransferCleared(h) ==
    /\ pc[h] = "removing" /\ kind[h] = "transfer" /\ (dels[h] = {} \/ broken[h])
    /\ Works /\ Goto(h, "own_replace")
    /\ UNCHANGED <<stores, control, by, seen, removal, history>>

\* Mutation: the other rows are deleted before the new one is written.
TransferReplace_DeleteFirst(h) ==
    /\ pc[h] = "own_replace" /\ Works
    /\ owners' = owners \cap {tgt[h]} /\ Goto(h, "own_delete")
    /\ UNCHANGED <<admins, sub, status, about, history, control, by, seen, removal>>

\* set_owner, first write: the lowest row becomes the new owner's, or a row is
\* inserted; a second row of the same user violates the unique index.
TransferReplace(h) ==
    /\ pc[h] = "own_replace"
    /\ LET low == {u \in owners : is_owner(u)} IN
       \/ /\ Works /\ tgt[h] \notin owners \ low
          /\ owners' = (owners \ low) \cup {tgt[h]}
          /\ raced' = (raced \/ \E g \in Handlers : pc[g] = "own_delete")
          /\ Crowned /\ Goto(h, "own_delete")
       \/ /\ Works /\ tgt[h] \in owners \ low /\ End(h, "failed")
          /\ UNCHANGED <<owners, raced, regrant>>
       \/ Fault /\ UNCHANGED <<owners, raced, regrant>> /\ End(h, "failed")
    /\ UNCHANGED <<admins, sub, status, about, control, by, seen, removal, made, overlap>>

\* set_owner, second write: every other row goes.  It is tried three times.
TransferDelete(h) ==
    /\ pc[h] = "own_delete"
    /\ \/ Works /\ owners' = owners \cap {tgt[h]} /\ Crowned /\ Goto(h, "own_keep")
       \/ Fault /\ UNCHANGED <<owners, regrant>> /\ End(h, "failed")
    /\ UNCHANGED <<admins, sub, status, about, made, raced, overlap, control, by, seen, removal>>

\* The previous founder stays on as Admin; a failure is shown in the reply.
TransferKeep(h) ==
    /\ pc[h] = "own_keep"
    /\ \/ Works /\ add_admin(who[h]) /\ End(h, "transferred")
       \/ Fault /\ UNCHANGED <<stores, history>> /\ End(h, "transferred_warned")
    /\ UNCHANGED <<control, by, seen, removal>>

(***************************************************************************)
(* A crash ends every handler and every background delete; on restart       *)
(* ensure_initial_owner counts the owner rows and inserts one if needed.    *)
(***************************************************************************)
Crash ==
    /\ faults > 0 /\ faults' = faults - 1 /\ boot' = "count"
    /\ pc' = [h \in Handlers |-> IF h \in Busy THEN "done" ELSE pc[h]]
    /\ outcome' = [h \in Handlers |-> IF h \in Busy THEN "died" ELSE outcome[h]]
    /\ dels' = [h \in Handlers |-> {}]
    /\ UNCHANGED <<stores, prompts, control, by, seen, hit, broken, history>>

ensure_initial_owner ==
    /\ \/ boot = "count" /\ owners' = owners /\ boot' = IF owners # {} THEN "up" ELSE "insert"
       \/ boot = "insert" /\ owners' = owners \cup {Founder} /\ boot' = "up"
    /\ UNCHANGED <<admins, sub, status, about, prompts, faults, control, pc, by, seen, removal,
                   outcome, history>>

Work(h) ==
    \/ PromoteRole(h) \/ AssignAdmin(h) \/ AssignCleanup(h) \/ AssignSubrole(h)
    \/ RequestCheck(h) \/ RequestRead(h) \/ enqueue(h)
    \/ DecisionRead(h) \/ DecisionAdd(h) \/ DecisionResolve(h) \/ DecisionCleanup(h)
    \/ DemoteRole(h) \/ redemote_before_fanout(h)
    \/ (\E c \in {"admins", "roles"} : DeleteRow(h, c)) \/ Removed(h) \/ AutoReread(h)
    \/ TransferCheck(h) \/ TransferCleared(h) \/ TransferReplace(h) \/ TransferDelete(h) \/ TransferKeep(h)

\* Only the two commands that post buttons change prompts.
Step(h) == OfferRoles(h) \/ DemotePrompt(h) \/ (Work(h) /\ UNCHANGED prompts)

Dispatch(h) ==
    \E e \in Users :
        \/ \E x \in Users, r \in SubRoles \cup {"admin", "none"} : cmd_promote(h, e, x, r)
        \/ \E x \in Users, r \in SubRoles \cup {"admin"} : on_promote_role_btn(h, e, x, r)
        \/ cmd_promote_request(h, e)
        \/ \E r \in Requests, v \in {"approved", "rejected"} : on_promo_decision(h, e, r, v)
        \/ \E x \in Users : cmd_demote(h, e, x)
        \/ \E x \in Users : on_demote_confirm(h, e, x)
        \/ \E x \in Users : cmd_transfer(h, e, x)
        \/ \E x \in Users : StartAuto(h, e, x)
        \/ \E x \in Users : StartRedemote(h, e, x)

\* Nothing is left to run.
Terminated == Busy = {} /\ boot = "up" /\ UNCHANGED vars

Next == (\E h \in Handlers : Dispatch(h) \/ Step(h)) \/ Crash \/ ensure_initial_owner \/ Terminated

Spec == Init /\ [][Next]_vars

(***************************************************************************)
(* Properties                                                               *)
(***************************************************************************)
TypeOK ==
    /\ owners \subseteq Users /\ admins \subseteq Users
    /\ sub \in [Users -> {"none"} \cup SubRoles]
    /\ status \in [Requests -> {"free", "pending", "approved", "rejected"}]
    /\ about \in [Requests -> Users] /\ prompts \subseteq Prompts
    /\ faults \in 0..MaxFaults
    /\ boot \in {"up", "count", "insert"}
    /\ kind \in [Handlers -> AllKinds] /\ pc \in [Handlers -> Points]
    /\ who \in [Handlers -> Users] /\ tgt \in [Handlers -> Users]
    /\ want \in [Handlers -> RoleNames \cup {"approved", "rejected"}]
    /\ by \in [Handlers -> RoleNames] /\ seen \in [Handlers -> RoleNames]
    /\ req \in [Handlers -> Requests \cup {0}]
    /\ dels \in [Handlers -> SUBSET {"admins", "roles"}]
    /\ hit \in [Handlers -> BOOLEAN] /\ broken \in [Handlers -> BOOLEAN]
    /\ outcome \in [Handlers -> Outcomes]
    /\ regrant \in [Handlers -> BOOLEAN] /\ made \subseteq Users
    /\ raced \in BOOLEAN /\ overlap \in BOOLEAN

\* The federation loses its last owner row only when two set_owner calls
\* overlap (users_roles.set_owner): no crash, failed delete, legacy second row
\* or other handler can do it.
OwnerNeverVanishes == owners = {} => raced

\* The stored verdict of each request, the verdicts its cards showed, and the
\* requests whose target was written to tc_admins.
Verdicts == {"approved", "rejected"}
Chosen == [r \in Requests |-> IF status[r] \in Verdicts THEN status[r] ELSE "open"]
Shown == [r \in Requests |-> {outcome[h] : h \in {g \in Handlers : req[g] = r}} \cap Verdicts]
Earned == {r \in Requests : status[r] # "free" /\ about[r] \in made}

Queue == INSTANCE Decision WITH
    Items <- Requests, Yes <- "approved", Open <- "open",
    chosen <- Chosen, shown <- Shown, earned <- Earned

\* The queue implements Decision: however taps on one request race, fail or
\* crash, its verdict is final and no card shows another, so two taps never both
\* succeed; and an approval is stored only after the Admin row, so a failure in
\* between leaves the request pending (on_promo_decision, queues_db.resolve).
QueueDecides == Queue!Spec

\* A demotion that is reported done, and an auto-demotion that lets a ban, kick
\* or mute proceed, leaves the target with no row in either collection, unless
\* a role was granted meanwhile (Demote.remove_role, auto_demote_or_abort,
\* redemote_before_fanout).
DemotionIsComplete ==
    [][\A h \in Handlers :
         (outcome[h] = "none" /\ outcome'[h] \in {"demoted", "proceed", "redemoted"} /\ ~regrant[h])
         => tgt[h] \notin admins' /\ sub'[tgt[h]] = "none"]_vars

\* auto_demote_or_abort re-reads the live role "so a banned/muted/kicked user
\* never keeps a federation role": what it lets through by that read holds none.
RereadFindsNoRole ==
    [][\A h \in Handlers : pc[h] = "auto_reread" /\ outcome'[h] = "proceed"
                           => get_effective_role(tgt[h]) = "none"]_vars

\* Without overlap, failure or crash nobody holds an Admin row and a custom
\* role row at once: such a row would come back to life at the next demotion
\* (_assign_admin, on_promo_decision).
NoHiddenRole ==
    (~overlap /\ Busy = {} /\ faults = MaxFaults)
    => \A u \in admins : sub[u] = "none"

\* on_promo_decision says "the atomic resolve decides a race": a rejected
\* request would then give its target no Admin row.
RejectionGrantsNothing ==
    \A h \in Handlers :
        (outcome[h] = "rejected" /\ \A g \in Handlers \ {h} : kind[g] = "decide")
        => tgt[h] \notin made
=============================================================================
