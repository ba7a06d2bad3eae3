---------------------------- MODULE ProofSession ----------------------------
(***************************************************************************)
(* Proof collection for /tcban: one moderator in one chat, so one           *)
(* user_data dictionary, one conversation and one key of _proof_sessions.   *)
(*                                                                         *)
(* Media are buffered in a session.  A Done tap or the session's background *)
(* flush task (silence window or hard cap) executes it; a Cancel tap or any *)
(* command cancels it.  Updates run concurrently, and the conversation      *)
(* state is written only when a callback returns, so every callback with an *)
(* await spans several steps here.                                          *)
(***************************************************************************)
EXTENDS Naturals, FiniteSets

CONSTANTS
    Updates,      \* updates the moderator can send; each is handled once
    MaxSessions,  \* bound: proof sessions opened
    MaxMsgs,      \* bound: media in one session
    MaxTicks      \* silence windows that fit below _PROOF_COLLECT_MAX_S

ASSUME SessionAssumption ==
    MaxSessions \in Nat /\ MaxMsgs \in Nat \ {0} /\ MaxTicks \in Nat

VARIABLES
    conv,      \* ConversationHandler state: end, confirm or proof
    keys,      \* ban_target_id is in user_data
    registry,  \* the session under the key in _proof_sessions; 0 is none
    made,      \* sessions created so far
    msgs, fresh, ticks, flushing, cancelled,   \* fields of each session
    task,      \* its flush task: none, sleep, write, fan, done
    must,      \* cancel() was called on that task
    bound,     \* the session that task looked up last; 0 is None
    pos, own,  \* per update: control point and claimed session
    runs,      \* history: times each session reached _execute_ban
    issued,    \* history: sessions whose ban record was written
    denied     \* history: sessions whose operator read "No ban was issued"

session == <<made, msgs, fresh, ticks, flushing, cancelled>>
tasks == <<task, must, bound>>
history == <<runs, issued, denied>>
sessionVars == <<conv, keys, registry, session, tasks, pos, own, history>>

Sessions == 1..MaxSessions
TaskPoints == {"none", "sleep", "write", "fan", "done"}
UpdatePoints == {"idle", "entry", "prompt", "cont", "cont_demote", "nudge",
                 "done_answer", "done_write", "done_fan", "cancel", "close", "over"}

Move(u, p) == pos' = [pos EXCEPT ![u] = p]

SessionInit ==
    /\ conv = "end" /\ keys = FALSE /\ registry = 0 /\ made = 0
    /\ msgs = [s \in Sessions |-> 0] /\ ticks = [s \in Sessions |-> 0]
    /\ fresh = [s \in Sessions |-> FALSE]
    /\ flushing = [s \in Sessions |-> FALSE] /\ cancelled = [s \in Sessions |-> FALSE]
    /\ task = [s \in Sessions |-> "none"] /\ must = [s \in Sessions |-> FALSE]
    /\ bound = [s \in Sessions |-> 0]
    /\ pos = [u \in Updates |-> "idle"] /\ own = [u \in Updates |-> 0]
    /\ runs = [s \in Sessions |-> 0] /\ issued = {} /\ denied = {}

(***************************************************************************)
(* Routing: ban_conversation dispatches on the state stored when the update *)
(* arrives.                                                                 *)
(***************************************************************************)
Route(u, states, p) ==
    /\ pos[u] = "idle" /\ conv \in states /\ Move(u, p)
    /\ UNCHANGED <<conv, keys, registry, session, tasks, own, history>>

RouteEntry(u) == Route(u, {"end"}, "entry")
RouteContinue(u) == Route(u, {"confirm"}, "cont")
RouteCancel(u) == Route(u, {"confirm", "proof"}, "cancel")

(***************************************************************************)
(* cmd_ban_start: checks, then the ban keys, then the re-ban lookup, the    *)
(* demotion and the prompt.                                                 *)
(***************************************************************************)
EntryKeys(u) ==
    /\ pos[u] = "entry"
    /\ \/ keys' = TRUE /\ Move(u, "prompt")
       \/ keys' = keys /\ Move(u, "over")         \* no target, no reason, refused
    /\ UNCHANGED <<conv, registry, session, tasks, own, history>>

EntryPrompt(u) ==
    /\ pos[u] = "prompt" /\ Move(u, "over")
    /\ \/ conv' = "confirm" /\ keys' = keys       \* _ask_update_confirm
       \/ conv' = "proof" /\ keys' = keys         \* proof prompt shown
       \/ conv' = "end" /\ keys' = FALSE          \* lookup or prompt failed
       \/ conv' = "end" /\ keys' = keys           \* demotion failed
    /\ UNCHANGED <<registry, session, tasks, own, history>>

\* on_ban_update_continue: rank re-check, keys, demotion, prompt edit.
ContinueRead(u) ==
    /\ pos[u] = "cont"
    /\ \/ keys /\ keys' = keys /\ conv' = conv /\ Move(u, "cont_demote")
       \/ ~keys /\ keys' = keys /\ conv' = "end" /\ Move(u, "over")
       \/ keys' = FALSE /\ conv' = "end" /\ Move(u, "over")
    /\ UNCHANGED <<registry, session, tasks, own, history>>

ContinuePrompt(u) ==
    /\ pos[u] = "cont_demote" /\ Move(u, "over")
    /\ \/ conv' = "proof" /\ keys' = keys
       \/ conv' = "end" /\ keys' \in {keys, FALSE}
    /\ UNCHANGED <<registry, session, tasks, own, history>>

(***************************************************************************)
(* on_proof_received: no await, so one step.                                *)
(***************************************************************************)
\* Media joins a session that nobody has claimed.
MediaJoins == keys /\ registry # 0 /\ ~flushing[registry] /\ msgs[registry] < MaxMsgs

on_proof_received ==
    /\ conv = "proof"
    /\ \/ /\ ~keys \/ (registry # 0 /\ flushing[registry])
          /\ conv' = "end" /\ UNCHANGED <<registry, session, task>>
       \/ /\ keys /\ registry = 0 /\ made < MaxSessions
          /\ made' = made + 1 /\ registry' = made + 1
          /\ msgs' = [msgs EXCEPT ![made + 1] = 1]
          /\ task' = [task EXCEPT ![made + 1] = "sleep"]
          /\ UNCHANGED <<conv, fresh, ticks, flushing, cancelled>>
       \/ /\ MediaJoins
          /\ msgs' = [msgs EXCEPT ![registry] = @ + 1]
          /\ fresh' = [fresh EXCEPT ![registry] = TRUE]
          /\ UNCHANGED <<conv, registry, made, ticks, flushing, cancelled, task>>
    /\ UNCHANGED <<keys, must, bound, pos, own, history>>

\* on_proof_unexpected, and on_done_proof with nothing to flush: end a zombie,
\* otherwise nudge and return WAITING_PROOF once the reply is out.
Nudge(u) ==
    /\ pos[u] = "idle" /\ conv = "proof"
    /\ IF keys THEN Move(u, "nudge") /\ conv' = conv
               ELSE Move(u, "over") /\ conv' = "end"
    /\ UNCHANGED <<keys, registry, session, tasks, own, history>>

NudgeReturn(u) ==
    /\ pos[u] = "nudge" /\ Move(u, "over") /\ conv' = "proof"
    /\ UNCHANGED <<keys, registry, session, tasks, own, history>>

(***************************************************************************)
(* on_done_proof                                                            *)
(***************************************************************************)
\* flush_task.cancel(): delivered when the task next resumes.
CancelTask(s) == must' = [must EXCEPT ![s] = task[s] # "done"]

\* Mutation: the claim is not exclusive.
Claimable_Twice == registry # 0
\* session is None or session.flushing or not session.msgs.
Claimable == registry # 0 /\ ~flushing[registry]

\* Synchronous claim: the session stays registered with flushing set.
DoneClaim(u) ==
    /\ pos[u] = "idle" /\ conv = "proof" /\ Claimable
    /\ flushing' = [flushing EXCEPT ![registry] = TRUE]
    /\ CancelTask(registry)
    /\ own' = [own EXCEPT ![u] = registry] /\ Move(u, "done_answer")
    /\ UNCHANGED <<conv, keys, registry, made, msgs, fresh, ticks, cancelled, task, bound,
                   history>>

\* recheck_executor_rank; the refusal pops whatever the key holds.
DoneRecheck(u) ==
    /\ pos[u] = "done_answer"
    /\ \/ /\ Move(u, "done_write") /\ runs' = [runs EXCEPT ![own[u]] = @ + 1]
          /\ UNCHANGED <<conv, keys, registry>>
       \/ /\ Move(u, "over") /\ runs' = runs
          /\ registry' = 0 /\ keys' = FALSE /\ conv' = "end"
    /\ UNCHANGED <<session, tasks, own, issued, denied>>

\* _execute_ban: the record is written, or the handler gives up; then fan-out.
DoneWrite(u) ==
    /\ pos[u] = "done_write" /\ Move(u, "done_fan")
    /\ issued' \in {issued, issued \cup {own[u]}}
    /\ UNCHANGED <<conv, keys, registry, session, tasks, own, runs, denied>>

\* Mutation: no finally block at all.
Release_Never(s) == UNCHANGED <<registry, keys>>
\* The finally blocks: only the session's own entry is popped, and then the
\* ban keys go with it.
Release(s) ==
    IF s # 0 /\ registry = s THEN registry' = 0 /\ keys' = FALSE
                             ELSE UNCHANGED <<registry, keys>>

DoneEnd(u) ==
    /\ pos[u] = "done_fan" /\ Move(u, "over") /\ conv' = "end" /\ Release(own[u])
    /\ UNCHANGED <<session, tasks, own, history>>

(***************************************************************************)
(* on_cancel_proof and on_proof_timeout                                     *)
(***************************************************************************)
\* _cancel_proof_session
CancelSession ==
    /\ keys' = FALSE /\ registry' = 0
    /\ IF registry = 0 THEN UNCHANGED <<cancelled, must>>
       ELSE cancelled' = [cancelled EXCEPT ![registry] = TRUE] /\ CancelTask(registry)

\* "Cancelled. No ban was issued."
CancelRun(u) ==
    /\ pos[u] = "cancel" /\ Move(u, "close") /\ CancelSession
    /\ denied' = denied \cup ({registry} \ {0})
    /\ UNCHANGED <<conv, made, msgs, fresh, ticks, flushing, task, bound, own, runs, issued>>

\* Any command; "Timed out waiting for proof. No ban was issued." when the ban
\* keys were still there.
on_proof_timeout(u) ==
    /\ pos[u] = "idle" /\ conv \in {"confirm", "proof"} /\ Move(u, "close")
    /\ CancelSession
    /\ denied' = IF keys THEN denied \cup ({registry} \ {0}) ELSE denied
    /\ UNCHANGED <<conv, made, msgs, fresh, ticks, flushing, task, bound, own, runs, issued>>

Close(u) ==
    /\ pos[u] = "close" /\ Move(u, "over") /\ conv' = "end"
    /\ UNCHANGED <<keys, registry, session, tasks, own, history>>

(***************************************************************************)
(* _flush_session, the background task of session s.  It looks its session  *)
(* up by key after every sleep.                                             *)
(***************************************************************************)
\* A silence window without an arrival, or the hard cap.
Quiet(r) == ~fresh[r] \/ ticks[r] >= MaxTicks

FlushTick(s) ==
    /\ task[s] = "sleep" /\ ~must[s]
    /\ bound' = [bound EXCEPT ![s] = registry]
    /\ \/ /\ ~(Claimable /\ ~cancelled[registry])         \* return
          /\ task' = [task EXCEPT ![s] = "done"] /\ Release(registry)
          /\ UNCHANGED <<fresh, ticks, flushing, runs>>
       \/ /\ Claimable /\ ~cancelled[registry] /\ ~Quiet(registry)
          /\ fresh' = [fresh EXCEPT ![registry] = FALSE]
          /\ ticks' = [ticks EXCEPT ![registry] = @ + 1]
          /\ UNCHANGED <<keys, registry, flushing, task, runs>>
       \/ /\ Claimable /\ ~cancelled[registry] /\ Quiet(registry)
          /\ flushing' = [flushing EXCEPT ![registry] = TRUE]
          /\ task' = [task EXCEPT ![s] = "write"]
          /\ runs' = [runs EXCEPT ![registry] = @ + 1]
          /\ UNCHANGED <<keys, registry, fresh, ticks>>
    /\ UNCHANGED <<conv, made, msgs, cancelled, must, pos, own, issued, denied>>

FlushWrite(s) ==
    /\ task[s] = "write" /\ ~must[s]
    /\ task' = [task EXCEPT ![s] = "fan"]
    /\ issued' \in {issued, issued \cup {bound[s]}}
    /\ UNCHANGED <<conv, keys, registry, session, must, bound, pos, own, runs, denied>>

FlushEnd(s) ==
    /\ task[s] = "fan" /\ ~must[s]
    /\ task' = [task EXCEPT ![s] = "done"] /\ Release(bound[s])
    /\ UNCHANGED <<conv, session, must, bound, pos, own, history>>

\* CancelledError at the await the task sits in; a write already sent to the
\* database may have landed.
FlushCancelled(s) ==
    /\ must[s] /\ task[s] \in {"sleep", "write", "fan"}
    /\ task' = [task EXCEPT ![s] = "done"] /\ Release(bound[s])
    /\ issued' \in {issued} \cup (IF task[s] = "write" THEN {issued \cup {bound[s]}} ELSE {})
    /\ UNCHANGED <<conv, session, must, bound, pos, own, runs, denied>>

(***************************************************************************)
Update(u) ==
    \/ EntryKeys(u) \/ EntryPrompt(u) \/ ContinueRead(u) \/ ContinuePrompt(u)
    \/ NudgeReturn(u) \/ DoneRecheck(u) \/ DoneWrite(u) \/ DoneEnd(u)
    \/ CancelRun(u) \/ Close(u)

Arrive(u) ==
    \/ RouteEntry(u) \/ RouteContinue(u) \/ RouteCancel(u)
    \/ Nudge(u) \/ DoneClaim(u) \/ on_proof_timeout(u)

Flush(s) == FlushTick(s) \/ FlushWrite(s) \/ FlushEnd(s) \/ FlushCancelled(s)

SessionNext ==
    \/ \E u \in Updates : Arrive(u) \/ Update(u)
    \/ on_proof_received
    \/ \E s \in Sessions : Flush(s)

SessionSpec == SessionInit /\ [][SessionNext]_sessionVars

\* The event loop resumes every task and callback whose await has returned.
SessionFairSpec ==
    SessionSpec /\ (\A u \in Updates : WF_sessionVars(Update(u))) /\ (\A s \in Sessions : WF_sessionVars(Flush(s)))

(***************************************************************************)
(* Properties                                                               *)
(***************************************************************************)
\* The type invariant; with it, no session runs past the hard cap of
\* _PROOF_COLLECT_MAX_S and every registered session was created.
SessionTypeOK ==
    /\ conv \in {"end", "confirm", "proof"} /\ keys \in BOOLEAN
    /\ made \in 0..MaxSessions /\ registry \in 0..made
    /\ msgs \in [Sessions -> 0..MaxMsgs] /\ ticks \in [Sessions -> 0..MaxTicks]
    /\ fresh \in [Sessions -> BOOLEAN] /\ flushing \in [Sessions -> BOOLEAN]
    /\ cancelled \in [Sessions -> BOOLEAN] /\ must \in [Sessions -> BOOLEAN]
    /\ task \in [Sessions -> TaskPoints] /\ bound \in [Sessions -> 0..MaxSessions]
    /\ pos \in [Updates -> UpdatePoints] /\ own \in [Updates -> 0..MaxSessions]
    /\ runs \in [Sessions -> Nat] /\ issued \subseteq 0..MaxSessions
    /\ denied \subseteq Sessions

\* Updates that are executing session s.
Doers(s) == {u \in Updates : own[u] = s /\ pos[u] \in {"done_answer", "done_write", "done_fan"}}

\* A Done tap and the flush task never execute the same proof twice, however
\* taps, ticks, cancels and commands fall between the awaits.
ExecutedOnce == \A s \in Sessions : runs[s] <= 1

\* A registered session always has someone left to flush or drop it: its task
\* still runs, or a Done tap is executing it.
SessionHasOwner ==
    registry # 0 => task[registry] \in {"sleep", "write", "fan"} \/ Doers(registry) # {}

\* Collected proof never lingers: it is executed, cancelled or timed out.
SessionsResolve == \A s \in Sessions : (registry = s) ~> (registry # s)

\* What banning.md and the prompt say of Cancel: no ban is issued.
CancelIssuesNoBan == denied \cap issued = {}

\* What the finally blocks guard: an execution that ends never removes the
\* session of another one.
SuccessorSurvives ==
    [][\A u \in Updates : pos[u] \in {"done_answer", "done_fan"} /\ pos'[u] = "over"
                             => registry \in {0, own[u]} \/ registry' = registry]_sessionVars
=============================================================================
