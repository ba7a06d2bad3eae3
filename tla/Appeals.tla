------------------------------ MODULE Appeals ------------------------------
(***************************************************************************)
(* The appeal of one ban record, from the deep link to the verdict.         *)
(*                                                                         *)
(* The banned user talks to the bot in private (one conversation); staff    *)
(* tap Approve or Reject on the review card in the main group.  The only    *)
(* state they share is the ban document: is_active, the pending-review      *)
(* marker with its timestamp, and rejected_at.  Each handler reads it once  *)
(* and writes it later, one call per step, with other handlers in between.  *)
(*                                                                         *)
(* Time is kept as ages, in windows of the length the code compares: they   *)
(* grow together when no handler runs (a handler takes seconds, a window    *)
(* hours) and saturate at MaxAge.                                           *)
(***************************************************************************)
EXTENDS Naturals, FiniteSets

CONSTANTS
    Handlers,     \* handler instances; each runs at most once
    MaxCards,     \* bound: review cards posted
    MaxBusy,      \* bound: handlers in flight
    MaxFaults,    \* bound: failing database and Telegram calls
    LockWindow,   \* LOCK_HOURS, 12 h
    Cooldown,     \* _REJECTION_COOLDOWN_HOURS, 24 h
    StaleWindow,  \* _STALE_REVIEW_HOURS, 72 h
    MaxAge        \* where ages saturate

ASSUME WindowAssumption ==
    /\ {LockWindow, Cooldown, StaleWindow, MaxAge, MaxFaults, MaxCards} \subseteq Nat
    /\ LockWindow < Cooldown /\ Cooldown < StaleWindow /\ Cooldown <= MaxAge

VARIABLES
    active,                \* is_active of the ban
    review, reviewAge,     \* review_message_id (0 is None), review_timestamp
    rejected, rejectAge,   \* rejected_at is set, and its age
    card,                  \* what each posted card shows
    open,                  \* the user's conversation waits for the appeal
    keys,                  \* appeal_ban_id is in user_data
    faults,
    pc, mine, verdict,     \* per handler: control point, its card, the tap
    owner,                 \* per handler: the tapper is the banning admin
    cooling,               \* per handler: the cooldown it computed
    told,                  \* history: verdicts sent to the user, per card
    expired,               \* history: cards whose review was cleared as stale
    crossed                \* history: handlers that were deciding while a new review was claimed

ban == <<active, review, reviewAge, rejected, rejectAge>>
conv == <<open, keys>>
tap == <<mine, verdict, owner>>
notes == <<expired, crossed>>
vars == <<ban, card, conv, faults, pc, tap, cooling, told, notes>>

Cards == 1..MaxCards
Points == {"idle", "done", "start_read", "start_clear", "start_keys", "start_send", "abandon",
           "sub_read", "sub_clear", "sub_post", "sub_claim", "sub_delete", "sub_end",
           "dec_read", "dec_stale", "dec_card",
           "app_groups", "app_deact", "app_clear", "app_card",
           "rej_set", "rej_card", "rej_clear"}
\* Where a handler works on the card it posted or was tapped on.
CardPoints == {"sub_claim", "sub_delete", "dec_read", "dec_stale", "dec_card",
               "app_card", "rej_card", "rej_clear"}
\* Between the check of the lock and the write of the verdict.
Deciding == {"app_groups", "app_deact", "rej_set"}
Faces == {"none", "live", "approved", "rejected", "resolved", "deleted"}

Busy == {h \in Handlers : pc[h] \notin {"idle", "done"}}
Fault == faults > 0 /\ faults' = faults - 1
Works == faults' = faults
Goto(h, l) == pc' = [pc EXCEPT ![h] = l]
Done(h) == Goto(h, "done")

(***************************************************************************)
(* The gates and the writes of bans_db they guard.                          *)
(***************************************************************************)
\* Mutation: a review never goes stale.
is_stale_review_Never == FALSE
\* _is_stale_review
is_stale_review == reviewAge > StaleWindow

\* _cooldown_remaining_h is not None
in_cooldown == rejected /\ rejectAge < Cooldown

\* Mutation: the comparison is inverted.
reviewer_locked_out_Inverted(h) == ~owner[h] /\ reviewAge >= LockWindow
\* reviewer_locked_out
reviewer_locked_out(h) == ~owner[h] /\ reviewAge < LockWindow

clear_review == review' = 0 /\ reviewAge' = 0

\* The same, by a handler that read a review older than the stale window.
clear_stale == clear_review /\ expired' = expired \cup ({review} \ {0}) /\ crossed' = crossed

\* Mutation: the claim overwrites (set_review).
set_review_if_absent_Overwrites(c) == review' = c /\ reviewAge' = 0
\* set_review_if_absent, when its filter matches.
set_review_if_absent(c) == review = 0 /\ review' = c /\ reviewAge' = 0

Init ==
    /\ active = TRUE /\ review = 0 /\ reviewAge = 0 /\ rejected = FALSE /\ rejectAge = 0
    /\ card = [c \in Cards |-> "none"] /\ open = FALSE /\ keys = FALSE /\ faults = MaxFaults
    /\ pc = [h \in Handlers |-> "idle"] /\ mine = [h \in Handlers |-> 0]
    /\ verdict = [h \in Handlers |-> "none"] /\ owner = [h \in Handlers |-> FALSE]
    /\ cooling = [h \in Handlers |-> FALSE] /\ told = [c \in Cards |-> {}]
    /\ expired = {} /\ crossed = {}

(***************************************************************************)
(* Deep link: _on_entry and _start                                          *)
(***************************************************************************)
Arrive(h, l) == pc[h] = "idle" /\ Cardinality(Busy) < MaxBusy /\ Goto(h, l)

OpenLink(h) ==
    /\ Arrive(h, "start_read")
    /\ UNCHANGED <<ban, card, conv, faults, tap, cooling, told, notes>>

\* A callback returns: the conversation waits on, or ends.
Stay(h) == Done(h) /\ open' = TRUE
Finish(h) == Done(h) /\ open' = FALSE

\* One read of the ban, then its gates.  A refusal ends the conversation, an
\* open one too: the deep link is also a fallback of the waiting state.
StartRead(h) ==
    /\ pc[h] = "start_read"
    /\ cooling' = [cooling EXCEPT ![h] = in_cooldown]
    /\ \/ Fault /\ keys' = keys /\ Finish(h)
       \/ ~active /\ Works /\ keys' = keys /\ Finish(h)
       \/ active /\ review # 0 /\ is_stale_review /\ Works /\ UNCHANGED conv
                 /\ Goto(h, "start_clear")
       \/ active /\ review # 0 /\ ~is_stale_review /\ Works /\ keys' = keys /\ Finish(h)
       \/ active /\ review = 0 /\ in_cooldown /\ Works /\ keys' = keys /\ Finish(h)
       \/ active /\ review = 0 /\ ~in_cooldown /\ Works /\ UNCHANGED conv
                 /\ Goto(h, "start_keys")
    /\ UNCHANGED <<ban, card, tap, told, notes>>

StartClear(h) ==
    /\ pc[h] = "start_clear"
    /\ \/ Fault /\ keys' = keys /\ Finish(h) /\ UNCHANGED <<review, reviewAge, notes>>
       \/ clear_stale /\ cooling[h] /\ Works /\ keys' = keys /\ Finish(h)
       \/ clear_stale /\ ~cooling[h] /\ Works /\ UNCHANGED conv /\ Goto(h, "start_keys")
    /\ UNCHANGED <<active, rejected, rejectAge, card, tap, cooling, told>>

\* The database answered in the step before; the handler resumes later.
StartKeys(h) ==
    /\ pc[h] = "start_keys" /\ keys' = TRUE /\ Goto(h, "start_send")
    /\ UNCHANGED <<ban, card, open, faults, tap, cooling, told, notes>>

\* The instruction message is sent, or the keys are dropped again.
StartSend(h) ==
    /\ pc[h] = "start_send"
    /\ \/ Works /\ keys' = keys /\ Stay(h)
       \/ Fault /\ keys' = FALSE /\ Finish(h)
    /\ UNCHANGED <<ban, card, tap, cooling, told, notes>>

\* Cancel on the live prompt or any command drops the keys; Cancel on an older
\* prompt keeps them.  Both end the conversation when they return.
Cancel(h) ==
    /\ open /\ Arrive(h, "abandon") /\ keys' \in {keys, FALSE}
    /\ UNCHANGED <<ban, card, open, faults, tap, cooling, told, notes>>

Abandon(h) ==
    /\ pc[h] = "abandon" /\ Finish(h)
    /\ UNCHANGED <<ban, card, keys, faults, tap, cooling, told, notes>>

(***************************************************************************)
(* Submission: _on_message                                                  *)
(***************************************************************************)
Submit(h) ==
    /\ open /\ Arrive(h, "sub_read")
    /\ UNCHANGED <<ban, card, conv, faults, tap, cooling, told, notes>>

\* The gates of the deep link again, on a fresh read.  A text that is no appeal
\* or names another log message only gets a nudge.
SubRead(h) ==
    /\ pc[h] = "sub_read"
    /\ cooling' = [cooling EXCEPT ![h] = in_cooldown]
    /\ \/ Works /\ keys' = keys /\ Stay(h)
       \/ ~keys /\ Works /\ keys' = keys /\ Finish(h)
       \/ keys /\ Fault /\ keys' = FALSE /\ Finish(h)
       \/ keys /\ ~active /\ Works /\ keys' = FALSE /\ Finish(h)
       \/ keys /\ active /\ review # 0 /\ is_stale_review /\ Works /\ UNCHANGED conv
               /\ Goto(h, "sub_clear")
       \/ keys /\ active /\ review # 0 /\ ~is_stale_review /\ Works /\ keys' = FALSE /\ Finish(h)
       \/ keys /\ active /\ review = 0 /\ in_cooldown /\ Works /\ keys' = FALSE /\ Finish(h)
       \/ keys /\ active /\ review = 0 /\ ~in_cooldown /\ Works /\ UNCHANGED conv
               /\ Goto(h, "sub_post")
    /\ UNCHANGED <<ban, card, tap, told, notes>>

SubClear(h) ==
    /\ pc[h] = "sub_clear"
    /\ \/ Fault /\ UNCHANGED <<review, reviewAge, notes>> /\ keys' = FALSE /\ Finish(h)
       \/ Works /\ clear_stale /\ cooling[h] /\ keys' = FALSE /\ Finish(h)
       \/ Works /\ clear_stale /\ ~cooling[h] /\ keys' = keys /\ Stay(h)
       \/ Works /\ clear_stale /\ ~cooling[h] /\ UNCHANGED conv /\ Goto(h, "sub_post")
    /\ UNCHANGED <<active, rejected, rejectAge, card, tap, cooling, told>>

\* The review card goes out first; without it the conversation stays open.
SubPost(h) ==
    /\ pc[h] = "sub_post" /\ keys' = keys
    /\ \/ /\ Works /\ open' = open /\ Goto(h, "sub_claim")
          /\ \E c \in Cards :
                /\ card[c] = "none" /\ (\A d \in Cards : d < c => card[d] # "none")
                /\ card' = [card EXCEPT ![c] = "live"] /\ mine' = [mine EXCEPT ![h] = c]
       \/ Fault /\ UNCHANGED <<card, mine>> /\ Stay(h)
    /\ UNCHANGED <<ban, verdict, owner, cooling, told, notes>>

\* Then the marker is claimed; the loser takes its card down.
SubClaim(h) ==
    /\ pc[h] = "sub_claim"
    /\ \/ Works /\ set_review_if_absent(mine[h]) /\ Goto(h, "sub_end")
          /\ crossed' = crossed \cup {g \in Handlers : pc[g] \in Deciding}
       \/ Works /\ review # 0 /\ UNCHANGED <<review, reviewAge, crossed>> /\ Goto(h, "sub_delete")
       \/ Fault /\ UNCHANGED <<review, reviewAge, crossed>> /\ Goto(h, "sub_delete")
    /\ UNCHANGED <<active, rejected, rejectAge, card, conv, tap, cooling, told, expired>>

SubDelete(h) ==
    /\ pc[h] = "sub_delete" /\ Goto(h, "sub_end")
    /\ \/ Works /\ card' = [card EXCEPT ![mine[h]] = "deleted"]
       \/ Fault /\ card' = card
    /\ UNCHANGED <<ban, conv, tap, cooling, told, notes>>

\* Log reference, prompt edit and user cache, none of them fatal; then the end.
SubEnd(h) ==
    /\ pc[h] = "sub_end" /\ keys' = FALSE /\ Finish(h)
    /\ UNCHANGED <<ban, card, faults, tap, cooling, told, notes>>

(***************************************************************************)
(* Decision: on_decision, _approve_appeal, _reject_appeal                   *)
(***************************************************************************)
Tap(h, c, v) ==
    /\ Arrive(h, "dec_read") /\ card[c] = "live"
    /\ mine' = [mine EXCEPT ![h] = c] /\ verdict' = [verdict EXCEPT ![h] = v]
    /\ \E o \in BOOLEAN : owner' = [owner EXCEPT ![h] = o]
    /\ UNCHANGED <<ban, card, conv, faults, cooling, told, notes>>

\* Role and record are read together; every refusal leaves the card alone.
DecRead(h) ==
    /\ pc[h] = "dec_read"
    /\ \/ Fault /\ Done(h)
       \/ ~active /\ review # 0 /\ Works /\ Goto(h, "dec_stale")
       \/ ~active /\ review = 0 /\ Works /\ Done(h)
       \/ active /\ (rejected \/ review = 0) /\ Works /\ Done(h)
       \/ active /\ ~rejected /\ review # 0 /\ reviewer_locked_out(h) /\ Works /\ Done(h)
       \/ active /\ ~rejected /\ review # 0 /\ ~reviewer_locked_out(h) /\ Works
                 /\ Goto(h, IF verdict[h] = "approve" THEN "app_groups" ELSE "rej_set")
    /\ UNCHANGED <<ban, card, conv, tap, cooling, told, notes>>

\* Card left behind by a manual /tcunban: the marker goes, then the buttons.
DecStale(h) ==
    /\ pc[h] = "dec_stale" /\ Goto(h, "dec_card")
    /\ \/ Works /\ clear_review
       \/ Fault /\ UNCHANGED <<review, reviewAge>>
    /\ UNCHANGED <<active, rejected, rejectAge, card, conv, tap, cooling, told, notes>>

DecCard(h) ==
    /\ pc[h] = "dec_card" /\ Done(h)
    /\ \/ Works /\ card' = [card EXCEPT ![mine[h]] = "resolved"]
       \/ Fault /\ card' = card
    /\ UNCHANGED <<ban, conv, tap, cooling, told, notes>>

AppGroups(h) ==
    /\ pc[h] = "app_groups"
    /\ \/ Works /\ Goto(h, "app_deact")
       \/ Fault /\ Done(h)
    /\ UNCHANGED <<ban, card, conv, tap, cooling, told, notes>>

\* Mutation: a failed deactivation edits the card into a dead failure notice.
AppDeact_EditsCard(h) ==
    /\ pc[h] = "app_deact"
    /\ \/ Works /\ active' = FALSE /\ card' = card /\ Goto(h, "app_clear")
       \/ Fault /\ active' = active /\ card' = [card EXCEPT ![mine[h]] = "resolved"] /\ Done(h)
    /\ UNCHANGED <<review, reviewAge, rejected, rejectAge, conv, tap, cooling, told, notes>>

AppDeact(h) ==
    /\ pc[h] = "app_deact"
    /\ \/ Works /\ active' = FALSE /\ Goto(h, "app_clear")
       \/ Fault /\ active' = active /\ Done(h)
    /\ UNCHANGED <<review, reviewAge, rejected, rejectAge, card, conv, tap, cooling, told, notes>>

AppClear(h) ==
    /\ pc[h] = "app_clear" /\ Goto(h, "app_card")
    /\ \/ Works /\ clear_review
       \/ Fault /\ UNCHANGED <<review, reviewAge>>
    /\ UNCHANGED <<active, rejected, rejectAge, card, conv, tap, cooling, told, notes>>

\* After the fan-out: verdict card, message to the user, logs.
AppCard(h) ==
    /\ pc[h] = "app_card" /\ Done(h)
    /\ \/ Works /\ card' = [card EXCEPT ![mine[h]] = "approved"]
       \/ Fault /\ card' = card
    /\ told' = [told EXCEPT ![mine[h]] = @ \cup {"approve"}] /\ UNCHANGED notes
    /\ UNCHANGED <<ban, conv, tap, cooling>>

\* Mutation: the verdict is shown although rejected_at was not written.
RejSet_Unchecked(h) ==
    /\ pc[h] = "rej_set" /\ Goto(h, "rej_card")
    /\ \/ Works /\ rejected' = TRUE /\ rejectAge' = 0
       \/ Fault /\ UNCHANGED <<rejected, rejectAge>>
    /\ UNCHANGED <<active, review, reviewAge, card, conv, tap, cooling, told, notes>>

RejSet(h) ==
    /\ pc[h] = "rej_set"
    /\ \/ Works /\ rejected' = TRUE /\ rejectAge' = 0 /\ Goto(h, "rej_card")
       \/ Fault /\ UNCHANGED <<rejected, rejectAge>> /\ Done(h)
    /\ UNCHANGED <<active, review, reviewAge, card, conv, tap, cooling, told, notes>>

RejCard(h) ==
    /\ pc[h] = "rej_card" /\ Goto(h, "rej_clear")
    /\ \/ Works /\ card' = [card EXCEPT ![mine[h]] = "rejected"]
       \/ Fault /\ card' = card
    /\ UNCHANGED <<ban, conv, tap, cooling, told, notes>>

RejClear(h) ==
    /\ pc[h] = "rej_clear" /\ Done(h)
    /\ \/ Works /\ clear_review
       \/ Fault /\ UNCHANGED <<review, reviewAge>>
    /\ told' = [told EXCEPT ![mine[h]] = @ \cup {"reject"}] /\ UNCHANGED notes
    /\ UNCHANGED <<active, rejected, rejectAge, card, conv, tap, cooling>>

(***************************************************************************)
(* The world                                                                *)
(***************************************************************************)
\* /tcunban, or another record's approval: never touches the review fields.
ManualUnban ==
    /\ active /\ active' = FALSE
    /\ UNCHANGED <<review, reviewAge, rejected, rejectAge, card, conv, faults, pc, tap,
                   cooling, told, notes>>

Older(age, running) == IF running /\ age < MaxAge THEN age + 1 ELSE age
Tick ==
    /\ Busy = {}
    /\ reviewAge' = Older(reviewAge, review # 0)
    /\ rejectAge' = Older(rejectAge, rejected)
    /\ UNCHANGED <<active, review, rejected, card, conv, faults, pc, tap, cooling, told, notes>>

Dispatch(h) ==
    \/ OpenLink(h) \/ Submit(h) \/ Cancel(h)
    \/ \E c \in Cards, v \in {"approve", "reject"} : Tap(h, c, v)

Step(h) ==
    \/ StartRead(h) \/ StartClear(h) \/ StartKeys(h) \/ StartSend(h) \/ Abandon(h)
    \/ SubRead(h) \/ SubClear(h) \/ SubPost(h) \/ SubClaim(h) \/ SubDelete(h) \/ SubEnd(h)
    \/ DecRead(h) \/ DecStale(h) \/ DecCard(h)
    \/ AppGroups(h) \/ AppDeact(h) \/ AppClear(h) \/ AppCard(h)
    \/ RejSet(h) \/ RejCard(h) \/ RejClear(h)

Next == \/ \E h \in Handlers : Dispatch(h) \/ Step(h)
        \/ ManualUnban \/ Tick

Spec == Init /\ [][Next]_vars

\* Every awaited call returns or times out, and time passes.
FairSpec == Spec /\ (\A h \in Handlers : WF_vars(Step(h))) /\ WF_vars(Tick)

(***************************************************************************)
(* Properties                                                               *)
(***************************************************************************)
\* The type invariant; with it, a handler that claims, deletes or edits a card
\* knows which one (_on_message returns early when the post failed).
TypeOK ==
    /\ active \in BOOLEAN /\ rejected \in BOOLEAN /\ open \in BOOLEAN /\ keys \in BOOLEAN
    /\ review \in Cards \cup {0} /\ reviewAge \in 0..MaxAge /\ rejectAge \in 0..MaxAge
    /\ card \in [Cards -> Faces] /\ faults \in 0..MaxFaults
    /\ pc \in [Handlers -> Points] /\ mine \in [Handlers -> Cards \cup {0}]
    /\ verdict \in [Handlers -> {"none", "approve", "reject"}]
    /\ owner \in [Handlers -> BOOLEAN] /\ cooling \in [Handlers -> BOOLEAN]
    /\ told \in [Cards -> SUBSET {"approve", "reject"}] /\ expired \subseteq Cards
    /\ crossed \subseteq Handlers
    /\ \A h \in Handlers : pc[h] \in CardPoints => mine[h] # 0

\* A verdict is shown only once it is committed: an approved card means the ban
\* is lifted, a rejected one that the cooldown is recorded, even with several
\* reviewers at once and calls failing between the writes.
VerdictIsCommitted ==
    \A c \in Cards : /\ card[c] = "approved" => ~active
                     /\ card[c] = "rejected" => rejected

\* No failure costs an appeal its decision: while a review is pending on an
\* active, undecided ban, its card still carries its buttons.
PendingCardIsLive ==
    Busy = {} /\ active /\ review # 0 /\ ~rejected => card[review] = "live"

\* Concurrent submissions leave one card: without failing calls, every card with
\* buttons is the pending review of an appeal that is still undecided, or its
\* review was cleared as stale (SubClaim, SubDelete).
LiveCardIsPending ==
    Busy = {} /\ faults = MaxFaults /\ active /\ ~rejected =>
        \A c \in Cards : card[c] = "live" => review = c \/ c \in expired

\* Within the lock window nobody but the banning admin decides: neither verdict
\* is written by another reviewer, although the lock was checked steps earlier,
\* unless the review it was checked for was replaced in between (on_decision,
\* reviewer_locked_out).
LockRespected ==
    [][\A h \in Handlers \ crossed :
          pc[h] \in {"app_deact", "rej_set"} /\ pc'[h] \in {"app_clear", "rej_card"}
             => owner[h] \/ review = 0 \/ reviewAge >= LockWindow]_vars

\* appeals.md: "During the first 12 hours, only the admin_user_id stored on the
\* ban can approve or reject", whatever happened since the lock was checked.
LockIsAbsolute ==
    [][\A h \in Handlers :
          pc[h] \in {"app_deact", "rej_set"} /\ pc'[h] \in {"app_clear", "rej_card"}
             => owner[h] \/ review = 0 \/ reviewAge >= LockWindow]_vars

\* The banned user is never shut out for good: whoever fails to act and
\* whatever call fails, the deep link works again or the ban is lifted.
Blocked == active /\ ((review # 0 /\ ~is_stale_review) \/ in_cooldown)
NotLockedOut == Blocked ~> ~Blocked

\* What clear_review and appeals.md say: after a rejection and the cooldown a
\* new appeal can be submitted (and decided).
PendingIsDecidable ==
    Busy = {} /\ active /\ review # 0 /\ card[review] = "live" => ~rejected

\* What on_decision says of concurrent taps: the second one stands down, so the
\* user hears one verdict.
OneVerdict == \A c \in Cards : told[c] # {"approve", "reject"}
=============================================================================
