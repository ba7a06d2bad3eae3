# tcbot in TLA+

tcbot is a Telegram bot that moderates a *federation* of groups: a ban issued
once is recorded in MongoDB and enforced in every connected chat. This
directory holds TLA+ models of its core, the TLC runs that check them, and
TLAPS proofs of the properties that matter most. `PROJECT.json` maps every
definition to the source lines it stands for.

Paths below are relative to `src/tcbot/` (`flows/` is `modules/helper/workflows/`).

## 1. Inventory

The process is one asyncio event loop. `runtime/lifecycle.py:219` enables
`concurrent_updates(True)`, so every update gets a task of its own and two
handlers interleave at every `await`. MongoDB is reached one document
operation at a time, Telegram one call at a time; nothing spans both.

| Component | State | Operations | What makes it correct |
|---|---|---|---|
| Ban executor (`flows/ban_flow/executor.py`, `persist.py`) | `bans`; Telegram's per-chat bans | ban, re-ban (update), fan-out | record before enforcement; every chat, or the operator is told |
| Unban (`modules/unbanning.py`, `flows/unban_flow.py`) | same | deactivate all, lift everywhere | no chat lifted while an older record is active |
| Warning auto-ban (`flows/warning_flow/autoban.py`) | `bans`, `warns` | ban at the limit, clear warnings | warnings are given up only for a ban |
| Join enforcement (`modules/greeting/`) | reads `bans` | ban a banned joiner | together with the executor, no banned member stays |
| Sync (`modules/syncing/`) | reads both | probe and correct each pair | repairs both directions |
| Group connection (`flows/connected_flow/`) | `federated_groups`, `pending_joins` | register, replay bans and mutes | a new chat enforces like an old one |
| Proof collection (`flows/ban_flow/session.py`, `handlers.py`, `modules/banning.py`) | conversation state, `user_data`, `_proof_sessions`, one flush task per session | media, Done, Cancel, flush, any command | each proof executed once, never abandoned |
| Appeals (`flows/appeal_submit_flow/`, `flows/appeal_review_flow/`) | review and rejection fields of a ban, the review card | deep link, submit, approve, reject | a verdict shown is a verdict stored; nobody locked out for good |
| Roles, promotion queue, ownership transfer (`database/users_roles.py`, `queues_db.py`, `modules/admins/`) | four collections, role cache | promote, demote, transfer | one owner; a resolved request is resolved once |
| Warnings (`database/warns_db/`, `flows/warning_flow/`) | history and counter | warn, remove, clear, migrate, expire | counter never above the history; the limit is noticed |
| Mutes, kicks and their conversation (`flows/muting_flow/`, `flows/kicking_flow.py`, `flows/reason_flow/`) | `active_mutes`, `kicks`, conversation state, `user_data` | reason, proof, mute, unmute, kick | a request runs once; a mute can be lifted; a kick is no ban |
| Groups store (`database/groups_db.py`) | groups, pending joins, caches | add, remove, migrate | one row per chat, caches follow |
| Two-level cache (`database/cache/`) | memory, Redis, FIFO mutation queue | get-or-fetch, put, invalidate, clear | no value older than the last invalidation |
| Circuit breaker, fan-out (`utils/`) | breaker state, semaphore | acquire, record | one probe at a time; opens and recovers |
| MTProto lease (`database/mtproto_store/`) | lease document | claim, refresh, release | one holder of the auth key |
| Rate limiter, error reporter | windows, fingerprints | check, report | bounds respected |
| Runtime, scheduler | jobs, tasks | start, stop, sweep | drains before closing |
| Views, help, localisation, keyboards, configuration, extraction | none of their own | - | text and parsing |

How they interact: proof collection hands a session to the ban executor; the
executor, the unban, the auto-ban, an approved appeal, the join handler and the
sync all read `bans` and call Telegram in the same chats; connecting a chat
changes the set the others fan out to; appeals and unbans write the same ban
document. The hard part everywhere is state read before an await and used
after it, and a failure between two of the writes. `PROJECT.json` lists the
hazards line by line.

## 2. Modules

### Federation

The ban core, from the point of view of one target user. A ban record is its
number in creation order; `active` is the set with `is_active`. `chatBan`,
`member` and `admin` (the chats whose administrator the target is) are what
Telegram knows, `connected` is `federated_groups`.
Each handler instance has a control point `pc[h]` and the local variables the
code keeps across awaits: the record it read (`seen`), the groups it fetched
(`groups`, `scope`), the calls still to be answered (`todo`, `act`), those that
failed (`failed`) and those the code passes over without counting them
(`skipped`). One action is the code between two awaits. Group fetches that the
code starts as a task or gathers (`FetchGroups`) land at any moment before they
are awaited.

| Actions | Code |
|---|---|
| `BanRead` ... `BanFinish`, `BanCall` | `_execute_ban`, `persist.py`, `fan_out` |
| `AutoRole` ... `AutoFinish` | `_execute_warn_auto_ban` |
| `UnbanRead`, `UnbanStaff`, `UnbanFetch`, `Lift*` | `cmd_unban`, `execute_unban` |
| `ApproveRead`, `Lift*` | `_approve_appeal`, which repeats the steps of `execute_unban` |
| `Join*` | `_handle_member`, `on_join_request_approved` |
| `Sync*` | `verify_user` and `run_ban_sync` |
| `Connect*`, `BanCall` | `complete_join` |
| `Leave`, `Appoint`, `Promote` | the user leaves a chat or is made its administrator; someone gives the user a federation role |

Every database or Telegram call may fail (`Fault`), at most `MaxFaults` times
in a behaviour. A failing write is a write that did not happen; a failing
Telegram call is one the code counts (`CallFails`) or one whose refusal it takes
for benign and does not (`CallSkipped`); a chat in `Refusing` always answers the
second way. A ban of an administrator fails with an error that `fan_out`'s callers
count; the sync skips the pair as privileged, and takes any `BadRequest`, of the
probe or of the correction, for absence. `outcome[h]` is what became of the handler:
`full`, `partial` (the operator was told), `aborted`, or `logged`, where the code has
nobody to tell or does not: a join, the replay calls of a connection (only a failed
fetch makes the owner's message a different one), the unbans of an approved appeal and the
scheduled sweep. `cut` and `alone` are history variables.

### ProofSession

One moderator in one chat: one `user_data`, one conversation, one key of
`_proof_sessions`. Sessions are numbered; each has the fields of
`_ProofSession` and its flush task. The conversation state is written when a
callback returns, as in the library, so a callback with awaits is several
actions (`DoneClaim`, `DoneRecheck`, `DoneWrite`, `DoneEnd`). `must` is a
`cancel()` that the task has not yet seen; a task cancelled inside its database
write may or may not have written. Time is the number of silence windows below
the hard cap. `runs`, `issued` and `denied` are history: executions, records
written, operators told that no ban was issued.

### Appeals

One ban record, its appellant's private conversation and any number of review
cards and reviewers. Time is the age of the review and of the rejection,
in windows that keep the order of 12 h (reviewer lock), 24 h (cooldown) and
72 h (stale review); it passes only while no handler runs, because a handler
takes seconds. `open` is the conversation state, written when a callback
returns, and `keys` the `user_data` entries, written at once: the two can
disagree, and the code's guards must cope. `told` is history: the verdicts the
user was sent; so is `crossed`: the handlers that were deciding one review while
a new one was claimed.

### Roles and Decision

The effective role of a user is spread over three collections, `tc_owners`,
`tc_admins` and `tc_roles` (`owners`, `admins`, `sub`), in that order of
precedence; `get_effective_role` is one step. `status` and `about` are the
`promotion_requests` collection, `prompts` the buttons that stand in chats: the
edit that takes a button away may fail, so a posted one may be tapped for ever.
The nine kinds of handler are `/tcpromote` and its role buttons, the request
command and its Approve and Reject buttons, `/tcdemote` and its Confirm button,
`/transferowner`, and the demotion before a ban, kick or mute, both at the
entry (`auto`) and right before the fan-out (`redemote`). A crash loses every
handler and runs `ensure_initial_owner` again. `regrant` is history: the target
of a handler got a role while it ran, by a write that names it (`Granted`) or
because a write of `tc_owners` left its older row the lowest (`Crowned`).

`Decision` is the abstract specification of a queue of decisions: one verdict
per item for good, nobody is shown another, and a positive verdict follows its
effect. Roles maps `chosen` to the stored status, `shown` to what handlers
reported and `earned` to the targets that were written to `tc_admins`
(`Queue == INSTANCE Decision WITH ...`); `QueueDecides` is `Queue!Spec`.

### Warnings

One user. `hist` is the history collection (record ids per chat), `count` the
counter documents, `Old` and `New` a basic group and its supergroup. An upsert
that finds no document is two steps, so two first warnings can race on the
unique index; the calls of an `asyncio.gather` run side by side (`par`), and
each may fail by itself (`bad`), which is what the repairs of
`remove_last_warn` and `_clear_warn_docs` are for. The kinds are warn, unwarn
with its backfill of a missing counter, reset, list, `migrate_records`
and the daily `expire_old_warns`. The age of a record is abstracted: an expiry
removes the oldest records and those counters it finds old.

### Groups

One group under its two chat ids. `row`, `pend` and `conn` are
`federated_groups`, `pending_joins` and the connected cache; `bot` is the bot's
membership in Telegram, which people change at will (`Move`), each change
putting an update into `updates`; `prompt` is the join prompt with its
buttons. The kinds are the membership update, both answers to the join
prompt, `/tcconnect`, `/tcdisconnect`, `/rmtc`, `/leaveall`, `/cleanup` and the migration.

### TwoLevelCache

One key. Its value is the number of writes that the database has seen, so an
entry is stale when it is smaller than `db`. `mem` and `red` are the two
levels, `queue` the chained Redis mutations with their bound (`dropped` says that
it turned one away, `lost` that an accepted one failed, was abandoned or died with the
process), `stray` a Redis write that was given up on and may still land, `lock` and `mine` the per-key
lock as an object: the dictionary entry may be dropped and replaced while a
handler still waits for the old one. Readers are `get_or_fetch` and the batched
reader; writers write the database, then `put`, `invalidate` or `clear_all`.
Both levels expire at any time.

### ModActions

One moderator and one target. Conversations are per chat (`conv`), their data
per user (`ud`), so conversations of one moderator in two chats share it; that,
and a rank check that is awaited before the executing key is set, is where the
code is delicate. `_exec_mute` and `_exec_kick` follow with one step per call;
`/tcunmute` and the mute half of the sync (`SweepRead`, `_run_scheduled_sync`)
compete with them. A call of an unmute works, fails, or is refused in a way that
counts as no failure; `stuck` are the chats that kept their restriction because
the unmute that deleted the record did not get through to them. `met`, `left`,
`stuck`, `raced` and `cut` are history.

### Breaker, Lease, RateLimit

`Breaker` is one circuit breaker and the calls past its semaphore, as
`db_call` and as `fan_out` use it. A call remembers the state it was admitted
in (`born`) and what it saw of the service (`saw`), so late results of old
calls are there. A healthy MongoDB may also answer with an error (`Reject`: a
duplicate key, say), which `db_call` counts like an outage. `Lease` is two instances that share the MTProto auth key: the
lease row with its ticks to expiry, and per instance the claim, the connection,
the heartbeat, `stop` and the abort on a duplicated key. A tick is 10 s; every call
to the database or the client takes up to `Latency` of them, a stall is a tick
more. Expiry times are reckoned from the clock as it was read before the call, as
in the code. `RenewalAssumption` is the relation between the times that the heartbeat
lives on: two beats and three calls fit into the TTL (30 + 30 + 3 * 10 <= 90 s in
`database/mtproto/__init__.py`). Start timeout and beat together make up the whole
TTL, so the first renewal after the slowest connect is late by the latencies of the
calls (`LeaseOutlivesBeats`, section 3). `RateLimit` is one bucket of one user: the Redis
sorted set with its script and the deque it falls back to, a set of calls with
their times as well, since the process clock never goes back; the clock of a
Redis check is read before the round trip, so scripts may run out of order or
after nobody waits for them.

Each module but `Decision` has an MC module for TLC. The proofs are in
`FederationProofs`, `AppealsProofs`, `RolesProofs`, `TwoLevelCacheProofs`,
`ModActionsProofs`, `GroupsProofs`, `GuardProofs` (what protects the bot and its
services: RateLimit, Breaker, Lease) and `SanctionProofs` (what leads to a ban:
ProofSession, Warnings). The last two extend several components that share no
state, which is why those have names of their own for `Init`, `Next` and `Spec`
(`SessionSpec`, `LimiterSpec`, `BreakerSpec`). An operator whose comment begins with "Mutation" is a plausible bug in the
definition that follows it; it is used by no specification and exists so that
each property can be seen to fail.

## 3. Runs

| Run | Bounds | Checks |
|---|---|---|
| `FedSerial` | 3 handlers of any kind, one at a time; 2 chats; 1 failure or refusal (2.02 M states) | a chat and the records disagree only if some handler reported that chat, or a reduced scope, to its operator or to the log (`NoSilentDivergence`); `WarningsBecomeABan`; a clean targeted sync repairs every chat whose pair it did not skip (`VerifyRepairs`) |
| `FedRace` | 2 overlapping handlers of any kind; one chat refuses; 1 failure (1.09 M) | `EnforcementHasRecord`, `LiftFollowsDeactivation`, `LiftedStaysLifted`, `BannedMemberRemoved` |
| `ProofRace` | 3 updates, 3 sessions, 3 media, hard cap after 1 window | `ExecutedOnce`, `SessionHasOwner`, `SessionsResolve` |
| `AppealRace` | 4 handlers, 2 at once; 3 cards; 1 failure; ages past the stale window (390 k) | `VerdictIsCommitted`, `PendingCardIsLive`, `LiveCardIsPending`, `LockRespected`, `NotLockedOut` |
| `RolesRace` | 2 overlapping handlers of nine kinds; 2 users; 3 requests; 2 faults or crashes (672 k) | `OwnerNeverVanishes`; no row survives a demotion (`DemotionIsComplete`) or hides behind another (`NoHiddenRole`); the refinement `QueueDecides` |
| `WarnRace` | 3 handlers, 2 at once; 3 chats; limits 2 and 3; 1 fault or crash (2.49 M) | no counter exceeds the history of its chat (`NoEarlyBan`); no overlapping warning is lost (`NoWarnUncounted`), and the one that reaches a limit notices (`LimitIsNoticed`) |
| `GroupsRace` | 3 handlers, 2 at once; 1 membership change; 1 failure (1.76 M) | `NoStrandedRequest`, `NoGhost`, `ConfirmedIsConnected`, `CacheNotPoisoned` |
| `CacheRace` | 2 coroutines; queue bound 2; 2 writes; 1 fault (1.32 M) | `FreshUnlessRaced`, `MutationsInOrder`, `SingleFlight`, `StaleGoesAway` |
| `ModRace` | 2 updates at once; 2 chats; 2 requests; 1 unmute or sync; 1 fault or restart (2.87 M) | `ExecutedOnce`, `MuteIsLiftable`, `KickIsNotABan` |
| `BreakerRace` | 4 calls; threshold 3; 2 outages; 2 cancellations (95 k) | `ProbeHasAnOwner`, `Recovers` |
| `LeaseRace` | 2 instances; TTL 9, beat 3, start timeout 6, latency 1; 2 boots; 2 stalls; 1 fault (588 k) | `OneClient`, `MissedBeatIsSurvived`, `FencedStops` |
| `RateRace` | 4 calls; 2 per window of 4; 8 ticks; 1 fault (531 k) | `WindowHolds`, `WaitIsEnough` |

Many of these properties name the exceptions under which the code gives no
guarantee (`~overlap`, `~raced`, `~lost`, `late` and the like). The exceptions
are history variables, set by the one step that makes the guarantee void, and
each was narrowed until TLC found no further execution outside it: they are the
list of what the code does not withstand.

Why the bounds suffice: a federation property relates one record, one chat of
each sort (primary, ordinary or refusing) and the few handlers whose steps
cross; two chats tell "all" from "some", three handlers allow a ban, its lift
and a third that joins, syncs or bans again. In a proof session three updates
are an entry, a tap and a competing tap or command, while media and flush ticks
are not counted; three sessions let two successors take the key. Three cards and
two handlers at once let a submission meet a decision and a later one meet its
stale card. In Roles two users are an executor and a target that may both
become owner, and every handler can meet every other and two crashes. Three warnings
reach the chat limit and, spread over two chats, the federation limit; three
handlers are also a crashed migration, one operation and the retry. Two cache
coroutines are a reader and a writer, or two readers of one lock; a queue bound
of 2 lets a set, a delete and a sweep queue up behind each other and still turns
mutations away. Two requests and two updates are two
conversations or two taps on one. In the breaker four calls are enough for
three failures to open it beside a fourth that began earlier. In the lease TTL,
beat and start timeout keep the code's ratios (90 s, 30 s, 60 s) and a call takes
up to 10 s; a stall at the first beat outlasts the TTL. In the limiter the window is longer than the rounding unit,
and two windows fit in the clock. What depends on the number of participants is
proved without bounds where section 5 says so.

Fairness: weak fairness of each handler's (task's, callback's) next step. The
event loop resumes whatever is ready, and every database and Telegram call in
the code has a timeout, so each step that is waiting is eventually answered or
fails. Nothing is assumed of users, moderators or reviewers, with one
exception: `Recovers` needs that somebody keeps calling MongoDB, which
updates, the heartbeat and the scheduled jobs do. It also asks, as a premise, that
MongoDB stays up and stops answering with errors: one error in a half-open circuit
opens it again, whatever its cause. The clock is fair: in `Appeals` and `Lease` its ticks, in
`Breaker` the recovery timeout, in `TwoLevelCache` the expiry of both levels,
whose worker also runs its queue. Deadlock is checked wherever the model ends in
a `Terminated` step or never ends; it is off in `ProofRace` and
`AppealRace` because people may stop sending updates, in `LeaseRace` because
both processes may have ended, and in `RateRace` because its clock is bounded.

### Disagreements between code and text

Each of these properties says what a comment, a docstring or a document says.
TLC finds an execution of the code's model that contradicts it. None is in a
passing run; add it to the run's `.cfg` to see its counterexample.
`PROJECT.json` quotes the text.

| Property | Run | What the code does |
|---|---|---|
| `NoSplitBrain` | `FedRace` | a `/tcunban` between a ban's record write and its fan-out deactivates the record and unbans first; the fan-out then bans with no active record left (so does the replay of a connection that read the record before a lift). Only `/tcsync <target>` repairs it |
| `ConnectedChatsEnforce` | `FedRace` with `Refusing = {}` | the executor reads the groups before a chat is added, the connection reads the bans before the record is written; the banned member stays. A replay call that fails is only logged |
| `CancelIssuesNoBan` | `ProofRace` | Cancel while Done or the flush is executing says that no ban was issued; it is |
| `SuccessorSurvives` | `ProofRace` | the refusal branch of `on_done_proof` pops the key without the same-object test of its `finally` block |
| `PendingIsDecidable` | `AppealRace` | `rejected_at` is never cleared: after one rejection every later appeal of that ban counts as resolved |
| `LockIsAbsolute` | `AppealRace` with 5 handlers, `MaxCards = 2`, `MaxFaults = 0` | the lock is checked for the review that was read; when that one is cleared and a new one claimed, another reviewer's verdict decides the new one inside its window |
| `OneVerdict` | `AppealRace` | two reviewers who both read before either writes both act |
| `RejectionGrantsNothing` | `RolesRace` | an approval writes the Admin row before the resolve that it then loses |
| `RereadFindsNoRole` | `RolesRace` with `Requests = {1}`, kinds promote, auto and transfer, `MaxFaults = 0` | the re-read of an auto-demotion that removed nothing tests for the three lower roles; a target that became the founder meanwhile is banned, muted or kicked |
| `RetryNeverOverCounts` | `WarnRace` | a migration that crashed after moving the history adds the old counter on its retry, although the history was cleared or counted meanwhile |
| `ExpiryPrunesTogether` | `WarnRace` | records expire by their own age, counters by their last update |
| `RevokedIsGone` | `CacheRace` | a fetch that began before the sweep stores what it read after it |
| `RestrictedHasRecord` | `ModRace` | the undo of a second mute, or an unmute, deletes the record that another mute relies on; an unmute also deletes it when a chat failed beside others, or refused in a way that is not counted, and that chat stays restricted |
| `MigrationDoesNotPoison` | `GroupsRace` | a migration of a disconnected group (its row inactive) marks the supergroup as connected in the cache |
| `KickRowsNameATarget` | `ModRace` | a second tap passes the executing test, and kicks user id 0 on the record |
| `OneProbe` | `BreakerRace` | a call from before the outage ends during the probe and lets others in |
| `LeaseOutlivesBeats` | `LeaseRace` | 60 s of connecting and 30 s of sleep are the whole TTL: the first renewal comes after it by what the claim and the refresh take |
| `RollingRestartIsSafe` | `LeaseRace` | `stop()` releases the lease before it stops the client |
| `DenialDenies` | `RateRace` | a denial with less than 0.05 s left is rounded to 0.0, which means allowed |

More is reachable in the models and contradicted by no text. A chat that answers
a ban or an unban with a benign refusal (the bot was demoted there, say) is counted by
nobody and is what `NoSilentDivergence` excepts; the failures of joins, of a connect's
replay, of an approval (`docs/features/appeals.md:203` says so: "Partial transient
failures are logged at error level") and of the scheduled sweep reach the log alone.
Two losses are asserted nowhere: the stale
clear of an appeal is unconditional and may wipe a claim made after it was
decided (`StartClear`, `SubClear`; it is one way to `LockIsAbsolute`), and the end of a background execution clears
the `user_data` keys of a prompt opened meanwhile (`Release` after `EntryKeys`).

## 4. What is left out

Everywhere: wording, names, localisation, log posting and proof upload (they
never stop an action); a failing database call is one without effect, except for
a cancelled flush task, a lease claim and an abandoned Redis write, where the
code's reaction to a write that landed matters; other users, whose records never
interact with the target's.

- Federation: the retry of `create_ban` on an id collision; the caps
  `_REPLAY_CAP` and `_SYNC_MAX_CHECKS`, which turn into a reported partial
  result; declining a join request; a chat administrator who stays a member but
  loses that status. The caches in front of groups and roles are
  `TwoLevelCache`'s subject, disconnecting is `Groups`'.
- ProofSession: rank checks and lookups are free choices. Appeals: so is the
  log reference test.
- Roles: the bots and Telegram's own accounts that `classify` also refuses;
  chat titles. A posted button is never forgotten.
- Warnings: the automatic ban is an event (Federation has its steps); ages are
  abstracted as said above.
- Groups: the replay of bans (Federation) and of mutes, the member harvest.
- TwoLevelCache: a process without Redis, the codec, the entries of other keys;
  other processes appear as writers of the database.
- ModActions: durations and the expiry of timed mutes; the demotion of a staff
  target is Roles'.
- Lease: stored peers and what the connected client is used for. Two boots are
  one restart, or one overlap.
- RateLimit: the buckets share nothing, so one stands for all.

Not modelled at all: see the components with status `not_modelled` in
`PROJECT.json`, each with its reason. Most are views and text. The error
reporter's throttle and the start-up order of the runtime are the two with state
of their own (section 6).

## 5. Proofs

All theorems hold for every value of the constants that satisfies the named
assumptions: `ChatAssumption` (primaries and refusing chats are chats),
`UserAssumption` and `RequestAssumption` (ids are numbers, request ids not 0),
`LockAssumption` (finitely many coroutines, one lock more than those), the
`ChatAssumption` of Warnings (a group and its supergroup are two chats),
`RenewalAssumption` (section 2), and the assumptions that bounds, windows and
thresholds are naturals. So the number of handlers, users, chats, sessions,
cards, retries and failures is unbounded in the proofs, and so are the bounds
that the runs need (`MaxBusy`, `MaxFaults`, `MaxWrites`), except in the two
theorems that assume `MaxBusy = 1`. Every inductive
invariant was checked by TLC on the component's run before it was proved.

**Federation.** `TypeCorrect` proves `TypeOK`. It is not inductive alone: the
auto-ban and the connection put the chat of the update into `scope` and `todo`,
so `TypeInv` adds that handlers at those points have a chat (`UpdateHasChat`).
`LiftedNeverReturns` is an action property: each step either keeps `active`,
shrinks it, or adds exactly `created + 1` (lemma `RecordsOnlyAppended`), so no
existing record comes back. `EnforcementRecorded` needs `SeenExists`: whatever
a handler has in `seen` was created, which survives every step because
`created` only grows; the fan-outs then carry a record. `LiftsAfterDeactivation`
needs `CutExists`: `cut[h]` never exceeds `created`; deactivation empties
`active`, and later records lie above the cut.

`DivergenceIsReported` and `WarningsEndInABan` assume `MaxBusy = 1`, handlers one
at a time, as the properties say (with overlap `NoSplitBrain` and
`ConnectedChatsEnforce` are refuted, section 3). Their invariant is `SerialInv`:
one handler runs (`Serial`); the chats it reaches for, and the chats that ban the
target, are in the federation (`Within`); what it read of the bans and the groups
is still so when it uses it (`Known`); and a chat that disagrees with the bans is
unfinished business of the running handler, was refused as benign, or is covered by
the report of a handler that has ended (`Tracked`). A handler that ends either has no
unfinished business with a chat or reports that very chat, or a reduced scope: that
is where `FanOutcome`, `ReplayOutcome` and `LiftFinish` count failed calls and a failed
group fetch.
`SerialStepOfOne` shows this for the handler that moves, `StepIsLocal` that no
other is touched. `VerifyMakesAgree` needs no such assumption: `alone[h]` says
that nothing overlaps the sync so far (`Solo`), hence its snapshot of the ban is
still true and every pair it is done with agrees, was skipped or has failed
(`VerifyOK`).

**ProofSession.** `NoDoubleExecution` and `NoOrphanSession` rest on one
inductive invariant. `ClaimInv`: a session that is not `flushing` was never
run, and a Done tap waiting for its rank check is the only claimant of a
session not yet run. `OwnerInv`: if the registered session's task is cancelled or
finished, a Done tap owns it; a task's last lookup in its own registered session
is that session or nothing; and sessions not yet created have no trace.

**Appeals.** `VerdictsAreCommitted` strengthens the property with `Committed`:
between its write and its card edit, an approval has an inactive ban and a
rejection a recorded one. No step reactivates the ban or forgets a rejection.
`LockHolds` is an action property: from the check to the write, a reviewer who
is not the banning admin has a review that is past the window or gone. Only a
new claim makes a review young again, and that is what `crossed` remembers; the
proof failed until it did, and TLC then found the execution behind
`LockIsAbsolute`. `PendingCardsAreLive` and `LiveCardsArePending` share
`CardInv`: a posted card belongs to one submission, is not the pending review
yet and has its buttons when it is claimed (`OwnCard`); every card with buttons
is the pending review, was cleared as stale, or has a submission that is about to
claim it or take it down (`Accounted`); cards are closed without a verdict only
once the ban is lifted (`Resolving`).

**Roles.** `OwnerStays`: between the two writes of `set_owner` the new row is
there, and only one `set_owner` is between them unless they raced (`Owned`).
`QueueImplementsDecision` proves the refinement `QueueDecides`: initial states
map to initial states; `DecisionResolve` maps to `Decide` or a stutter,
`DecisionCleanup` to `Show`, and everything else to `Earn` or a stutter. Its
invariant is `Stored`: a decision works on the row of its card, approves it after
the Admin row is written, and what was shown is what is stored.
`DemotionsAreComplete` needs `Cleared`: what a removal has deleted stays deleted
while nobody gives its target a role, and the target of an entry is not the
owner. The first attempt failed on a second owner row left by an earlier version:
a transfer makes its holder the owner without naming it; TLC gave the trace, and
`Crowned` records it. `NoRoleIsHidden` needs `Calm`: with one handler at a time
and no failure, the two rows of a user meet only where the handler at work is
about to clear the second, a transfer's target and executor have no custom role,
and neither has the owner.

**TwoLevelCache.** The proofs do not use the fairness of `Spec`.
`MutationsRunInOrder` needs `Ordered`: nothing is astray, and the newest queued
mutation is the one that counts, a mutation that the bound turned away never having
counted; a sweep is never turned away. `FlightsAreSingle` needs `Flight`: while memory
has no entry every reader is at the one lock of the dictionary; a lock that a
returning reader drops leaves an entry behind, so nobody starts on another.
`EntriesAreFresh` needs `Fresh`: for memory, for what Redis is to hold and for
what each reader carries, every newer write still has a writer who will tell the
cache. That is preserved because a writer's call drops or replaces the entry and
marks older values in flight as raced.

**ModActions.** One invariant for three theorems. `Unspent`: the request that
`user_data` holds has not run, nor has any that was not made yet, so emptying
`user_data` at the start of an execution is what makes it the only one
(`RequestsRunOnce`). `Lifting`: whoever a kick has banned is about to be unbanned
by it (`KicksAreLifted`). `Recorded`: without a record nobody restricts and nobody
is restricted but in `stuck` chats; a mute that found no record and met no other is alone, so its undo
takes nothing from anyone; an unmute that met no mute frees the chats it has
called, save those it did not get through to, before it deletes the record
(`MutesAreLiftable`).

**Warnings.** Three theorems, one frame: `Way` says which operation may be at
which control point, `Distinct` that every record has its own id in one chat.
`LimitIsAlwaysNoticed`: as long as only warnings ran and nothing failed (`Clean`,
which no step can restore), somebody is about to start the automatic ban, or no
chat is at its limit and a federation sum at its limit has still to be read
(`Watched`); the check comes after the increment, so whoever increments last sees
all. `NoWarnIsUncounted`: the counter of a chat and the warnings that are recorded
and not yet counted add up to its history (`Tallied`), and the loser of the race
for a new counter finds the document on its one retry, so nobody rolls back
(`Retries`). `CounterNeverAhead` is the long one. Its invariant `EarlyInv` says
for each of the control points what the running handler may have left undone
(`Keeps`): between the two gathered calls of `remove_last_warn` the counter may be
one above the history, until the decrement or the repair of the call that failed
(`Unwarning`); a clear has its counters gone, its history still there, or a failed
counter delete to repair (`Clearing`); a migration that has moved the history has
room for both counters in the new chat (`Merged`). Only one call may fail
(`Spent`), so a repair that is needed works. The property is per chat; that the
federation sum is then within the whole history follows by induction over the
chats, which is out of the prover's reach.

**Groups.** Four theorems. `RequestsAreNotStranded`: a request that outlives the
bot's membership has the removal still in the queue, or a handler about to delete
it (`StrandInv`). `NoGhostIsLeft`: while the bot is out, every handler that may
still connect the group has the removal after it (`GhostInv`); it needs that a
migration works on the supergroup (`AtNew`) and that of all steps only `leave_chat`
queues an update. `CacheIsNotPoisoned`: the cache is behind at one moment only,
after a migration has moved the row and before it tells the cache (`CacheInv`,
with `Serial`); the supergroup that a migration left an inactive row is excepted, there
the code itself is wrong (`MigrationDoesNotPoison`). `ConfirmedStaysConnected` holds under any overlap: Telegram
migrates a group once (`OneMigration`), so whoever drops the old row has the new
one active, and a row that arrived inactive has no second migration to come
(`ConnInv`); while nobody takes the group out (`Undisturbed`, by `Path` a matter
of who started what), a confirmed group has an active row.

**RateLimit.** `WindowAlwaysHolds` bounds *every* window, past ones included, so
the invariant (`BucketsInv`) carries the bound for all window ends, and what a
check needs to keep it: the sorted set is never overfull and has every call that a
script in order could still count (`RedisInv`); the deque has every call of the last
window and spans less than one (`LocalInv`); so the calls of the window that a new
one ends map one to one into the bucket (`Kept`, `FewerLogged`). `WaitAlwaysEnough` is arithmetic
over the ceiling that the script takes: the oldest member leaves the window before
the announced wait is over.

**Lease.** `OneClientHolds`: no two instances draw the same owner id (`Fresh`), a
client runs only between the connect and the end of its process (`Placed`), and
without one of the three accidents that the property names whoever is or may get
connected holds a lease that has not run out (`Covered`); since the row has one
owner, there is one client. `OneMissIsSurvived` shows how much time a renewed
lease has left at each control point as long as nothing stalls (`Prompt`): at least
the TTL, minus what the renewal took, minus a beat and a call for every beat missed since
and minus the time at the control point, which `RenewalAssumption` keeps from
falling below zero up to the second beat in a row that fails. `Paced` is the other half:
without a stall no instance overstays its allowance at any point.

**Breaker.** `ProbeAlwaysOwned` proves `ProbeHasAnOwner` with the types of
`flight`, `born` and `state` as the strengthening. The heart is
`ReturnReleases`: however a call ends (success, failure, a refusal that counts
as neither, cancellation) the slot is free afterwards, even if the call was
not the probe. That keeps the slot from being lost, and is also what refutes
`OneProbe`.

Every invariant and every safety action property of the runs is stated by a
theorem. Only model-checked are the liveness properties (`BannedMemberRemoved`,
`SessionsResolve`, `NotLockedOut`, `StaleGoesAway`, `Recovers`, `FencedStops`: the
prover has no rule for fairness).

## 6. Plan

1. Proofs: the refinement of item 4, on top of `SerialInv`.
2. The error reporter's fingerprint window and throttle; start-up and shutdown
   order of the runtime and the scheduler's registration of jobs.
3. Pure algorithms against reference definitions: `take_pairs`, pagination,
   durations.
4. An abstract ban ledger (banned or not, enforced or not per chat) that
   Federation without overlap implements.
