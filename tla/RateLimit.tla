----------------------------- MODULE RateLimit -----------------------------
(***************************************************************************)
(* A sliding-window rate limiter for one user: one bucket, kept in a Redis    *)
(* sorted set, with an in-process deque to fall back on.  The clock of the    *)
(* process never goes back, so the deque is in order of time and its head is *)
(* its oldest call: like the sorted set it is a set of calls with their time. *)
(*                                                                         *)
(* The global limiters (regular commands, staff commands, buttons) and those *)
(* of single handlers differ in prefix, maximum and window only, and share   *)
(* no state, so one bucket stands for any of them.  The clock of a Redis      *)
(* check is read before its round trip.                                      *)
(***************************************************************************)
EXTENDS Integers, FiniteSets

CONSTANTS
    Calls,      \* updates of the user that come to this limiter
    max_calls,  \* calls in a window
    window,     \* length of a window, in ticks
    Tenth,      \* ticks in the tenth of a second that waits are rounded to
    MaxTime,    \* bound: ticks
    MaxErrors   \* bound: failing Redis calls

ASSUME LimitAssumption ==
    /\ {max_calls, window, Tenth} \subseteq Nat \ {0} /\ {MaxTime, MaxErrors} \subseteq Nat

VARIABLES
    now,        \* the clock
    redis,      \* Redis is configured
    zset,       \* the sorted set: members with their score
    dq,         \* the user's deque in _buckets: calls with their time
    stray,      \* scripts that Redis has yet to run although nobody waits
    stage, clock, \* per call: control point, and the clock it read
    errors,     \* failures left
    log,        \* history: calls let through
    newest,     \* history: latest clock a script ran with
    skewed,     \* history: a script ran after one with a later clock
    slipped     \* history: a denial was rounded to no wait

stores == <<zset, dq, stray>>
tally == <<log, newest, skewed, slipped>>
limiterVars == <<now, redis, stores, stage, clock, errors, tally>>

Members == [call : Calls, at : 0..MaxTime]

LimiterInit ==
    /\ now = 0 /\ redis \in BOOLEAN /\ zset = {} /\ dq = {} /\ stray = {}
    /\ stage = [c \in Calls |-> "idle"] /\ clock = [c \in Calls |-> 0] /\ errors = MaxErrors
    /\ log = {} /\ newest = 0 /\ skewed = FALSE /\ slipped = FALSE

RedisWorks == UNCHANGED errors
RedisFails == errors > 0 /\ errors' = errors - 1

(***************************************************************************)
(* The handlers                                                             *)
(***************************************************************************)
\* The role read, which fails closed, leads to this bucket.
Ask(c) ==
    /\ stage[c] = "idle" /\ stage' = [stage EXCEPT ![c] = "asked"] /\ clock' = [clock EXCEPT ![c] = now]
    /\ UNCHANGED <<now, redis, stores, errors, tally>>

\* The update is the Founder's, or its role leads to another bucket.
_is_exempt(c) ==
    /\ stage[c] = "idle" /\ stage' = [stage EXCEPT ![c] = "ran"]
    /\ UNCHANGED <<now, redis, stores, clock, errors, tally>>

LetThrough(c, by, at) ==
    /\ stage' = [stage EXCEPT ![c] = "ran"] /\ clock' = [clock EXCEPT ![c] = 0]
    /\ log' = log \cup {[call |-> c, by |-> by, at |-> at]}

\* The user is told to wait and the update goes no further.
Deny(c) ==
    stage' = [stage EXCEPT ![c] = "denied"] /\ clock' = [clock EXCEPT ![c] = 0] /\ log' = log

(***************************************************************************)
(* Redis                                                                    *)
(***************************************************************************)
Unexpired(at) == {m \in zset : m.at > at - window}

Admits(at) == Cardinality(Unexpired(at)) < max_calls

\* The script: expired members go, and the call is added if there is room.
_RL_LUA(c, at) ==
    /\ zset' = Unexpired(at) \cup (IF Admits(at) THEN {[call |-> c, at |-> at]} ELSE {})
    /\ newest' = (IF at > newest THEN at ELSE newest)
    /\ skewed' = (skewed \/ at < newest)

Oldest(S) == CHOOSE m \in S : \A n \in S : m.at <= n.at

\* What is left of the oldest member's window.
Left(at) == window - (at - Oldest(Unexpired(at)).at)

\* Mutation: the wait is rounded down.
Wait_Floor(at) == (Left(at) \div Tenth) * Tenth

\* The wait that a denial announces: a tenth or more, rounded up to tenths.
Wait(at) == ((Left(at) + Tenth - 1) \div Tenth) * Tenth

eval(c) ==
    /\ stage[c] = "asked" /\ redis /\ RedisWorks /\ _RL_LUA(c, clock[c])
    /\ IF Admits(clock[c]) THEN LetThrough(c, "redis", clock[c]) ELSE Deny(c)
    /\ UNCHANGED <<now, redis, dq, stray, slipped>>

\* Redis gets to a script whose caller has given up.
StrayRuns(m) ==
    /\ m \in stray /\ stray' = stray \ {m} /\ _RL_LUA(m.call, m.at)
    /\ UNCHANGED <<now, redis, dq, stage, clock, errors, log, slipped>>

(***************************************************************************)
(* The fallback                                                             *)
(***************************************************************************)
\* round(): to the nearest tenth.
Rounded(w) == (2 * w + Tenth) \div (2 * Tenth)

\* _RateLimiter.check.  A wait that rounds to nothing reads as "allowed", and the
\* call is not recorded.
check(c) ==
    LET live == {m \in dq : now - m.at < window}
    IN  IF Cardinality(live) < max_calls
        THEN /\ dq' = live \cup {[call |-> c, at |-> now]}
             /\ LetThrough(c, "local", now) /\ slipped' = slipped
        ELSE /\ dq' = live
             /\ IF Rounded(window - (now - Oldest(live).at)) = 0
                THEN LetThrough(c, "local", now) /\ slipped' = TRUE
                ELSE Deny(c) /\ slipped' = slipped

CheckLocal(c) ==
    /\ stage[c] = "asked" /\ ~redis /\ RedisWorks /\ check(c)
    /\ UNCHANGED <<now, redis, zset, stray, newest, skewed>>

\* An error of Redis or the timeout, with the script on its way or not.
CheckFallback(c) ==
    /\ stage[c] = "asked" /\ redis /\ RedisFails /\ check(c)
    /\ stray' \in {stray, stray \cup {[call |-> c, at |-> clock[c]]}}
    /\ UNCHANGED <<now, redis, zset, newest, skewed>>

\* Mutation: buckets are dropped one window after their oldest call.
Cleanup_OneWindow ==
    /\ (\E m \in dq : m.at <= now - window) /\ dq' = {}
    /\ UNCHANGED <<now, redis, zset, stray, stage, clock, errors, tally>>

\* Another user's first call finds too many buckets: those whose oldest call is
\* two windows old are dropped.
Cleanup ==
    /\ (\E m \in dq : m.at <= now - 2 * window) /\ dq' = {}
    /\ UNCHANGED <<now, redis, zset, stray, stage, clock, errors, tally>>

ClockTicks ==
    /\ now < MaxTime /\ now' = now + 1
    /\ UNCHANGED <<redis, stores, stage, clock, errors, tally>>

LimiterNext ==
    \/ \E c \in Calls : Ask(c) \/ _is_exempt(c) \/ eval(c) \/ CheckLocal(c) \/ CheckFallback(c)
    \/ \E m \in stray : StrayRuns(m)
    \/ Cleanup \/ ClockTicks

LimiterSpec == LimiterInit /\ [][LimiterNext]_limiterVars

(***************************************************************************)
(* Properties                                                               *)
(***************************************************************************)
LimiterTypeOK ==
    /\ now \in 0..MaxTime /\ redis \in BOOLEAN
    /\ zset \subseteq Members /\ dq \subseteq Members /\ stray \subseteq Members
    /\ stage \in [Calls -> {"idle", "asked", "denied", "ran"}] /\ clock \in [Calls -> 0..MaxTime]
    /\ errors \in 0..MaxErrors /\ newest \in 0..MaxTime
    /\ log \subseteq [call : Calls, by : {"redis", "local"}, at : 0..MaxTime]
    /\ skewed \in BOOLEAN /\ slipped \in BOOLEAN

Within(by, t) == {a \in log : a.by = by /\ a.at > t - window /\ a.at <= t}

\* No window, wherever it begins, sees more calls than the maximum, whatever
\* falls back, lands late or is cleaned up; a mix of both backends sees at most
\* twice as many.  The exceptions are a script that ran after one with a later
\* clock and a denial rounded to no wait (_RateLimiter.check, _RL_LUA,
\* _AsyncRateLimiter.check).
WindowHolds ==
    \A t \in 0..MaxTime :
        /\ skewed \/ Cardinality(Within("redis", t)) <= max_calls
        /\ slipped \/ Cardinality(Within("local", t)) <= max_calls

\* Whoever waits as long as a Redis denial says finds room, if nobody else came
\* meanwhile, also when little is left of the window (_RL_LUA).
WaitIsEnough ==
    [][\A c \in Calls :
         (stage[c] = "asked" /\ stage'[c] = "denied" /\ redis /\ errors' = errors)
         => Cardinality({m \in zset' : m.at > clock[c] + Wait(clock[c]) - window}) < max_calls]_limiterVars

\* _RateLimiter.check says "Return 0.0 if allowed (call recorded), or seconds to
\* wait if denied": a denial never reads as permission.
DenialDenies == ~slipped
============================================================================
