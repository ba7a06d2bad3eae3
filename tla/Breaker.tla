------------------------------ MODULE Breaker ------------------------------
(***************************************************************************)
(* The circuit breaker that guards MongoDB (db_call) and Telegram (fan_out). *)
(*                                                                         *)
(* One breaker of one of the two kinds.  Coroutines are the coroutines that can   *)
(* be past the semaphore of their fan_out at once.  The service goes down    *)
(* and comes back; of time the code asks one thing, whether the recovery     *)
(* timeout has passed.                                                       *)
(***************************************************************************)
EXTENDS Naturals, FiniteSets

CONSTANTS
    Coroutines,        \* coroutines that can be in process at once
    failure_threshold, \* consecutive failures that open the circuit
    MaxDown,           \* bound: outages of the service
    MaxCancels         \* bound: cancelled calls

ASSUME BreakerAssumption ==
    /\ failure_threshold \in Nat \ {0} /\ MaxDown \in Nat /\ MaxCancels \in Nat

VARIABLES
    kind,         \* which client: "db_call" or "fan_out"
    state,        \* the circuit: "closed", "open" or "half_open"
    failures,     \* consecutive failures
    probe,        \* a half-open probe is reserved
    elapsed,      \* the recovery timeout has passed since the circuit opened
    up,           \* the service answers
    outages,      \* outages left
    cancels,      \* cancellations left
    flight,       \* calls the service is working on
    born,         \* per call: the circuit's state when it was admitted
    saw           \* per call: the service was "up", "down", or "both" in turn

breakerVars == <<kind, state, failures, probe, elapsed, up, outages, cancels, flight, born, saw>>
circuit == <<state, failures, probe, elapsed>>

BreakerInit ==
    /\ kind \in {"db_call", "fan_out"}
    /\ state = "closed" /\ failures = 0 /\ probe = FALSE /\ elapsed = FALSE
    /\ up = TRUE /\ outages = MaxDown /\ cancels = MaxCancels
    /\ flight = {} /\ born = [c \in Coroutines |-> "closed"] /\ saw = [c \in Coroutines |-> "up"]

(***************************************************************************)
(* The breaker                                                              *)
(***************************************************************************)
\* Reading the state takes an open circuit past its timeout to half-open.
Seen == IF state = "open" /\ elapsed THEN "half_open" ELSE state

Admitted == Seen = "closed" \/ (Seen = "half_open" /\ ~probe)

\* Permission for one call; half-open gives one at a time.
try_acquire ==
    /\ state' = Seen
    /\ probe' = (probe \/ (Seen = "half_open" /\ Admitted))
    /\ UNCHANGED <<failures, elapsed>>

_release_probe == probe' = FALSE

\* Mutation: only the count is reset.
_record_success_KeepsState ==
    /\ failures' = 0 /\ UNCHANGED <<state, elapsed>> /\ _release_probe

_record_success ==
    /\ state' = "closed" /\ failures' = 0 /\ elapsed' = elapsed /\ _release_probe

\* A failure opens a half-open circuit, and any other at the threshold; a late
\* one starts the timeout of an open circuit again.
_record_failure ==
    /\ LET opens == state = "half_open" \/ failures + 1 >= failure_threshold
       IN  /\ state' = IF opens THEN "open" ELSE state
           /\ elapsed' = (elapsed /\ ~opens)
    /\ failures' = IF failures < failure_threshold THEN failures + 1 ELSE failures
    /\ _release_probe

release_probe == _release_probe /\ UNCHANGED <<state, failures, elapsed>>

(***************************************************************************)
(* The calls                                                                *)
(***************************************************************************)
Call(c) ==
    /\ c \notin flight /\ Admitted /\ try_acquire /\ flight' = flight \cup {c}
    /\ born' = [born EXCEPT ![c] = Seen]
    /\ saw' = [saw EXCEPT ![c] = IF up THEN "up" ELSE "down"]
    /\ UNCHANGED <<kind, up, outages, cancels>>

\* Refused: the coroutine is closed and never runs.
Skip(c) ==
    /\ c \notin flight /\ ~Admitted /\ try_acquire
    /\ UNCHANGED <<kind, up, outages, cancels, flight, born, saw>>

Ends(c) ==
    /\ c \in flight /\ flight' = flight \ {c}
    /\ born' = [born EXCEPT ![c] = "closed"] /\ saw' = [saw EXCEPT ![c] = "up"]
    /\ UNCHANGED <<kind, up, outages>>

\* The service answered, perhaps before an outage that began meanwhile.
Succeed(c) == Ends(c) /\ saw[c] # "down" /\ cancels' = cancels /\ _record_success

\* A timeout or a network error.
Fail(c) == Ends(c) /\ saw[c] # "up" /\ cancels' = cancels /\ _record_failure

\* MongoDB answers with an error, such as a duplicate key; db_call counts any
\* exception as a failure.
Reject(c) == Ends(c) /\ kind = "db_call" /\ saw[c] # "down" /\ cancels' = cancels /\ _record_failure

\* Telegram says no, which is not a failure of Telegram.
Refuse(c) == Ends(c) /\ kind = "fan_out" /\ saw[c] # "down" /\ cancels' = cancels /\ release_probe

\* Mutation: a cancelled call tells the breaker nothing.
Cancel_Silent(c) ==
    /\ Ends(c) /\ cancels > 0 /\ cancels' = cancels - 1 /\ UNCHANGED circuit

\* The task that awaits the call is cancelled.
Cancel(c) ==
    /\ Ends(c) /\ cancels > 0 /\ cancels' = cancels - 1 /\ release_probe

(***************************************************************************)
(* The world                                                                *)
(***************************************************************************)
\* The recovery timeout passes.
Timeout ==
    /\ state = "open" /\ ~elapsed /\ elapsed' = TRUE
    /\ UNCHANGED <<kind, state, failures, probe, up, outages, cancels, flight, born, saw>>

Down ==
    /\ up /\ outages > 0 /\ up' = FALSE /\ outages' = outages - 1
    /\ saw' = [c \in Coroutines |-> IF c \in flight THEN "both" ELSE saw[c]]
    /\ UNCHANGED <<kind, circuit, cancels, flight, born>>

Up ==
    /\ ~up /\ up' = TRUE
    /\ saw' = [c \in Coroutines |-> IF c \in flight THEN "both" ELSE saw[c]]
    /\ UNCHANGED <<kind, circuit, outages, cancels, flight, born>>

Return(c) == Succeed(c) \/ Fail(c) \/ Reject(c) \/ Refuse(c) \/ Cancel(c)

BreakerNext ==
    \/ \E c \in Coroutines : Call(c) \/ Skip(c) \/ Return(c)
    \/ Timeout \/ Down \/ Up

BreakerSpec == BreakerInit /\ [][BreakerNext]_breakerVars

\* Every call returns, within the socket and request timeouts; time passes; and
\* somebody keeps calling.
BreakerFairness ==
    /\ \A c \in Coroutines : WF_breakerVars(Return(c))
    /\ WF_breakerVars(Timeout)
    /\ WF_breakerVars(\E c \in Coroutines : Call(c))

BreakerFairSpec == BreakerSpec /\ BreakerFairness

(***************************************************************************)
(* Properties                                                               *)
(***************************************************************************)
BreakerTypeOK ==
    /\ kind \in {"db_call", "fan_out"} /\ state \in {"closed", "open", "half_open"}
    /\ failures \in 0..failure_threshold /\ probe \in BOOLEAN /\ elapsed \in BOOLEAN
    /\ up \in BOOLEAN /\ outages \in 0..MaxDown /\ cancels \in 0..MaxCancels
    /\ flight \subseteq Coroutines /\ born \in [Coroutines -> {"closed", "half_open"}]
    /\ saw \in [Coroutines -> {"up", "down", "both"}]

\* A reserved probe belongs to a call that is running: whichever way the calls of
\* both clients end, cancellation included, none leaves the half-open circuit
\* reserved (CircuitBreaker.call, fan_out).
ProbeHasAnOwner == probe => \E c \in flight : born[c] = "half_open"

\* From some point on no call ends in an error MongoDB answered with.
NoMoreErrors == <>[][\A c \in Coroutines : ~Reject(c)]_breakerVars

\* Once MongoDB stays up and no longer answers with errors, its circuit closes
\* and stays closed, whatever the late failures of calls that met an outage or
\* an error did to it.  While errors keep coming it need not: db_call counts a
\* duplicate key against a healthy MongoDB (_record_failure, _record_success).
Recovers == kind = "db_call" /\ <>[]up /\ NoMoreErrors => <>[](state = "closed")

\* utilities.md: try_acquire "admits only one `HALF_OPEN` probe; concurrent
\* callers are rejected until that probe completes".
OneProbe == Cardinality({c \in flight : born[c] = "half_open"}) <= 1
============================================================================
