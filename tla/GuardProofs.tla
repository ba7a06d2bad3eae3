---------------------------- MODULE GuardProofs ----------------------------
(***************************************************************************)
(* The three guards, one in front of the handlers, one in front of the       *)
(* services and one around the auth key: the rate limiter never lets more    *)
(* calls through a window than its maximum and never announces a wait that   *)
(* is too short, the circuit breaker never reserves a probe that nobody      *)
(* runs, and two clients never share the key while leases are renewed.  The  *)
(* three share no state.                                                     *)
(***************************************************************************)
EXTENDS RateLimit, Breaker, Lease, FiniteSetTheorems, WellFoundedInduction, NaturalsInduction, TLAPS

(***************************************************************************)
(* The rate limiter                                                         *)
(***************************************************************************)
\* The constants, one by one.
LEMMA Bounds ==
    /\ max_calls \in Nat \ {0} /\ window \in Nat \ {0} /\ Tenth \in Nat \ {0}
    /\ MaxTime \in Nat /\ MaxErrors \in Nat
BY LimitAssumption

\* The limiter starts well typed.
LEMMA LimiterTypeInit == LimiterInit => LimiterTypeOK
<1> SUFFICES ASSUME LimiterInit PROVE LimiterTypeOK
    OBVIOUS
<1>1. redis \in BOOLEAN /\ skewed \in BOOLEAN /\ slipped \in BOOLEAN
    BY Zenon DEF LimiterInit
<1> QED BY <1>1, Bounds DEF LimiterInit, LimiterTypeOK, Members

\* What the fallback's check does to the variables it owns.
LEMMA CheckTypes ==
    ASSUME LimiterTypeOK, NEW c \in Calls, check(c)
    PROVE  /\ dq' \in SUBSET Members
           /\ stage' \in [Calls -> {"idle", "asked", "denied", "ran"}]
           /\ clock' \in [Calls -> 0..MaxTime]
           /\ log' \in SUBSET [call : Calls, by : {"redis", "local"}, at : 0..MaxTime]
           /\ slipped' \in BOOLEAN
<1>1. dq' \in SUBSET Members
    BY DEF check, LimiterTypeOK, Members
<1>2. slipped' \in BOOLEAN
    BY Zenon DEF check, LimiterTypeOK
<1>3. \/ LetThrough(c, "local", now)
      \/ Deny(c)
    BY Zenon DEF check
<1>4. /\ stage' \in [Calls -> {"idle", "asked", "denied", "ran"}]
      /\ clock' \in [Calls -> 0..MaxTime]
      /\ log' \in SUBSET [call : Calls, by : {"redis", "local"}, at : 0..MaxTime]
    BY <1>3, Bounds DEF LetThrough, Deny, LimiterTypeOK
<1> QED BY <1>1, <1>2, <1>4

\* Every step keeps the types.
LEMMA LimiterTypeNext == LimiterTypeOK /\ [LimiterNext]_limiterVars => LimiterTypeOK'
<1> SUFFICES ASSUME LimiterTypeOK, [LimiterNext]_limiterVars PROVE LimiterTypeOK'
    OBVIOUS
<1> USE Bounds DEF LimiterTypeOK, Members, stores, tally
<1>1. CASE UNCHANGED limiterVars
    BY <1>1 DEF limiterVars
<1>2. ASSUME NEW c \in Calls, Ask(c) \/ _is_exempt(c) PROVE LimiterTypeOK'
    BY <1>2 DEF Ask, _is_exempt
<1>3. ASSUME NEW c \in Calls, eval(c) PROVE LimiterTypeOK'
    BY <1>3 DEF eval, RedisWorks, _RL_LUA, LetThrough, Deny, Unexpired
<1>4. ASSUME NEW c \in Calls, CheckLocal(c) PROVE LimiterTypeOK'
    BY <1>4, CheckTypes DEF CheckLocal, RedisWorks
<1>5. ASSUME NEW c \in Calls, CheckFallback(c) PROVE LimiterTypeOK'
    BY <1>5, CheckTypes DEF CheckFallback, RedisFails
<1>6. ASSUME NEW m \in stray, StrayRuns(m) PROVE LimiterTypeOK'
    BY <1>6 DEF StrayRuns, _RL_LUA, Unexpired
<1>7. CASE Cleanup
    BY <1>7 DEF Cleanup
<1>8. CASE ClockTicks
    BY <1>8 DEF ClockTicks
<1> QED BY <1>1, <1>2, <1>3, <1>4, <1>5, <1>6, <1>7, <1>8 DEF LimiterNext

\* The limiter is well typed at every step.
LEMMA LimiterTyped == LimiterSpec => []LimiterTypeOK
BY LimiterTypeInit, LimiterTypeNext, PTL DEF LimiterSpec

\* Everything counted is finite, however many calls there are.
Finite == IsFiniteSet(log) /\ IsFiniteSet(zset) /\ IsFiniteSet(dq)
\* The bucket S still has every call let through in the window that ends at t.
Kept(by, S, t) ==
    \A a \in log : a.by = by /\ a.at > t - window => [call |-> a.call, at |-> a.at] \in S
\* The sorted set is never overfull, and while scripts run in order it has every
\* call that the newest of them could still count.
RedisInv ==
    /\ Cardinality(zset) <= max_calls
    /\ ~skewed => /\ Kept("redis", zset, newest)
                  /\ \A a \in log : a.by = "redis" => a.at <= newest
\* The deque spans less than a window, nothing is from the future, and every call
\* of the last window is there unless a denial was rounded away.
LocalInv ==
    /\ \A m \in dq : m.at <= now
    /\ \A m, n \in dq : m.at - n.at < window
    /\ \A a \in log : a.by = "local" => a.at <= now
    /\ ~slipped => Kept("local", dq, now)

\* Calls of a log that all have their member in a bucket are no more than it has.
LEMMA FewerLogged ==
    ASSUME LimiterTypeOK, NEW by \in {"redis", "local"}, NEW S \in SUBSET Members,
           IsFiniteSet(S), NEW L \in SUBSET log,
           \A a \in L : a.by = by /\ [call |-> a.call, at |-> a.at] \in S
    PROVE  IsFiniteSet(L) /\ Cardinality(L) <= Cardinality(S)
<1> DEFINE f == [a \in L |-> [call |-> a.call, at |-> a.at]]
<1>1. f \in Injection(L, S)
    <2>1. f \in [L -> S]
        OBVIOUS
    <2>2. ASSUME NEW a \in L, NEW b \in L, f[a] = f[b] PROVE a = b
        BY <2>2 DEF LimiterTypeOK
    <2> QED BY <2>1, <2>2 DEF Injection, IsInjective
<1> QED BY <1>1, FS_Injection

\* The calls of the deque that a check does not drop.
Recent == {m \in dq : now - m.at < window}

\* The three ends of the fallback's check: there is room and the call is recorded,
\* the wait rounds to nothing, or the call is denied.
LEMMA CheckEnds ==
    ASSUME NEW c \in Calls, check(c)
    PROVE  \/ /\ Cardinality(Recent) < max_calls /\ dq' = Recent \cup {[call |-> c, at |-> now]}
              /\ log' = log \cup {[call |-> c, by |-> "local", at |-> now]} /\ slipped' = slipped
           \/ /\ dq' = Recent /\ slipped' = TRUE
              /\ log' = log \cup {[call |-> c, by |-> "local", at |-> now]}
           \/ dq' = Recent /\ log' = log /\ slipped' = slipped
BY Zenon DEF check, Recent, LetThrough, Deny

\* Whatever the end, a check adds at most its own call.
LEMMA CheckAdds ==
    ASSUME NEW c \in Calls, check(c)
    PROVE  /\ dq' \in {Recent, Recent \cup {[call |-> c, at |-> now]}}
           /\ log' \in {log, log \cup {[call |-> c, by |-> "local", at |-> now]}}
BY CheckEnds, Zenon

\* One step adds one call at most.
LEMMA FiniteNext == LimiterTypeOK /\ Finite /\ [LimiterNext]_limiterVars => Finite'
<1> SUFFICES ASSUME LimiterTypeOK, Finite, [LimiterNext]_limiterVars PROVE Finite'
    OBVIOUS
<1>1. \A S : IsFiniteSet(S) => \A x : IsFiniteSet(S \cup {x}) /\ IsFiniteSet(S \cup {})
    BY FS_AddElement
<1>2. \A S, T : IsFiniteSet(S) /\ T \subseteq S => IsFiniteSet(T)
    BY FS_Subset
<1>3. \A at : IsFiniteSet(Unexpired(at))
    BY <1>2 DEF Finite, Unexpired
<1>4. IsFiniteSet(Recent)
    BY <1>2 DEF Finite, Recent
<1> USE DEF Finite, stores, tally
<1>5. CASE UNCHANGED limiterVars
    BY <1>5 DEF limiterVars
<1>6. ASSUME NEW c \in Calls, Ask(c) \/ _is_exempt(c) PROVE Finite'
    BY <1>6 DEF Ask, _is_exempt
<1>7. ASSUME NEW c \in Calls, eval(c) PROVE Finite'
    BY <1>1, <1>3, <1>7, ZenonT(40) DEF eval, _RL_LUA, LetThrough, Deny
<1>8. ASSUME NEW c \in Calls, CheckLocal(c) PROVE Finite'
    <2>1. check(c) /\ zset' = zset
        BY <1>8 DEF CheckLocal
    <2>2. \A x : IsFiniteSet(Recent \cup {x}) /\ IsFiniteSet(log \cup {x})
        BY <1>1, <1>4
    <2>3. /\ dq' = Recent \/ \E x : dq' = Recent \cup {x}
          /\ log' = log \/ \E x : log' = log \cup {x}
        BY <2>1, CheckAdds, Zenon
    <2>4. IsFiniteSet(dq') /\ IsFiniteSet(log')
        BY <1>4, <2>2, <2>3, Zenon
    <2> QED BY <2>1, <2>4
<1>9. ASSUME NEW c \in Calls, CheckFallback(c) PROVE Finite'
    <2>1. check(c) /\ zset' = zset
        BY <1>9 DEF CheckFallback
    <2>2. \A x : IsFiniteSet(Recent \cup {x}) /\ IsFiniteSet(log \cup {x})
        BY <1>1, <1>4
    <2>3. /\ dq' = Recent \/ \E x : dq' = Recent \cup {x}
          /\ log' = log \/ \E x : log' = log \cup {x}
        BY <2>1, CheckAdds, Zenon
    <2>4. IsFiniteSet(dq') /\ IsFiniteSet(log')
        BY <1>4, <2>2, <2>3, Zenon
    <2> QED BY <2>1, <2>4
<1>10. ASSUME NEW m \in stray, StrayRuns(m) PROVE Finite'
    BY <1>1, <1>3, <1>10 DEF StrayRuns, _RL_LUA
<1>11. CASE Cleanup
    BY <1>11, FS_EmptySet DEF Cleanup
<1>12. CASE ClockTicks
    BY <1>12 DEF ClockTicks
<1> QED BY <1>5, <1>6, <1>7, <1>8, <1>9, <1>10, <1>11, <1>12 DEF LimiterNext

\* A call that is let through at the latest time so far, with room in a bucket
\* that has kept every call of the last window.
LEMMA WindowGrows ==
    ASSUME LimiterTypeOK, Finite, NEW by \in {"redis", "local"}, NEW S \in SUBSET Members,
           NEW at \in 0..MaxTime, NEW c \in Calls, IsFiniteSet(S),
           Cardinality(S) < max_calls,
           \A a \in log : a.by = by => a.at <= at,
           Kept(by, S, at),
           log' = log \cup {[call |-> c, by |-> by, at |-> at]},
           NEW t \in 0..MaxTime, Cardinality(Within(by, t)) <= max_calls
    PROVE  Cardinality(Within(by, t)') <= max_calls
<1> DEFINE new == [call |-> c, by |-> by, at |-> at]
           L == Within(by, t)
<1>1. CASE t < at
    <2>1. Within(by, t)' = L
        BY <1>1, Bounds DEF Within, LimiterTypeOK
    <2> QED BY <2>1
<1>2. CASE t >= at
    <2>1. /\ L \in SUBSET log
          /\ \A a \in L : a.by = by /\ [call |-> a.call, at |-> a.at] \in S
        BY <1>2, Bounds DEF Within, Kept, LimiterTypeOK
    <2>2. IsFiniteSet(L) /\ Cardinality(L) <= Cardinality(S)
        <3> HIDE DEF L
        <3> QED BY <2>1, FewerLogged
    <2>3. Within(by, t)' \in SUBSET (L \cup {new})
        BY DEF Within
    <2>4. /\ IsFiniteSet(L \cup {new}) /\ Cardinality(L \cup {new}) \in Nat
          /\ Cardinality(L \cup {new}) <= Cardinality(L) + 1
        <3> HIDE DEF L, new
        <3>1. Cardinality(L) \in Nat
            BY <2>2, FS_CardinalityType
        <3>2. /\ IsFiniteSet(L \cup {new})
              /\ Cardinality(L \cup {new}) = IF new \in L THEN Cardinality(L) ELSE Cardinality(L) + 1
            BY <2>2, FS_AddElement
        <3> QED BY <3>1, <3>2
    <2>5. Cardinality(Within(by, t)') <= Cardinality(L \cup {new}) /\ Cardinality(Within(by, t)') \in Nat
        <3> HIDE DEF L, new
        <3> QED BY <2>3, <2>4, FS_Subset, FS_CardinalityType
    <2>6. Cardinality(S) \in Nat /\ Cardinality(L) \in Nat
        BY <2>2, FS_CardinalityType
    <2> HIDE DEF L, new
    <2> QED BY <2>2, <2>4, <2>5, <2>6, Bounds
<1> QED BY <1>1, <1>2, Bounds

\* Cardinalities of a set and of what the script makes of it.
LEMMA AddOne ==
    ASSUME NEW S, IsFiniteSet(S), NEW x
    PROVE  /\ Cardinality(S) \in Nat /\ Cardinality(S \cup {x}) \in Nat
           /\ IsFiniteSet(S \cup {x}) /\ Cardinality(S \cup {x}) <= Cardinality(S) + 1
<1>1. Cardinality(S) \in Nat
    BY FS_CardinalityType
<1>2. /\ IsFiniteSet(S \cup {x})
      /\ Cardinality(S \cup {x}) = IF x \in S THEN Cardinality(S) ELSE Cardinality(S) + 1
    BY FS_AddElement
<1> QED BY <1>1, <1>2

\* The script leaves room for no more than the maximum, and a script that is not
\* out of order keeps every call of the window it is asked about.
LEMMA ScriptKeeps ==
    ASSUME LimiterTypeOK, Finite, RedisInv, NEW c \in Calls, NEW at \in 0..MaxTime, _RL_LUA(c, at),
           log' = log \/ (Admits(at) /\ log' = log \cup {[call |-> c, by |-> "redis", at |-> at]})
    PROVE  RedisInv'
<1> DEFINE new == [call |-> c, at |-> at]
           S == Unexpired(at)
<1>1. S \in SUBSET zset /\ IsFiniteSet(S) /\ IsFiniteSet(zset)
    BY FS_Subset DEF Finite, Unexpired
<1>2. Cardinality(S) <= Cardinality(zset) /\ Cardinality(zset) \in Nat
    BY <1>1, FS_Subset, FS_CardinalityType
<1>3. /\ Cardinality(S) \in Nat /\ Cardinality(S \cup {new}) \in Nat
      /\ Cardinality(S \cup {new}) <= Cardinality(S) + 1
    BY <1>1, AddOne
<1>4. (Cardinality(zset) <= max_calls)'
    <2>1. CASE Admits(at)
        <3>1. zset' = S \cup {new}
            BY <2>1 DEF _RL_LUA
        <3>2. Cardinality(S) < max_calls
            BY <2>1 DEF Admits
        <3> HIDE DEF S, new
        <3> QED BY <3>1, <3>2, <1>3, Bounds
    <2>2. CASE ~Admits(at)
        <3>1. zset' = S
            BY <2>2 DEF _RL_LUA
        <3> HIDE DEF S
        <3> QED BY <3>1, <1>2, <1>3, Bounds DEF RedisInv
    <2> QED BY <2>1, <2>2
<1>5. ASSUME ~skewed'
      PROVE  (Kept("redis", zset, newest) /\ \A a \in log : a.by = "redis" => a.at <= newest)'
    <2>1. ~skewed /\ ~(at < newest)
        BY <1>5, Zenon DEF _RL_LUA
    <2>2. newest' = at /\ at >= newest /\ newest \in 0..MaxTime
        BY <2>1 DEF _RL_LUA, LimiterTypeOK
    <2>3. ASSUME NEW a \in log, a.by = "redis", a.at > at - window
          PROVE  [call |-> a.call, at |-> a.at] \in zset'
        <3>1. a.at \in 0..MaxTime
            BY DEF LimiterTypeOK
        <3>2. [call |-> a.call, at |-> a.at] \in zset
            BY <2>1, <2>2, <2>3, <3>1, Bounds DEF RedisInv, Kept
        <3> QED BY <3>2, <2>3 DEF _RL_LUA, Unexpired
    <2>4. ASSUME NEW a \in log, a.by = "redis" PROVE a.at <= at
        BY <2>1, <2>2, <2>4 DEF RedisInv, LimiterTypeOK
    <2>5. Admits(at) => new \in zset'
        BY DEF _RL_LUA
    <2>6. ASSUME NEW a \in log', a.by = "redis"
          PROVE  /\ a.at <= newest'
                 /\ a.at > newest' - window => [call |-> a.call, at |-> a.at] \in zset'
        <3>1. CASE a \in log
            BY <2>2, <2>3, <2>4, <2>6, <3>1
        <3>2. CASE a \notin log
            <4>1. Admits(at) /\ a = [call |-> c, by |-> "redis", at |-> at]
                BY <2>6, <3>2
            <4> QED BY <4>1, <2>2, <2>5
        <3> QED BY <3>1, <3>2
    <2> QED BY <2>6 DEF Kept
<1> QED BY <1>4, <1>5 DEF RedisInv

\* The deque spans less than a window, so a bucket whose oldest call is two
\* windows old has none that still counts.
LEMMA CheckKeeps ==
    ASSUME LimiterTypeOK, LocalInv, NEW c \in Calls, check(c), now' = now
    PROVE  LocalInv'
<1>1. /\ dq \in SUBSET Members /\ now \in 0..MaxTime
      /\ \A a \in log : a.at \in 0..MaxTime
    BY DEF LimiterTypeOK
<1>2. dq' \in {Recent, Recent \cup {[call |-> c, at |-> now]}}
    BY CheckAdds
<1>3. log' \in {log, log \cup {[call |-> c, by |-> "local", at |-> now]}}
    BY CheckAdds
<1>4. (/\ \A m \in dq : m.at <= now
       /\ \A m, n \in dq : m.at - n.at < window)'
    <2>1. \A m \in dq : m.at \in 0..MaxTime
        BY <1>1 DEF Members
    <2>2. \A m, n \in Recent : m.at - n.at < window
        BY DEF Recent, LocalInv
    <2>3. \A m \in Recent : m.at \in 0..MaxTime /\ now - m.at < window /\ m.at - now < window
        BY <1>1, <2>1, Bounds DEF Recent, LimiterTypeOK, LocalInv
    <2>4. \A m \in dq' : m \in Recent \/ m = [call |-> c, at |-> now]
        BY <1>2
    <2>5. ASSUME NEW m \in dq' PROVE m.at <= now
        BY <1>1, <2>1, <2>4 DEF LocalInv, Recent
    <2>6. ASSUME NEW m \in dq', NEW n \in dq' PROVE m.at - n.at < window
        <3>1. CASE m \in Recent /\ n \in Recent
            BY <2>2, <3>1
        <3>2. CASE m \in Recent /\ n \notin Recent
            BY <1>1, <2>3, <2>4, <3>2
        <3>3. CASE m \notin Recent /\ n \in Recent
            BY <1>1, <2>3, <2>4, <3>3
        <3>4. CASE m \notin Recent /\ n \notin Recent
            BY <1>1, <2>4, <3>4, Bounds
        <3> QED BY <3>1, <3>2, <3>3, <3>4
    <2> QED BY <2>5, <2>6
<1>5. (\A a \in log : a.by = "local" => a.at <= now)'
    BY <1>1, <1>3 DEF LocalInv
<1>6. ASSUME ~slipped' PROVE Kept("local", dq, now)'
    <2>1. /\ ~slipped
          /\ log' = log \/ /\ dq' = Recent \cup {[call |-> c, at |-> now]}
                           /\ log' = log \cup {[call |-> c, by |-> "local", at |-> now]}
        BY <1>6, CheckEnds, Zenon
    <2>2. ASSUME NEW a \in log, a.by = "local", a.at > now - window
          PROVE  [call |-> a.call, at |-> a.at] \in Recent
        <3>1. [call |-> a.call, at |-> a.at] \in dq
            BY <2>1, <2>2 DEF LocalInv, Kept
        <3> QED BY <1>1, <2>2, <3>1, Bounds DEF Recent
    <2>3. ASSUME NEW a \in log', a.by = "local", a.at > now - window
          PROVE  [call |-> a.call, at |-> a.at] \in dq'
        BY <1>2, <2>1, <2>2, <2>3
    <2> QED BY <2>3 DEF Kept
<1> QED BY <1>4, <1>5, <1>6 DEF LocalInv

\* Nothing but a check touches the deque, except to drop all of it.
LEMMA LocalNext == LimiterTypeOK /\ LocalInv /\ [LimiterNext]_limiterVars => LocalInv'
<1> SUFFICES ASSUME LimiterTypeOK, LocalInv, [LimiterNext]_limiterVars PROVE LocalInv'
    OBVIOUS
<1> USE DEF stores, tally
<1>1. CASE UNCHANGED limiterVars
    BY <1>1 DEF limiterVars, LocalInv, Kept
<1>2. ASSUME NEW c \in Calls, Ask(c) \/ _is_exempt(c) PROVE LocalInv'
    BY <1>2 DEF Ask, _is_exempt, LocalInv, Kept
<1>3. ASSUME NEW c \in Calls, eval(c) PROVE LocalInv'
    <2>1. /\ UNCHANGED <<now, dq, slipped>>
          /\ log' \in {log, log \cup {[call |-> c, by |-> "redis", at |-> clock[c]]}}
        BY <1>3 DEF eval, LetThrough, Deny
    <2>2. \A a \in log' : a.by = "local" => a \in log
        BY <2>1
    <2> QED BY <2>1, <2>2 DEF LocalInv, Kept
<1>4. ASSUME NEW c \in Calls, CheckLocal(c) \/ CheckFallback(c) PROVE LocalInv'
    BY <1>4, CheckKeeps DEF CheckLocal, CheckFallback
<1>5. ASSUME NEW m \in stray, StrayRuns(m) PROVE LocalInv'
    BY <1>5 DEF StrayRuns, LocalInv, Kept
<1>6. CASE Cleanup
    <2>1. PICK m \in dq : m.at <= now - 2 * window
        BY <1>6 DEF Cleanup
    <2>2. /\ dq' = {} /\ UNCHANGED <<now, log, slipped>>
        BY <1>6 DEF Cleanup
    <2>3. now \in 0..MaxTime /\ m.at \in 0..MaxTime
        BY DEF LimiterTypeOK, Members
    <2>4. ASSUME ~slipped, NEW a \in log, a.by = "local", a.at > now - window PROVE FALSE
        <3>1. [call |-> a.call, at |-> a.at] \in dq /\ a.at \in 0..MaxTime
            BY <2>4 DEF LocalInv, Kept, LimiterTypeOK
        <3>2. a.at - m.at < window
            BY <3>1 DEF LocalInv
        <3> QED BY <2>1, <2>3, <2>4, <3>1, <3>2, Bounds
    <2> QED BY <2>2, <2>4 DEF LocalInv, Kept
<1>7. CASE ClockTicks
    <2>1. now' = now + 1 /\ now \in 0..MaxTime /\ UNCHANGED <<dq, log, slipped>>
        BY <1>7 DEF ClockTicks, LimiterTypeOK
    <2>2. (\A m \in dq : m.at \in 0..MaxTime) /\ (\A a \in log : a.at \in 0..MaxTime)
        BY DEF LimiterTypeOK, Members
    <2> QED BY <2>1, <2>2, Bounds DEF LocalInv, Kept
<1> QED BY <1>1, <1>2, <1>3, <1>4, <1>5, <1>6, <1>7 DEF LimiterNext

\* The sorted set is the script's alone.
LEMMA RedisNext == LimiterTypeOK /\ Finite /\ RedisInv /\ [LimiterNext]_limiterVars => RedisInv'
<1> SUFFICES ASSUME LimiterTypeOK, Finite, RedisInv, [LimiterNext]_limiterVars PROVE RedisInv'
    OBVIOUS
<1> USE DEF stores, tally
<1>1. CASE UNCHANGED <<zset, newest, skewed, log>>
    BY <1>1 DEF RedisInv, Kept
<1>2. CASE UNCHANGED limiterVars
    BY <1>1, <1>2 DEF limiterVars
<1>3. ASSUME NEW c \in Calls, Ask(c) \/ _is_exempt(c) PROVE RedisInv'
    BY <1>1, <1>3 DEF Ask, _is_exempt
<1>4. ASSUME NEW c \in Calls, eval(c) PROVE RedisInv'
    <2>1. /\ clock[c] \in 0..MaxTime /\ _RL_LUA(c, clock[c])
          /\ \/ log' = log
             \/ Admits(clock[c]) /\ log' = log \cup {[call |-> c, by |-> "redis", at |-> clock[c]]}
        BY <1>4 DEF eval, LetThrough, Deny, LimiterTypeOK
    <2> QED BY <2>1, ScriptKeeps
<1>5. ASSUME NEW c \in Calls, CheckLocal(c) \/ CheckFallback(c) PROVE RedisInv'
    <2>1. check(c) /\ UNCHANGED <<zset, newest, skewed>>
        BY <1>5 DEF CheckLocal, CheckFallback
    <2>2. \A a \in log' : a.by = "redis" => a \in log
        BY <2>1, CheckAdds
    <2> QED BY <2>1, <2>2 DEF RedisInv, Kept
<1>6. ASSUME NEW m \in stray, StrayRuns(m) PROVE RedisInv'
    <2>1. m.call \in Calls /\ m.at \in 0..MaxTime /\ _RL_LUA(m.call, m.at) /\ log' = log
        BY <1>6 DEF StrayRuns, LimiterTypeOK, Members
    <2> QED BY <2>1, ScriptKeeps
<1>7. CASE Cleanup \/ ClockTicks
    BY <1>1, <1>7 DEF Cleanup, ClockTicks
<1> QED BY <1>2, <1>3, <1>4, <1>5, <1>6, <1>7 DEF LimiterNext

\* The bound on one backend's windows.
Held(by) == \A t \in 0..MaxTime : Cardinality(Within(by, t)) <= max_calls

\* A step that lets nobody through that backend changes none of its windows.
LEMMA SameWindows ==
    ASSUME NEW by \in {"redis", "local"}, Held(by),
           \A a \in log' : a.by = by => a \in log, log \subseteq log'
    PROVE  Held(by)'
<1>1. \A t : Within(by, t)' = Within(by, t)
    BY DEF Within
<1> QED BY <1>1 DEF Held

\* The script lets a call through only into a window that it has kept whole.
LEMMA RedisHeld ==
    ASSUME LimiterTypeOK, Finite, RedisInv, [LimiterNext]_limiterVars, skewed \/ Held("redis")
    PROVE  (skewed \/ Held("redis"))'
<1> USE DEF stores, tally
<1>1. ASSUME skewed => skewed', \A a \in log' : a.by = "redis" => a \in log, log \subseteq log'
      PROVE  (skewed \/ Held("redis"))'
    BY <1>1, SameWindows
<1>2. CASE UNCHANGED <<skewed, log>>
    BY <1>1, <1>2
<1>3. CASE UNCHANGED limiterVars
    BY <1>2, <1>3 DEF limiterVars
<1>4. ASSUME NEW c \in Calls, Ask(c) \/ _is_exempt(c) PROVE (skewed \/ Held("redis"))'
    BY <1>2, <1>4 DEF Ask, _is_exempt
<1>5. ASSUME NEW c \in Calls, eval(c), ~skewed' PROVE Held("redis")'
    <2> DEFINE at == clock[c]
    <2>1. _RL_LUA(c, at) /\ at \in 0..MaxTime
        BY <1>5 DEF eval, LimiterTypeOK
    <2>2. ~skewed /\ ~(at < newest)
        BY <1>5, <2>1, Zenon DEF _RL_LUA
    <2>3. Held("redis")
        BY <2>2
    <2>4. at >= newest /\ newest \in 0..MaxTime
        BY <2>1, <2>2 DEF LimiterTypeOK
    <2>5. CASE ~Admits(at)
        <3>1. log' = log
            BY <1>5, <2>5 DEF eval, Deny
        <3> QED BY <2>3, <3>1, SameWindows
    <2>6. CASE Admits(at)
        <3>1. log' = log \cup {[call |-> c, by |-> "redis", at |-> at]}
            BY <1>5, <2>6 DEF eval, LetThrough
        <3>2. /\ Unexpired(at) \in SUBSET Members /\ IsFiniteSet(Unexpired(at))
              /\ Cardinality(Unexpired(at)) < max_calls
            BY <2>6, FS_Subset DEF Admits, Unexpired, Finite, LimiterTypeOK
        <3>3. \A a \in log : a.by = "redis" => a.at <= at
            BY <2>2, <2>4, <2>1 DEF RedisInv, LimiterTypeOK
        <3>4. Kept("redis", Unexpired(at), at)
            <4>1. ASSUME NEW a \in log, a.by = "redis", a.at > at - window
                  PROVE  [call |-> a.call, at |-> a.at] \in Unexpired(at)
                <5>1. a.at \in 0..MaxTime
                    BY DEF LimiterTypeOK
                <5>2. [call |-> a.call, at |-> a.at] \in zset
                    BY <2>1, <2>2, <2>4, <4>1, <5>1, Bounds DEF RedisInv, Kept
                <5> QED BY <4>1, <5>2 DEF Unexpired
            <4> QED BY <4>1 DEF Kept
        <3> HIDE DEF at
        <3>5. ASSUME NEW t \in 0..MaxTime PROVE Cardinality(Within("redis", t)') <= max_calls
            <4>1. Cardinality(Within("redis", t)) <= max_calls
                BY <2>3 DEF Held
            <4> QED BY <2>1, <3>1, <3>2, <3>3, <3>4, <4>1, WindowGrows
        <3> QED BY <3>5 DEF Held
    <2> QED BY <2>5, <2>6
<1>6. ASSUME NEW c \in Calls, CheckLocal(c) \/ CheckFallback(c) PROVE (skewed \/ Held("redis"))'
    <2>1. check(c) /\ skewed' = skewed
        BY <1>6 DEF CheckLocal, CheckFallback
    <2>2. (\A a \in log' : a.by = "redis" => a \in log) /\ log \subseteq log'
        BY <2>1, CheckAdds
    <2> QED BY <1>1, <2>1, <2>2
<1>7. ASSUME NEW m \in stray, StrayRuns(m) PROVE (skewed \/ Held("redis"))'
    <2>1. log' = log
        BY <1>7 DEF StrayRuns
    <2>2. skewed => skewed'
        BY <1>7, Zenon DEF StrayRuns, _RL_LUA
    <2> QED BY <1>1, <2>1, <2>2
<1>8. CASE Cleanup \/ ClockTicks
    BY <1>2, <1>8 DEF Cleanup, ClockTicks
<1> QED BY <1>3, <1>4, <1>5, <1>6, <1>7, <1>8 DEF LimiterNext

\* So does the deque, unless a denial rounds to no wait.
LEMMA LocalHeld ==
    ASSUME LimiterTypeOK, Finite, LocalInv, [LimiterNext]_limiterVars, slipped \/ Held("local")
    PROVE  (slipped \/ Held("local"))'
<1> USE DEF stores, tally
<1>1. ASSUME slipped' = slipped, \A a \in log' : a.by = "local" => a \in log, log \subseteq log'
      PROVE  (slipped \/ Held("local"))'
    BY <1>1, SameWindows
<1>2. CASE UNCHANGED <<slipped, log>>
    BY <1>1, <1>2
<1>3. CASE UNCHANGED limiterVars
    BY <1>2, <1>3 DEF limiterVars
<1>4. ASSUME NEW c \in Calls, Ask(c) \/ _is_exempt(c) PROVE (slipped \/ Held("local"))'
    BY <1>2, <1>4 DEF Ask, _is_exempt
<1>5. ASSUME NEW c \in Calls, eval(c) PROVE (slipped \/ Held("local"))'
    <2>1. /\ slipped' = slipped
          /\ log' \in {log, log \cup {[call |-> c, by |-> "redis", at |-> clock[c]]}}
        BY <1>5 DEF eval, LetThrough, Deny
    <2>2. (\A a \in log' : a.by = "local" => a \in log) /\ log \subseteq log'
        BY <2>1
    <2> QED BY <1>1, <2>1, <2>2
<1>6. ASSUME NEW c \in Calls, check(c), ~slipped' PROVE Held("local")'
    <2>1. CASE log' = log /\ slipped' = slipped
        BY <1>2, <1>6, <2>1
    <2>2. CASE /\ Cardinality(Recent) < max_calls /\ slipped' = slipped
               /\ log' = log \cup {[call |-> c, by |-> "local", at |-> now]}
        <3>1. /\ Recent \in SUBSET Members /\ IsFiniteSet(Recent) /\ now \in 0..MaxTime
            BY FS_Subset DEF Recent, Finite, LimiterTypeOK
        <3>2. ~slipped /\ Held("local")
            BY <1>6, <2>2
        <3>3. \A a \in log : a.by = "local" => a.at <= now
            BY DEF LocalInv
        <3>4. Kept("local", Recent, now)
            <4>1. ASSUME NEW a \in log, a.by = "local", a.at > now - window
                  PROVE  [call |-> a.call, at |-> a.at] \in Recent
                <5>1. [call |-> a.call, at |-> a.at] \in dq /\ a.at \in 0..MaxTime
                    BY <3>2, <4>1 DEF LocalInv, Kept, LimiterTypeOK
                <5> QED BY <3>1, <4>1, <5>1, Bounds DEF Recent
            <4> QED BY <4>1 DEF Kept
        <3>5. ASSUME NEW t \in 0..MaxTime PROVE Cardinality(Within("local", t)') <= max_calls
            <4>1. Cardinality(Within("local", t)) <= max_calls
                BY <3>2 DEF Held
            <4> QED BY <2>2, <3>1, <3>3, <3>4, <4>1, WindowGrows
        <3> QED BY <3>5 DEF Held
    <2>3. CASE slipped' = TRUE
        BY <1>6, <2>3
    <2> QED BY <1>6, <2>1, <2>2, <2>3, CheckEnds
<1>7. ASSUME NEW c \in Calls, CheckLocal(c) \/ CheckFallback(c) PROVE (slipped \/ Held("local"))'
    BY <1>6, <1>7 DEF CheckLocal, CheckFallback
<1>8. ASSUME NEW m \in stray, StrayRuns(m) PROVE (slipped \/ Held("local"))'
    BY <1>2, <1>8 DEF StrayRuns
<1>9. CASE Cleanup \/ ClockTicks
    BY <1>2, <1>9 DEF Cleanup, ClockTicks
<1> QED BY <1>3, <1>4, <1>5, <1>7, <1>8, <1>9 DEF LimiterNext

\* What the limiter keeps: the invariants of both backends and the bound itself.
BucketsInv ==
    /\ LimiterTypeOK /\ Finite /\ RedisInv /\ LocalInv
    /\ skewed \/ Held("redis")
    /\ slipped \/ Held("local")

\* Nobody has been let through at the start.
LEMMA BucketsInit == LimiterInit => BucketsInv
<1> SUFFICES ASSUME LimiterInit PROVE BucketsInv
    OBVIOUS
<1>1. log = {} /\ zset = {} /\ dq = {}
    BY DEF LimiterInit
<1>2. IsFiniteSet({}) /\ Cardinality({}) = 0
    BY FS_EmptySet
<1>3. \A by, t : Within(by, t) = {}
    BY <1>1 DEF Within
<1>4. Finite
    BY <1>1, <1>2 DEF Finite
<1>5. RedisInv /\ LocalInv
    BY <1>1, <1>2, Bounds DEF RedisInv, LocalInv, Kept
<1>6. Held("redis") /\ Held("local")
    BY <1>2, <1>3, Bounds DEF Held
<1> QED BY <1>4, <1>5, <1>6, LimiterTypeInit DEF BucketsInv

\* One step of the limiter keeps its invariant.
LEMMA BucketsNext == BucketsInv /\ [LimiterNext]_limiterVars => BucketsInv'
BY LimiterTypeNext, FiniteNext, RedisNext, LocalNext, RedisHeld, LocalHeld DEF BucketsInv

\* For any number of calls, clock and failures: no window of either backend sees
\* more calls than the maximum, save after a script that ran out of order or a
\* denial that was rounded away (_RL_LUA, _RateLimiter.check).
THEOREM WindowAlwaysHolds == LimiterSpec => []WindowHolds
<1>1. BucketsInv => WindowHolds
    BY DEF BucketsInv, Held, WindowHolds
<1> QED BY BucketsInit, BucketsNext, <1>1, PTL DEF LimiterSpec

\* A bucket with calls in it has an oldest one.
LEMMA OldestExists ==
    ASSUME NEW S \in SUBSET Members, S # {}
    PROVE  Oldest(S) \in S /\ \A n \in S : Oldest(S).at <= n.at
<1> DEFINE Times == {m.at : m \in S}
           Less == {p \in Nat \X Nat : p[1] < p[2]}
<1>1. IsWellFoundedOn(Less, Nat)
    BY NatLessThanWellFounded DEF OpToRel
<1>2. Times \subseteq Nat /\ Times # {}
    BY DEF Members
<1>3. PICK x \in Times : \A y \in Times : <<y, x>> \notin Less
    <2> HIDE DEF Times, Less
    <2> QED BY <1>1, <1>2, WFMin
<1>4. \A y \in Times : x <= y
    <2> TAKE y \in Times
    <2>1. x \in Nat /\ y \in Nat
        BY <1>2
    <2>2. ~(y < x)
        <3> HIDE DEF Times
        <3> QED BY <1>3, <2>1
    <2> HIDE DEF Times, Less
    <2> QED BY <2>1, <2>2
<1>5. \E m \in S : \A n \in S : m.at <= n.at
    BY <1>3, <1>4
<1> QED BY <1>5 DEF Oldest

\* Rounding up to tenths never shortens a wait.
LEMMA RoundedUp ==
    ASSUME NEW w \in Int
    PROVE  ((w + Tenth - 1) \div Tenth) * Tenth >= w /\ ((w + Tenth - 1) \div Tenth) * Tenth \in Int
BY Bounds

\* The oldest of the calls that filled the bucket is gone once the wait is over.
LEMMA OldestGoes ==
    ASSUME LimiterTypeOK, Finite, RedisInv, NEW at \in 0..MaxTime, ~Admits(at)
    PROVE  Cardinality({m \in Unexpired(at) : m.at > at + Wait(at) - window}) < max_calls
<1> DEFINE U == Unexpired(at)
           o == Oldest(U)
           Rest == {m \in U : m.at > at + Wait(at) - window}
<1>1. U \in SUBSET zset /\ zset \in SUBSET Members /\ IsFiniteSet(zset)
    BY DEF Unexpired, LimiterTypeOK, Finite
<1>2. /\ IsFiniteSet(U) /\ Cardinality(U) <= Cardinality(zset)
      /\ Cardinality(U) \in Nat /\ Cardinality(zset) \in Nat
    <2> HIDE DEF U
    <2> QED BY <1>1, FS_Subset, FS_CardinalityType
<1>3. U # {}
    <2>1. ~(Cardinality(U) < max_calls)
        BY DEF Admits
    <2> HIDE DEF U
    <2> QED BY <1>2, <2>1, FS_EmptySet, Bounds
<1>4. o \in U /\ o.at \in 0..MaxTime
    <2>1. o \in U
        <3> HIDE DEF U
        <3> QED BY <1>1, <1>3, OldestExists
    <2> HIDE DEF o, U
    <2> QED BY <1>1, <2>1 DEF Members
<1>5. o \notin Rest
    <2>1. Left(at) = window - (at - o.at)
        BY DEF Left
    <2>2. Left(at) \in Int
        <3> HIDE DEF o
        <3> QED BY <1>4, <2>1, Bounds
    <2>3. Wait(at) >= Left(at) /\ Wait(at) \in Int
        BY <2>2, RoundedUp DEF Wait
    <2> HIDE DEF o, U
    <2> QED BY <1>4, <2>1, <2>2, <2>3, Bounds
<1>6. Rest \subseteq U \ {o}
    <2> HIDE DEF o, U
    <2> QED BY <1>5
<1>7. Cardinality(Rest) <= Cardinality(U \ {o}) /\ IsFiniteSet(U \ {o}) /\ Cardinality(Rest) \in Nat
    <2> HIDE DEF o, U, Rest
    <2>1. IsFiniteSet(U \ {o})
        BY <1>2, FS_Subset
    <2> QED BY <1>6, <2>1, FS_Subset, FS_CardinalityType
<1>8. Cardinality(U \ {o}) = Cardinality(U) - 1
    <2> HIDE DEF o, U
    <2> QED BY <1>2, <1>4, FS_RemoveElement
<1>9. Cardinality(zset) <= max_calls
    BY DEF RedisInv
<1>10. Cardinality(Rest) < max_calls
    <2> HIDE DEF o, U, Rest
    <2> QED BY <1>2, <1>7, <1>8, <1>9, Bounds
<1> QED BY <1>10

\* Only a Redis check denies a call without a failure of Redis.
LEMMA DenialIsRedis ==
    ASSUME LimiterTypeOK, [LimiterNext]_limiterVars, NEW c \in Calls, stage[c] = "asked", stage'[c] = "denied", redis,
           errors' = errors
    PROVE  eval(c) /\ ~Admits(clock[c])
<1> USE DEF LimiterTypeOK, stores, tally
<1>1. CASE UNCHANGED limiterVars
    BY <1>1 DEF limiterVars
<1>2. ASSUME NEW d \in Calls, Ask(d) \/ _is_exempt(d) PROVE FALSE
    BY <1>2 DEF Ask, _is_exempt
<1>3. ASSUME NEW d \in Calls, eval(d) PROVE eval(c) /\ ~Admits(clock[c])
    <2>1. d = c
        BY <1>3 DEF eval, LetThrough, Deny
    <2>2. ~Admits(clock[c])
        BY <1>3, <2>1 DEF eval, LetThrough
    <2> QED BY <1>3, <2>1, <2>2
<1>4. ASSUME NEW d \in Calls, CheckLocal(d) \/ CheckFallback(d) PROVE FALSE
    BY <1>4, Bounds DEF CheckLocal, CheckFallback, RedisFails
<1>5. ASSUME NEW m \in stray, StrayRuns(m) PROVE FALSE
    BY <1>5 DEF StrayRuns
<1>6. CASE Cleanup \/ ClockTicks
    BY <1>6 DEF Cleanup, ClockTicks
<1> QED BY <1>1, <1>2, <1>3, <1>4, <1>5, <1>6 DEF LimiterNext

\* For any maximum, window and resolution of the clock: the wait that a Redis
\* denial announces is never too short (_RL_LUA's ceil).
THEOREM WaitAlwaysEnough == LimiterSpec => WaitIsEnough
<1> DEFINE Enough(c) ==
        (stage[c] = "asked" /\ stage'[c] = "denied" /\ redis /\ errors' = errors)
        => Cardinality({m \in zset' : m.at > clock[c] + Wait(clock[c]) - window}) < max_calls
<1>1. ASSUME BucketsInv, [LimiterNext]_limiterVars, NEW c \in Calls PROVE Enough(c)
    <2> SUFFICES ASSUME stage[c] = "asked", stage'[c] = "denied", redis, errors' = errors
                 PROVE  Cardinality({m \in zset' : m.at > clock[c] + Wait(clock[c]) - window}) < max_calls
        OBVIOUS
    <2>1. eval(c) /\ ~Admits(clock[c]) /\ clock[c] \in 0..MaxTime
        BY <1>1, DenialIsRedis DEF BucketsInv, LimiterTypeOK
    <2>2. zset' = Unexpired(clock[c])
        BY <2>1 DEF eval, _RL_LUA
    <2> QED BY <1>1, <2>1, <2>2, OldestGoes DEF BucketsInv
<1>2. BucketsInv /\ [LimiterNext]_limiterVars => [\A c \in Calls : Enough(c)]_limiterVars
    BY <1>1
<1> QED BY BucketsInit, BucketsNext, <1>2, PTL DEF LimiterSpec, WaitIsEnough

(***************************************************************************)
(* The circuit breaker                                                      *)
(***************************************************************************)


\* ProbeHasAnOwner needs only that born has an entry for every call.
CircuitInv ==
    /\ flight \subseteq Coroutines
    /\ born \in [Coroutines -> {"closed", "open", "half_open"}]
    /\ state \in {"closed", "open", "half_open"}
    /\ ProbeHasAnOwner

\* Nothing is reserved at the start.
LEMMA CircuitInit == BreakerInit => CircuitInv
BY DEF BreakerInit, CircuitInv, ProbeHasAnOwner

\* However a call ends it gives up the probe, its own or another's.
LEMMA ReturnReleases ==
    ASSUME NEW c \in Coroutines, CircuitInv, Return(c)
    PROVE  ~probe' /\ flight' \subseteq Coroutines
           /\ born' \in [Coroutines -> {"closed", "open", "half_open"}]
           /\ state' \in {"closed", "open", "half_open"}
<1>1. flight' \subseteq Coroutines /\ born' \in [Coroutines -> {"closed", "open", "half_open"}]
  BY DEF Return, Succeed, Fail, Reject, Refuse, Cancel, Ends, CircuitInv
<1>2. ~probe'
  BY DEF Return, Succeed, Fail, Reject, Refuse, Cancel, _record_success, _record_failure,
         release_probe, _release_probe
<1>3. state' \in {"closed", "open", "half_open"}
  BY DEF Return, Succeed, Fail, Reject, Refuse, Cancel, _record_success, _record_failure,
         release_probe, CircuitInv
<1> QED
  BY <1>1, <1>2, <1>3

\* A call that reserves the probe is in flight and was born half-open; any
\* other call leaves the owner of a reserved probe where it is.
LEMMA CallKeepsCircuit ==
    ASSUME NEW c \in Coroutines, CircuitInv, Call(c)
    PROVE  CircuitInv'
<1>1. /\ flight' = flight \cup {c} /\ born' = [born EXCEPT ![c] = Seen] /\ c \notin flight
      /\ state' = Seen /\ probe' = (probe \/ (Seen = "half_open" /\ Admitted))
  BY DEF Call, try_acquire
<1>2. Seen \in {"closed", "open", "half_open"}
  BY DEF CircuitInv, Seen
<1>3. flight' \subseteq Coroutines /\ born' \in [Coroutines -> {"closed", "open", "half_open"}]
  BY <1>1, <1>2 DEF CircuitInv
<1>4. ASSUME probe' PROVE \E d \in flight' : born'[d] = "half_open"
  <2>1. CASE Seen = "half_open"
    BY <1>1, <2>1 DEF CircuitInv
  <2>2. CASE Seen # "half_open"
    <3>1. PICK d \in flight : born[d] = "half_open"
      BY <1>1, <1>4, <2>2 DEF CircuitInv, ProbeHasAnOwner
    <3>2. d # c /\ d \in flight' /\ born'[d] = "half_open"
      BY <1>1, <3>1 DEF CircuitInv
    <3> QED
      BY <3>2
  <2> QED
    BY <2>1, <2>2
<1> QED
  BY <1>1, <1>2, <1>3, <1>4 DEF CircuitInv, ProbeHasAnOwner

\* One step of the breaker keeps the invariant.
LEMMA CircuitNext == CircuitInv /\ [BreakerNext]_breakerVars => CircuitInv'
<1> SUFFICES ASSUME CircuitInv, [BreakerNext]_breakerVars PROVE CircuitInv'
  OBVIOUS
<1>1. ASSUME NEW c \in Coroutines, Call(c) PROVE CircuitInv'
  BY <1>1, CallKeepsCircuit
<1>2. ASSUME NEW c \in Coroutines, Skip(c) PROVE CircuitInv'
  BY <1>2 DEF Skip, try_acquire, Seen, Admitted, CircuitInv, ProbeHasAnOwner
<1>3. ASSUME NEW c \in Coroutines, Return(c) PROVE CircuitInv'
  BY <1>3, ReturnReleases DEF CircuitInv, ProbeHasAnOwner
<1>4. CASE Timeout
  BY <1>4 DEF Timeout, CircuitInv, ProbeHasAnOwner
<1>5. CASE Down \/ Up
  BY <1>5 DEF Down, Up, circuit, CircuitInv, ProbeHasAnOwner
<1>6. CASE UNCHANGED breakerVars
  BY <1>6 DEF breakerVars, CircuitInv, ProbeHasAnOwner
<1> QED
  BY <1>1, <1>2, <1>3, <1>4, <1>5, <1>6 DEF BreakerNext

\* No end of a call, cancellation included, leaves the circuit reserved for a
\* probe that nobody runs (CircuitBreaker.call, fan_out).
THEOREM ProbeAlwaysOwned == BreakerSpec => []ProbeHasAnOwner
<1>1. CircuitInv => ProbeHasAnOwner
  BY DEF CircuitInv
<1> QED
  BY CircuitInit, CircuitNext, <1>1, PTL DEF BreakerSpec

(***************************************************************************)
(* The lease of the auth key                                                *)
(***************************************************************************)

\* The types the arguments need.
Shape ==
    /\ lease \in [owner : Nat, left : Int] /\ pc \in [Instances -> Points]
    /\ owner \in [Instances -> Nat] /\ timer \in [Instances -> Nat]
    /\ conn \subseteq Instances /\ boots \in Nat

\* Owner ids are fresh: the row and the instances only hold ids drawn so far,
\* and no two instances the same one.
Fresh ==
    /\ lease.owner <= boots
    /\ \A p \in Instances : owner[p] <= boots
    /\ \A p, q \in Instances : owner[p] = owner[q] /\ owner[p] # 0 => p = q
    /\ \A p \in Instances : pc[p] \in {"take", "first"} => owner[p] # 0

\* A client runs only between the connect and the end of its process.
Placed == \A p \in Instances : pc[p] \in {"down", "take", "first"} => p \notin conn

\* Without one of the three accidents, whoever is or may get connected holds a
\* lease that has not run out.
Covered ==
    lapsed \/ early \/ unwritten \/
    \A p \in Instances : p \in conn \/ pc[p] = "connect" => Holds(p) /\ lease.left >= 0

LeaseInv == Shape /\ Fresh /\ Placed /\ Covered

\* A write either leaves a live lease, or none of its own, or is noted.
LEMMA LateWrite ==
    ASSUME WrittenLate
    PROVE  lapsed' <=> lapsed \/ (lease' # lease /\ lease'.left < 0)
BY DEF WrittenLate

\* The clock under a client whose lease is at its end is noted too.
LEMMA Lapse ==
    ASSUME Tick
    PROVE  lapsed' <=> lapsed \/ \E p \in Instances :
                       (p \in conn \/ pc[p] = "connect") /\ Holds(p) /\ lease.left = 0
BY DEF Tick, RunsOut

LEMMA LeaseInit == Init => LeaseInv
<1> SUFFICES ASSUME Init PROVE LeaseInv
    OBVIOUS
<1>1. lease.owner = 0 /\ lease.left = 0 /\ lease \in [owner : Nat, left : Int]
    BY DEF Init, NoLease
<1>2. Shape /\ Fresh /\ Placed /\ Covered
    BY <1>1 DEF Init, Shape, Fresh, Placed, Covered, Points
<1> QED BY <1>2 DEF LeaseInv

LEMMA LeaseStep ==
    ASSUME LeaseInv, NEW p \in Instances,
           start(p) \/ Connects(p) \/ Step(p) \/ stop(p) \/ Crash(p)
    PROVE  LeaseInv'
<1> USE LeaseAssumption DEF LeaseInv, Shape, Goto, Works, Fault, history
<1>1. CASE start(p)
    <2> USE <1>1 DEF start
    <2>1. Shape'
        BY DEF Points
    <2>2. Fresh'
        BY DEF Fresh
    <2>3. Placed'
        BY DEF Placed
    <2>4. Covered'
        BY DEF Fresh, Placed, Covered, Holds
    <2> QED BY <2>1, <2>2, <2>3, <2>4
<1>2. CASE claim_owner(p)
    <2> USE <1>2 DEF claim_owner, StartFrame, Claimed, Expired
    <2>1. Shape'
        BY DEF Points
    <2>2. Fresh'
        BY DEF Fresh
    <2>3. Placed'
        BY DEF Placed
    <2>4. Covered'
        BY LateWrite DEF Fresh, Placed, Covered, Holds
    <2> QED BY <2>1, <2>2, <2>3, <2>4
<1>3. CASE FirstClaim(p)
    <2> USE <1>3 DEF FirstClaim, StartFrame, Claimed
    <2>1. Shape'
        BY DEF Points
    <2>2. Fresh'
        BY DEF Fresh
    <2>3. Placed'
        BY DEF Placed
    <2>4. Covered'
        <3>1. (unwritten => unwritten') /\ (lapsed => lapsed') /\ early' = early
            <4>1. unwritten => unwritten'
                BY Zenon
            <4> QED BY <4>1, LateWrite
        <3>2. CASE lease' = lease /\ pc'[p] # "connect"
            BY <3>1, <3>2 DEF Covered, Holds
        <3>3. CASE lease' = lease /\ pc'[p] = "connect"
            <4>1. lease.owner = 0 /\ owner[p] # 0
                BY <3>3 DEF Fresh
            <4>2. unwritten' = (unwritten \/ lease'.owner # owner[p])
                BY <3>3, <4>1
            <4> QED BY <3>3, <4>1, <4>2 DEF Covered
        <3>4. CASE lease' # lease
            <4>1. lease.owner = 0 /\ lease' = Claimed(p) /\ owner[p] # 0
                BY <3>4 DEF Fresh
            <4>2. \A q \in Instances : q # p /\ (q \in conn' \/ pc'[q] = "connect")
                                       => q \in conn \/ pc[q] = "connect"
                OBVIOUS
            <4>3. p \notin conn'
                BY DEF Placed
            <4> QED BY <3>1, <3>4, <4>1, <4>2, <4>3, LateWrite DEF Covered, Holds
        <3> QED BY <3>2, <3>3, <3>4
    <2> QED BY <2>1, <2>2, <2>3, <2>4
<1>4. CASE Connects(p) \/ Connected(p) \/ ConnectFails(p)
    <2> USE <1>4 DEF Connects, Connected, ConnectFails, ConnectFrame
    <2>1. Shape'
        BY DEF Points
    <2>2. Fresh'
        BY DEF Fresh
    <2>3. Placed'
        BY DEF Placed
    <2>4. Covered'
        BY DEF Fresh, Placed, Covered, Holds
    <2> QED BY <2>1, <2>2, <2>3, <2>4
<1>5. CASE Abort(p)
    <2> USE <1>5 DEF Abort, release_owner, NoLease
    <2>1. Shape'
        BY DEF Points
    <2>2. Fresh'
        BY DEF Fresh
    <2>3. Placed'
        BY DEF Placed
    <2>4. Covered'
        BY ZenonT(40) DEF Fresh, Placed, Covered, Holds
    <2> QED BY <2>1, <2>2, <2>3, <2>4
<1>6. CASE Wake(p)
    <2> USE <1>6 DEF Wake
    <2>1. Shape'
        BY DEF Points
    <2>2. Fresh'
        BY DEF Fresh
    <2>3. Placed'
        BY DEF Placed
    <2>4. Covered'
        BY DEF Fresh, Placed, Covered, Holds
    <2> QED BY <2>1, <2>2, <2>3, <2>4
<1>7. CASE refresh_owner(p)
    <2> USE <1>7 DEF refresh_owner, BeatFrame
    <2>1. Shape'
        BY DEF Points
    <2>2. Fresh'
        BY DEF Fresh
    <2>3. Placed'
        BY DEF Placed
    <2>4. Covered'
        BY LateWrite DEF Fresh, Placed, Covered, Holds
    <2> QED BY <2>1, <2>2, <2>3, <2>4
<1>8. CASE Fence(p)
    <2> USE <1>8 DEF Fence, ClientStops
    <2>1. Shape'
        BY DEF Points
    <2>2. Fresh'
        BY DEF Fresh
    <2>3. Placed'
        BY DEF Placed
    <2>4. Covered'
        BY DEF Fresh, Placed, Covered, Holds
    <2> QED BY <2>1, <2>2, <2>3, <2>4
<1>9. CASE stop(p)
    <2> USE <1>9 DEF stop
    <2>1. Shape'
        BY DEF Points
    <2>2. Fresh'
        BY DEF Fresh
    <2>3. Placed'
        BY DEF Placed
    <2>4. Covered'
        BY DEF Fresh, Placed, Covered, Holds
    <2> QED BY <2>1, <2>2, <2>3, <2>4
<1>10. CASE StopRelease(p)
    <2> USE <1>10 DEF StopRelease, release_owner, NoLease
    <2>1. Shape'
        BY DEF Points
    <2>2. Fresh'
        BY DEF Fresh
    <2>3. Placed'
        BY DEF Placed
    <2>4. Covered'
        BY DEF Fresh, Placed, Covered, Holds
    <2> QED BY <2>1, <2>2, <2>3, <2>4
<1>11. CASE StopClient(p)
    <2> USE <1>11 DEF StopClient, ClientStops
    <2>1. Shape'
        BY DEF Points
    <2>2. Fresh'
        BY DEF Fresh
    <2>3. Placed'
        BY DEF Placed
    <2>4. Covered'
        BY DEF Fresh, Placed, Covered, Holds
    <2> QED BY <2>1, <2>2, <2>3, <2>4
<1>12. CASE Crash(p)
    <2> USE <1>12 DEF Crash
    <2>1. Shape'
        BY DEF Points
    <2>2. Fresh'
        BY DEF Fresh
    <2>3. Placed'
        BY DEF Placed
    <2>4. Covered'
        BY DEF Fresh, Placed, Covered, Holds
    <2> QED BY <2>1, <2>2, <2>3, <2>4
<1> QED
    BY <1>1, <1>2, <1>3, <1>4, <1>5, <1>6, <1>7, <1>8, <1>9, <1>10, <1>11, <1>12 DEF Step

LEMMA LeaseNext == LeaseInv /\ [Next]_vars => LeaseInv'
<1> SUFFICES ASSUME LeaseInv, [Next]_vars PROVE LeaseInv'
    OBVIOUS
<1> USE DEF LeaseInv, Shape, Fresh, Placed, Covered, Holds, history, Works
<1>1. CASE UNCHANGED vars
    BY <1>1 DEF vars
<1>2. ASSUME NEW p \in Instances, start(p) \/ Connects(p) \/ Step(p) \/ stop(p) \/ Crash(p)
      PROVE  LeaseInv'
    BY <1>2, LeaseStep
<1>3. CASE AuthKeyDuplicated
    BY <1>3 DEF AuthKeyDuplicated
<1>4. CASE Tick
    <2>1. Shape' /\ Fresh' /\ Placed'
        BY <1>4, LeaseAssumption DEF Tick, Floor
    <2>2. lease'.owner = lease.owner /\ (lease.left > 0 => lease'.left >= 0)
        BY <1>4, LeaseAssumption DEF Tick
    <2>3. Covered'
        <3> SUFFICES ASSUME ~(lapsed' \/ early' \/ unwritten'), NEW p \in Instances,
                            p \in conn' \/ pc'[p] = "connect"
                     PROVE  Holds(p)' /\ lease'.left >= 0
            OBVIOUS
        <3>1. (p \in conn \/ pc[p] = "connect") /\ early' = early /\ unwritten' = unwritten
              /\ owner' = owner
            BY <1>4 DEF Tick
        <3>2. ~lapsed /\ Holds(p) /\ lease.left >= 0 /\ lease.left # 0
            BY <1>4, <3>1, Lapse
        <3> QED BY <2>2, <3>1, <3>2
    <2> QED BY <2>1, <2>3
<1> QED BY <1>1, <1>2, <1>3, <1>4 DEF Next

\* The auth key is used by one client at a time, however many instances boot,
\* crash, stall and fail, as long as no lease lapsed under its client, was given
\* up before its client stopped or was counted as claimed without being written.
THEOREM OneClientHolds == Spec => []OneClient
<1>1. Spec => []LeaseInv
    BY LeaseInit, LeaseNext, PTL DEF Spec
<1>2. LeaseInv => OneClient
    <2> SUFFICES ASSUME LeaseInv, ~(lapsed \/ early \/ unwritten)
                 PROVE  ~(Cardinality(conn) > 1)
        BY DEF OneClient
    <2>1. \A p, q \in conn : p = q
        BY DEF LeaseInv, Shape, Fresh, Covered, Holds
    <2>2. CASE conn = {}
        BY <2>2, FS_EmptySet
    <2>3. ASSUME NEW p \in conn PROVE ~(Cardinality(conn) > 1)
        <3>1. conn = {p}
            BY <2>1
        <3>2. Cardinality(conn) = 1
            BY <3>1, FS_Singleton
        <3> QED BY <3>2
    <2> QED BY <2>2, <2>3
<1> QED BY <1>1, <1>2, PTL

(***************************************************************************)
(* The time bounds                                                          *)
(***************************************************************************)
\* While nothing has stalled, a heartbeat keeps its times, and the lease it has
\* renewed has at least this much left: a whole term less the renewal's own
\* latency, less a beat and a call for the renewal that failed since.
Paced(p) ==
    /\ missed[p] < 2 => pc[p] \in {"live", "beat"}
    /\ pc[p] = "live" => timer[p] <= Beat
    /\ pc[p] = "beat" => timer[p] <= Latency
    /\ Holds(p) /\ missed[p] = 0 /\ pc[p] = "live" => lease.left + timer[p] >= TTL - Latency
    /\ Holds(p) /\ missed[p] = 0 /\ pc[p] = "beat" => lease.left + timer[p] >= TTL - Latency - Beat
    /\ Holds(p) /\ missed[p] = 1 /\ pc[p] = "live" => lease.left + timer[p] >= TTL - 2 * Latency - Beat
    /\ Holds(p) /\ missed[p] = 1 /\ pc[p] = "beat" => lease.left + timer[p] >= TTL - 2 * Latency - 2 * Beat

Prompt ==
    /\ stalls \in 0..MaxStalls /\ missed \in [Instances -> 0..2]
    /\ stalls < MaxStalls \/ (~ranOut /\ \A p \in Instances : Paced(p))

LEMMA PromptInit == Init => Prompt
BY LeaseAssumption DEF Init, Prompt, Paced

\* What every step of an instance leaves to the clock.
LEMMA StepFrame ==
    ASSUME NEW p \in Instances, start(p) \/ Connects(p) \/ Step(p) \/ stop(p) \/ Crash(p)
    PROVE  stalls' = stalls /\ ranOut' = ranOut
BY DEF start, Connects, Step, stop, Crash, claim_owner, FirstClaim, Connected, ConnectFails, Abort,
       Wake, refresh_owner, Fence, StopRelease, StopClient, StartFrame, ConnectFrame, BeatFrame,
       history, beats

\* A step of one instance gives no other one the lease, and renews only the
\* lease of its own.
LEMMA StepOfOther ==
    ASSUME LeaseInv, Prompt, NEW p \in Instances, NEW q \in Instances, p # q,
           start(p) \/ Connects(p) \/ Step(p) \/ stop(p) \/ Crash(p)
    PROVE  /\ pc'[q] = pc[q] /\ timer'[q] = timer[q] /\ owner'[q] = owner[q] /\ missed'[q] = missed[q]
           /\ Holds(q)' => Holds(q) /\ lease' = lease
<1> USE DEF LeaseInv, Shape, Fresh, Prompt, Goto, Holds, history, beats, Missed
<1>1. CASE start(p)
    BY <1>1 DEF start
<1>2. CASE claim_owner(p)
    BY <1>2 DEF claim_owner, StartFrame, Claimed
<1>3. CASE FirstClaim(p)
    BY <1>3 DEF FirstClaim, StartFrame, Claimed
<1>4. CASE Connects(p) \/ Connected(p) \/ ConnectFails(p)
    BY <1>4 DEF Connects, Connected, ConnectFails, ConnectFrame
<1>5. CASE Abort(p) \/ StopRelease(p)
    BY <1>5 DEF Abort, StopRelease, release_owner, NoLease
<1>6. CASE Wake(p)
    BY <1>6 DEF Wake
<1>7. CASE refresh_owner(p)
    BY <1>7 DEF refresh_owner, BeatFrame
<1>8. CASE Fence(p) \/ StopClient(p)
    BY <1>8 DEF Fence, StopClient
<1>9. CASE stop(p) \/ Crash(p)
    BY <1>9 DEF stop, Crash
<1> QED BY <1>1, <1>2, <1>3, <1>4, <1>5, <1>6, <1>7, <1>8, <1>9 DEF Step

\* The step of an instance keeps its own pace.
LEMMA StepOfOwn ==
    ASSUME LeaseInv, Prompt, NEW p \in Instances, Paced(p),
           start(p) \/ Connects(p) \/ Step(p) \/ stop(p) \/ Crash(p)
    PROVE  missed' \in [Instances -> 0..2] /\ Paced(p)'
<1> USE LeaseAssumption DEF LeaseInv, Shape, Prompt, Goto, Holds, history, beats, Missed
<1>1. CASE start(p)
    BY <1>1 DEF start, Paced
<1>2. CASE claim_owner(p)
    BY <1>2 DEF claim_owner, StartFrame, Paced
<1>3. CASE FirstClaim(p)
    BY <1>3 DEF FirstClaim, StartFrame, Paced
<1>4. CASE Connects(p) \/ Connected(p) \/ ConnectFails(p)
    BY <1>4 DEF Connects, Connected, ConnectFails, ConnectFrame, Paced
<1>5. CASE Abort(p) \/ StopRelease(p)
    BY <1>5 DEF Abort, StopRelease, release_owner, Paced
<1>6. CASE Wake(p)
    BY <1>6 DEF Wake, Paced
<1>7. CASE refresh_owner(p)
    <2>1. pc[p] = "beat" /\ timer[p] <= Latency /\ timer'[p] = 0 /\ pc'[p] \in {"live", "fence"}
          /\ owner' = owner
        BY <1>7 DEF refresh_owner, BeatFrame, Paced
    <2>2. CASE lease.owner = owner[p] /\ lease' = [lease EXCEPT !.left = TTL - timer[p]] /\ Missed(p, 0)
               /\ pc'[p] = "live"
        <3>1. lease'.left = TTL - timer[p] /\ missed'[p] = 0 /\ missed' \in [Instances -> 0..2]
            BY <2>2
        <3> QED BY <2>1, <2>2, <3>1 DEF Paced
    <2>3. CASE Missed(p, 2) /\ pc'[p] = "fence"
        BY <2>1, <2>3 DEF Paced
    <2>4. CASE Missed(p, missed[p] + 1) /\ lease' = lease /\ pc'[p] = "live"
        <3>1. missed'[p] = (IF missed[p] = 0 THEN 1 ELSE 2) /\ missed' \in [Instances -> 0..2]
            BY <2>4
        <3> QED BY <2>1, <2>4, <3>1 DEF Paced
    <2> QED BY <1>7, <2>2, <2>3, <2>4 DEF refresh_owner
<1>8. CASE Fence(p) \/ StopClient(p)
    BY <1>8 DEF Fence, StopClient, Paced
<1>9. CASE stop(p) \/ Crash(p)
    BY <1>9 DEF stop, Crash, Paced
<1> QED BY <1>1, <1>2, <1>3, <1>4, <1>5, <1>6, <1>7, <1>8, <1>9 DEF Step

LEMMA PromptStep ==
    ASSUME LeaseInv, Prompt, NEW p \in Instances,
           start(p) \/ Connects(p) \/ Step(p) \/ stop(p) \/ Crash(p)
    PROVE  Prompt'
<1>1. stalls' = stalls /\ ranOut' = ranOut
    BY StepFrame
<1>2. missed' \in [Instances -> 0..2]
    BY DEF Prompt, start, Connects, Step, stop, Crash, claim_owner, FirstClaim, Connected, ConnectFails,
       Abort, Wake, refresh_owner, Fence, StopRelease, StopClient, StartFrame, ConnectFrame, BeatFrame,
       history, beats, Missed
<1>3. CASE stalls < MaxStalls
    BY <1>1, <1>2, <1>3 DEF Prompt
<1>4. CASE ~(stalls < MaxStalls)
    <2>1. ~ranOut /\ \A q \in Instances : Paced(q)
        BY <1>4 DEF Prompt
    <2>2. Paced(p)'
        BY <2>1, StepOfOwn
    <2>3. ASSUME NEW q \in Instances, q # p PROVE Paced(q)'
        <3>1. Paced(q)
            BY <2>1
        <3>2. /\ pc'[q] = pc[q] /\ timer'[q] = timer[q] /\ missed'[q] = missed[q]
              /\ Holds(q)' => Holds(q) /\ lease' = lease
            BY <2>3, StepOfOther
        <3> QED BY <3>1, <3>2 DEF Paced
    <2> QED BY <1>1, <1>2, <2>1, <2>2, <2>3 DEF Prompt
<1> QED BY <1>3, <1>4

\* The clock only moves while every instance may still wait; then no lease
\* renewed once and missed at most once is at its end.
LEMMA PromptTick ==
    ASSUME Shape, Prompt, Tick
    PROVE  Prompt'
<1> USE LeaseAssumption DEF Shape
<1>1. stalls' \in 0..MaxStalls /\ missed' = missed /\ stalls' <= stalls
    BY DEF Tick, Prompt
<1>2. CASE stalls' < MaxStalls
    BY <1>1, <1>2 DEF Prompt
<1>3. CASE ~(stalls' < MaxStalls)
    <2>1. /\ \A p \in Instances : OnTime(p)
          /\ ~ranOut /\ \A p \in Instances : Paced(p)
        BY <1>1, <1>3 DEF Tick, Prompt
    <2>2. ASSUME NEW p \in Instances, Holds(p), missed[p] < 2
          PROVE  lease.left > 0
        <3>1. Paced(p) /\ OnTime(p) /\ missed[p] \in {0, 1} /\ pc[p] \in {"live", "beat"}
            BY <2>1, <2>2 DEF Paced, Prompt
        <3>2. CASE pc[p] = "live"
            <4>1. timer[p] < Beat
                BY <3>1, <3>2 DEF OnTime, Timed, Points, Allowance
            <4> QED BY <2>2, <3>1, <3>2, <4>1, RenewalAssumption DEF Paced
        <3>3. CASE pc[p] = "beat"
            <4>1. timer[p] < Latency
                BY <3>1, <3>3 DEF OnTime, Timed, Points, Allowance
            <4> QED BY <2>2, <3>1, <3>3, <4>1, RenewalAssumption DEF Paced
        <3> QED BY <3>1, <3>2, <3>3
    <2>3. ~ranOut'
        <3>1. ASSUME NEW p \in Instances PROVE ~(RunsOut(p) /\ missed[p] < 2)
            BY <2>2 DEF RunsOut
        <3>2. ranOut' = (ranOut \/ \E p \in Instances : RunsOut(p) /\ missed[p] < 2)
            BY DEF Tick
        <3> QED BY <2>1, <3>1, <3>2, Zenon
    <2>4. ASSUME NEW p \in Instances PROVE Paced(p)'
        <3>1. pc' = pc /\ missed' = missed /\ (Holds(p)' <=> Holds(p))
            BY DEF Tick, Holds
        <3>2. CASE pc[p] \in {"live", "beat"}
            <4>1. timer'[p] = timer[p] + 1
                BY <3>2 DEF Tick, Timed, Points
            <4>2. timer[p] < IF pc[p] = "live" THEN Beat ELSE Latency
                BY <2>1, <3>2 DEF OnTime, Timed, Points, Allowance
            <4>3. Holds(p) /\ missed[p] < 2 => lease'.left + timer'[p] = lease.left + timer[p]
                BY <2>2, <4>1 DEF Tick, Floor, Holds
            <4>4. Paced(p) /\ missed[p] \in 0..2
                BY <2>1 DEF Prompt
            <4> QED BY <3>1, <3>2, <4>1, <4>2, <4>3, <4>4 DEF Paced
        <3>3. CASE pc[p] \notin {"live", "beat"}
            BY <2>1, <3>1, <3>3 DEF Paced
        <3> QED BY <3>2, <3>3
    <2> QED BY <1>1, <2>3, <2>4 DEF Prompt
<1> QED BY <1>2, <1>3

LEMMA PromptNext == LeaseInv /\ Prompt /\ [Next]_vars => Prompt'
<1> SUFFICES ASSUME LeaseInv, Prompt, [Next]_vars PROVE Prompt'
    OBVIOUS
<1>1. CASE UNCHANGED vars
    BY <1>1 DEF vars, Prompt, Paced, Holds
<1>2. ASSUME NEW p \in Instances, start(p) \/ Connects(p) \/ Step(p) \/ stop(p) \/ Crash(p)
      PROVE  Prompt'
    BY <1>2, PromptStep
<1>3. CASE AuthKeyDuplicated
    BY <1>3 DEF AuthKeyDuplicated, Prompt, Paced, Holds, history, beats
<1>4. CASE Tick
    BY <1>4, PromptTick DEF LeaseInv
<1> QED BY <1>1, <1>2, <1>3, <1>4 DEF Next

\* The heartbeat has room for one failure, whatever a healthy call takes: a lease
\* that was renewed once runs out under its client only after two beats in a row
\* have failed, or something has stalled.
THEOREM OneMissIsSurvived == Spec => []MissedBeatIsSurvived
<1>1. Spec => [](LeaseInv /\ Prompt)
    BY LeaseInit, LeaseNext, PromptInit, PromptNext, PTL DEF Spec
<1>2. Prompt => MissedBeatIsSurvived
    BY DEF Prompt, MissedBeatIsSurvived
<1> QED BY <1>1, <1>2, PTL
=============================================================================
