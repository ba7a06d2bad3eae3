------------------------------- MODULE Lease -------------------------------
(***************************************************************************)
(* The single-owner lease of the MTProto session: instances of the bot share *)
(* one auth key, which Telegram kills when two clients connect with it.      *)
(*                                                                         *)
(* A boot draws a fresh owner id, claims the lease in MongoDB, connects the  *)
(* client, and renews the lease with a heartbeat.  Time passes in ticks; a   *)
(* healthy call takes up to Latency of them, a longer one stalls.            *)
(***************************************************************************)
EXTENDS Integers, FiniteSets

CONSTANTS
    Instances,    \* places a bot process runs in
    TTL,          \* _LEASE_TTL_S, in ticks
    Beat,         \* _HEARTBEAT_S
    StartTimeout, \* _START_TIMEOUT_S
    Latency,      \* what a call to the database or the client may take
    MaxBoots,     \* bound: process starts
    MaxStalls,    \* bound: ticks a call that is due may be late
    MaxFaults     \* bound: failing calls

ASSUME LeaseAssumption ==
    /\ {TTL, Beat, StartTimeout} \subseteq Nat \ {0}
    /\ {Latency, MaxBoots, MaxStalls, MaxFaults} \subseteq Nat

\* Twice 30 s against 90 s: calls of up to 10 s leave room for one beat that
\* fails.
ASSUME RenewalAssumption == 2 * Beat + 3 * Latency <= TTL

VARIABLES
    lease,        \* the lease row: owner, 0 for no row, and ticks to expiry
    pc,           \* per instance: control point
    owner,        \* per instance: its owner id
    timer,        \* per instance: ticks since the control point's clock was read
    conn,         \* instances whose client is connected
    rejected,     \* Telegram has invalidated the auth key
    boots, stalls, faults, \* left, but boots counts up
    parking,      \* instances whose stop() was called to park the client
    early,        \* history: a lease was given up under a connected client
    lapsed,       \* history: a lease expired under its client
    unwritten,    \* history: a claim counted although its write was lost
    leaked,       \* history: instances whose client did not stop
    missed,       \* history, per instance: failed beats since it renewed, 2 for more or never
    ranOut        \* history: a renewed lease ran out although one beat failed at most

vars == <<lease, pc, owner, timer, conn, rejected, boots, stalls, faults, parking,
          early, lapsed, unwritten, leaked, missed, ranOut>>
beats == <<missed, ranOut>>
history == <<early, lapsed, unwritten, leaked, beats>>

NoLease == [owner |-> 0, left |-> 0]
Floor == 0 - 1 - MaxStalls
Points == {"down", "take", "first", "connect", "abort", "live", "beat", "fence",
           "release", "disconnect", "degraded"}

Works == UNCHANGED faults
Fault == faults > 0 /\ faults' = faults - 1
Goto(p, l) == pc' = [pc EXCEPT ![p] = l] /\ timer' = [timer EXCEPT ![p] = 0]

Init ==
    /\ lease = NoLease /\ pc = [p \in Instances |-> "down"]
    /\ owner = [p \in Instances |-> 0] /\ timer = [p \in Instances |-> 0]
    /\ conn = {} /\ rejected = FALSE
    /\ boots = 0 /\ stalls = MaxStalls /\ faults = MaxFaults /\ parking = {}
    /\ early = FALSE /\ lapsed = FALSE /\ unwritten = FALSE /\ leaked = {}
    /\ missed = [p \in Instances |-> 2] /\ ranOut = FALSE

(***************************************************************************)
(* start()                                                                  *)
(***************************************************************************)
start(p) ==
    /\ pc[p] = "down" /\ boots < MaxBoots /\ boots' = boots + 1
    /\ owner' = [owner EXCEPT ![p] = boots + 1] /\ Goto(p, "take")
    /\ UNCHANGED <<lease, conn, rejected, stalls, parking, history>> /\ Works

\* A write that took so long that the lease it wrote had run out.
WrittenLate == lapsed' = (lapsed \/ (lease' # lease /\ lease'.left < 0))

StartFrame ==
    WrittenLate /\ UNCHANGED <<owner, conn, rejected, boots, stalls, parking, early, leaked, beats>>

\* The lease as claim_owner writes it, with the clock it read at the start.
Claimed(p) == [owner |-> owner[p], left |-> TTL - timer[p]]

\* Mutation: a live lease is taken too.
claim_owner_Steals(p) ==
    /\ pc[p] = "take" /\ unwritten' = unwritten /\ Works
    /\ IF lease.owner # 0 THEN lease' = Claimed(p) /\ Goto(p, "connect")
       ELSE pc' = [pc EXCEPT ![p] = "first"] /\ UNCHANGED <<lease, timer>>
    /\ StartFrame

\* The row has run out by the clock claim_owner read.
Expired(p) == lease.owner # 0 /\ lease.left + timer[p] < 0

\* An expired lease is taken over atomically; without one, go on to the insert.
\* A failure is a refusal, except that _retry_write turns a write concern error
\* into "no row", the write applied or not.
claim_owner(p) ==
    /\ pc[p] = "take" /\ unwritten' = unwritten
    /\ \/ Expired(p) /\ Works /\ lease' = Claimed(p) /\ Goto(p, "connect")
       \/ /\ (~Expired(p) /\ Works) \/ Fault
          /\ lease' = lease \/ (faults' < faults /\ Expired(p) /\ lease' = Claimed(p))
          /\ pc' = [pc EXCEPT ![p] = "first"] /\ timer' = timer
       \/ Fault /\ lease' = lease /\ Goto(p, "degraded")
    /\ StartFrame

\* Exactly one insert wins.  A write concern error counts as success, whether the
\* row survives or not, and a retry that meets its own row as a refusal.
FirstClaim(p) ==
    /\ pc[p] = "first"
    /\ \/ /\ lease.owner = 0 /\ Works /\ lease' = Claimed(p) /\ Goto(p, "connect")
          /\ unwritten' = unwritten
       \/ /\ lease.owner # 0 /\ Works /\ lease' = lease /\ Goto(p, "degraded")
          /\ unwritten' = unwritten
       \/ /\ Fault /\ (lease' = lease \/ (lease.owner = 0 /\ lease' = Claimed(p)))
          /\ \/ Goto(p, "degraded") /\ unwritten' = unwritten
             \/ /\ lease.owner = 0 /\ Goto(p, "connect")
                /\ unwritten' = (unwritten \/ lease'.owner # owner[p])
    /\ StartFrame

ConnectFrame == UNCHANGED <<lease, owner, rejected, boots, stalls, parking, history>>

\* The client's session reaches Telegram.
Connects(p) ==
    /\ pc[p] = "connect" /\ p \notin conn /\ ~rejected /\ conn' = conn \cup {p}
    /\ UNCHANGED <<pc, timer>> /\ Works /\ ConnectFrame

\* It is up: the heartbeat begins.
Connected(p) ==
    /\ pc[p] = "connect" /\ p \in conn /\ Goto(p, "live")
    /\ UNCHANGED conn /\ Works /\ ConnectFrame

\* A dead key, a failed login or the timeout: the lease is released, then the
\* boot goes on without MTProto or ends.
ConnectFails(p) ==
    /\ pc[p] = "connect" /\ Goto(p, "abort") /\ UNCHANGED conn
    /\ (rejected /\ p \notin conn /\ Works) \/ (timer[p] >= StartTimeout /\ Works) \/ Fault
    /\ ConnectFrame

(***************************************************************************)
(* Release, heartbeat and stop()                                            *)
(***************************************************************************)
Holds(p) == owner[p] # 0 /\ lease.owner = owner[p]

\* The row is deleted, if it is still this owner's and the database allows; the
\* owner id is forgotten in any case.
release_owner(p) ==
    /\ owner' = [owner EXCEPT ![p] = 0]
    /\ early' = (early \/ (Holds(p) /\ p \in conn))
    /\ \/ Works /\ lease' = IF Holds(p) THEN NoLease ELSE lease
       \/ Fault /\ lease' = lease

Abort(p) ==
    /\ pc[p] = "abort" /\ release_owner(p)
    /\ IF rejected /\ p \notin conn THEN Goto(p, "degraded") ELSE Goto(p, "disconnect")
    /\ UNCHANGED <<conn, rejected, boots, stalls, parking, lapsed, unwritten, leaked, beats>>

\* The sleep is over; the new expiry is read off the clock.
Wake(p) ==
    /\ pc[p] = "live" /\ timer[p] >= Beat /\ Goto(p, "beat") /\ Works
    /\ UNCHANGED <<lease, owner, conn, rejected, boots, stalls, parking, history>>

BeatFrame ==
    /\ WrittenLate
    /\ UNCHANGED <<owner, conn, rejected, boots, stalls, parking, early, unwritten, leaked, ranOut>>

\* How often in a row the renewal has failed.
Missed(p, n) == missed' = [missed EXCEPT ![p] = IF n < 2 THEN n ELSE 2]

\* Mutation: the renewal is not filtered by owner.
refresh_owner_Unfenced(p) ==
    /\ pc[p] = "beat" /\ Works /\ Goto(p, "live") /\ Missed(p, 0)
    /\ lease' = [lease EXCEPT !.left = TTL - timer[p]]
    /\ BeatFrame

\* Mutation: the renewal finds the row but does not move its expiry.
refresh_owner_KeepsExpiry(p) ==
    /\ pc[p] = "beat" /\ Works /\ lease' = lease
    /\ Goto(p, IF lease.owner = owner[p] THEN "live" ELSE "fence")
    /\ Missed(p, IF lease.owner = owner[p] THEN 0 ELSE 2)
    /\ BeatFrame

\* Renewed while it is still ours, expired or not; otherwise fenced out.  A
\* failing call waits for the next beat.
refresh_owner(p) ==
    /\ pc[p] = "beat"
    /\ \/ /\ lease.owner = owner[p] /\ Works /\ Goto(p, "live") /\ Missed(p, 0)
          /\ lease' = [lease EXCEPT !.left = TTL - timer[p]]
       \/ lease.owner # owner[p] /\ Works /\ Goto(p, "fence") /\ Missed(p, 2) /\ lease' = lease
       \/ Fault /\ Goto(p, "live") /\ Missed(p, missed[p] + 1) /\ lease' = lease
    /\ BeatFrame

\* The client stops, or says it could not.
ClientStops(p) ==
    \/ Works /\ conn' = conn \ {p} /\ leaked' = leaked
    \/ Fault /\ p \in conn /\ conn' = conn /\ leaked' = leaked \cup {p}

Fence(p) ==
    /\ pc[p] = "fence" /\ ClientStops(p) /\ Goto(p, "degraded")
    /\ UNCHANGED <<lease, owner, rejected, boots, stalls, parking, early, lapsed, unwritten, beats>>

\* Shutdown, or an AUTH_KEY_DUPLICATED that parks the client: the heartbeat is
\* cancelled where it is.
stop(p) ==
    /\ \/ pc[p] \in {"live", "beat", "fence", "degraded"} /\ parking' = parking
       \/ pc[p] \in {"live", "beat", "fence"} /\ rejected /\ parking' = parking \cup {p}
    /\ Goto(p, "release") /\ Works /\ Missed(p, 2)
    /\ UNCHANGED <<lease, owner, conn, rejected, boots, stalls, early, lapsed, unwritten, leaked, ranOut>>

\* The lease goes first, the client after it.
StopRelease(p) ==
    /\ pc[p] = "release" /\ release_owner(p) /\ Goto(p, "disconnect")
    /\ UNCHANGED <<conn, rejected, boots, stalls, parking, lapsed, unwritten, leaked, beats>>

\* A parked instance runs on without MTProto, any other ends and its
\* connections with it.
StopClient(p) ==
    /\ pc[p] = "disconnect" /\ parking' = parking \ {p}
    /\ IF p \in parking THEN ClientStops(p) /\ Goto(p, "degraded")
       ELSE Works /\ conn' = conn \ {p} /\ leaked' = leaked \ {p} /\ Goto(p, "down")
    /\ UNCHANGED <<lease, owner, rejected, boots, stalls, early, lapsed, unwritten, beats>>

(***************************************************************************)
(* The world                                                                *)
(***************************************************************************)
Crash(p) ==
    /\ pc[p] # "down" /\ Goto(p, "down") /\ conn' = conn \ {p} /\ leaked' = leaked \ {p}
    /\ parking' = parking \ {p} /\ owner' = [owner EXCEPT ![p] = 0] /\ Works /\ Missed(p, 2)
    /\ UNCHANGED <<lease, rejected, boots, stalls, early, lapsed, unwritten, ranOut>>

\* Telegram kills a key that two clients use.
AuthKeyDuplicated ==
    /\ Cardinality(conn) > 1 /\ ~rejected /\ rejected' = TRUE
    /\ UNCHANGED <<lease, pc, owner, timer, conn, boots, stalls, parking, history>> /\ Works

\* What an instance may take at its control point without stalling.  The insert
\* of a first claim is the second call since the clock was read.
Allowance(l) ==
    CASE l = "connect" -> StartTimeout
      [] l = "live"    -> Beat
      [] l = "first"   -> 2 * Latency
      [] OTHER         -> Latency

Timed == Points \ {"down", "degraded"}

OnTime(p) == pc[p] \in Timed => timer[p] < Allowance(pc[p])

\* A client at work whose lease is at its end.
RunsOut(p) == Holds(p) /\ lease.left = 0 /\ (p \in conn \/ pc[p] = "connect")

\* Time passes: without stalls only while everybody may still wait.
Tick ==
    /\ \/ (\A p \in Instances : OnTime(p)) /\ stalls' = stalls
       \/ /\ \E p \in Instances : ~OnTime(p)
          /\ stalls > 0 /\ stalls' = stalls - 1
    /\ \E p \in Instances : pc[p] # "down"
    /\ lease' = IF lease.owner # 0 /\ lease.left > Floor THEN [lease EXCEPT !.left = @ - 1] ELSE lease
    /\ timer' = [p \in Instances |-> IF pc[p] \in Timed THEN timer[p] + 1 ELSE 0]
    /\ lapsed' = (lapsed \/ \E p \in Instances : RunsOut(p))
    /\ ranOut' = (ranOut \/ \E p \in Instances : RunsOut(p) /\ missed[p] < 2)
    /\ UNCHANGED <<pc, owner, conn, rejected, boots, faults, parking, early, unwritten, leaked, missed>>

Step(p) ==
    \/ claim_owner(p) \/ FirstClaim(p) \/ Connected(p) \/ ConnectFails(p) \/ Abort(p)
    \/ Wake(p) \/ refresh_owner(p) \/ Fence(p) \/ StopRelease(p) \/ StopClient(p)

Next ==
    \/ \E p \in Instances : start(p) \/ Connects(p) \/ Step(p) \/ stop(p) \/ Crash(p)
    \/ AuthKeyDuplicated \/ Tick

Spec == Init /\ [][Next]_vars

\* Tasks run and time passes.
Fairness == WF_vars(Tick) /\ \A p \in Instances : WF_vars(Step(p))

FairSpec == Spec /\ Fairness

(***************************************************************************)
(* Properties                                                               *)
(***************************************************************************)
TypeOK ==
    /\ lease \in [owner : 0..MaxBoots, left : Floor..TTL]
    /\ pc \in [Instances -> Points] /\ owner \in [Instances -> 0..MaxBoots]
    /\ timer \in [Instances -> Nat] /\ conn \subseteq Instances /\ rejected \in BOOLEAN
    /\ boots \in 0..MaxBoots /\ stalls \in 0..MaxStalls /\ faults \in 0..MaxFaults
    /\ parking \subseteq Instances /\ leaked \subseteq Instances
    /\ {early, lapsed, unwritten, ranOut} \subseteq BOOLEAN /\ missed \in [Instances -> 0..2]

\* Two clients share the key only when a lease lapsed under its client, was
\* given up before its client had disconnected, or was counted as claimed without
\* being written (claim_owner, refresh_owner, stop).
OneClient == Cardinality(conn) > 1 => lapsed \/ early \/ unwritten

\* A lease that a heartbeat has renewed once outlives one heartbeat that fails:
\* unless something stalls, it does not run out under its running client before
\* two beats in a row have failed, the latency of every call included
\* (_LEASE_TTL_S, _HEARTBEAT_S, refresh_owner, _heartbeat_lease).
MissedBeatIsSurvived == ranOut => stalls < MaxStalls

\* A client that has lost its lease is stopped in the end, or its process is
\* (_heartbeat_lease, start).
FencedStops ==
    \A p \in Instances :
        p \in conn /\ ~Holds(p) ~> p \notin conn \/ Holds(p) \/ p \in leaked

\* mtproto/__init__.py: "The heartbeat refreshes well inside the TTL": a lease
\* runs out under its client only after something stalled or failed.
LeaseOutlivesBeats == lapsed => stalls < MaxStalls \/ faults < MaxFaults

\* setup.md: "Overlapping rolling restarts are safe (the old instance releases on
\* shutdown and the newcomer takes over an expired lease)".
RollingRestartIsSafe == Cardinality(conn) > 1 => stalls < MaxStalls \/ faults < MaxFaults
============================================================================
