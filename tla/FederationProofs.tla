-------------------------- MODULE FederationProofs --------------------------
(***************************************************************************)
(* Proofs about Federation, for any chats, any set of handlers, any bound   *)
(* on overlap (two theorems say so where they need handlers one at a time)  *)
(* and any number of failures.                                              *)
(***************************************************************************)
EXTENDS Federation, Integers, TLAPS, WellFoundedInduction, FiniteSetTheorems

\* Every nonempty set of ban records has a newest one, so get_active_ban's
\* sort (timestamp, ban_id descending) is well defined.
LEMMA MaxExists ==
    ASSUME NEW n \in Nat, NEW S \in SUBSET (1..n), S # {}
    PROVE  \E i \in S : \A j \in S : j <= i
<1> DEFINE Distances == {n - i : i \in S}
           Less == {p \in Nat \X Nat : p[1] < p[2]}
<1>1. IsWellFoundedOn(Less, Nat)
    BY NatLessThanWellFounded DEF OpToRel
<1>2. \A i \in S : i \in Nat /\ i <= n /\ n - i \in Nat
    OBVIOUS
<1>3. Distances \subseteq Nat /\ Distances # {}
    BY <1>2
<1>4. PICK x \in Distances : \A y \in Distances : <<y, x>> \notin Less
    <2> HIDE DEF Distances, Less
    <2> QED BY <1>1, <1>3, WFMin
<1>5. \A y \in Distances : x <= y
    <2> TAKE y \in Distances
    <2>1. x \in Nat /\ y \in Nat
        BY <1>3
    <2>2. ~(y < x)
        <3> HIDE DEF Distances
        <3> QED BY <1>4, <2>1
    <2> HIDE DEF Distances, Less
    <2> QED BY <2>1, <2>2
<1>6. PICK i \in S : x = n - i
    BY <1>4
<1>7. \A j \in S : j <= i
    <2> TAKE j \in S
    <2>1. n - i <= n - j
        BY <1>5, <1>6
    <2> HIDE DEF Distances, Less
    <2> QED BY <2>1, <1>2
<1> QED BY <1>7

\* get_active_ban returns an active record whenever there is one, and None
\* otherwise.
LEMMA NewestBanIsActive ==
    ASSUME created \in Nat, active \in SUBSET (1..created)
    PROVE  /\ active # {} => NewestBan \in active
           /\ active = {} => NewestBan = 0
           /\ NewestBan \in 0..created
<1>1. CASE active = {}
    BY <1>1 DEF NewestBan
<1>2. CASE active # {}
    <2>1. \E i \in active : \A j \in active : j <= i
        BY <1>2, MaxExists
    <2>2. NewestBan = CHOOSE i \in active : \A j \in active : j <= i
        BY <1>2 DEF NewestBan
    <2>3. NewestBan \in active
        BY <2>1, <2>2
    <2> QED BY <1>2, <2>3
<1> QED BY <1>1, <1>2

(***************************************************************************)
(* Type correctness.  TypeOK is not inductive alone: an auto-ban, a join    *)
(* or a connection acts on the chat its update came from, so that chat has  *)
(* to be known to be one.                                                   *)
(***************************************************************************)
ChatPoints == {"auto_role", "auto_read", "auto_write", "join_read", "join_demote",
               "join_ban", "conn_load", "conn_read", "conn_added"}
UpdateHasChat == \A h \in Handlers : pc[h] \in ChatPoints => at[h] \in Chats
TypeInv == TypeOK /\ UpdateHasChat

\* TypeOK by kind of value: the provers treat each kind with another method.
RolesOK == staff \in BOOLEAN /\ warned \in BOOLEAN
RecordsOK == created \in Nat /\ active \in SUBSET (1..created)
LocalsOK ==
    /\ connected \in SUBSET Chats /\ chatBan \in SUBSET Chats /\ member \in SUBSET Chats
    /\ admin \in SUBSET member /\ skipped \in [Handlers -> SUBSET Chats]
    /\ faults \in 0..MaxFaults
    /\ kind \in [Handlers -> AllKinds] /\ pc \in [Handlers -> Points]
    /\ at \in [Handlers -> Chats \cup {NoChat}]
    /\ seen \in [Handlers -> Nat] /\ cut \in [Handlers -> Nat]
    /\ groups \in [Handlers -> {"unread", "ok", "failed"}]
    /\ scope \in [Handlers -> SUBSET Chats] /\ todo \in [Handlers -> SUBSET Chats]
    /\ act \in [Handlers -> SUBSET Chats] /\ failed \in [Handlers -> SUBSET Chats]
    /\ outcome \in [Handlers -> Outcomes] /\ alone \in [Handlers -> BOOLEAN]

LEMMA TypeParts == /\ TypeOK <=> RolesOK /\ RecordsOK /\ LocalsOK
                   /\ (TypeOK <=> RolesOK /\ RecordsOK /\ LocalsOK)'
BY DEF TypeOK, RolesOK, RecordsOK, LocalsOK

LEMMA TypeInit == Init => TypeInv
<1> SUFFICES ASSUME Init PROVE TypeInv
    OBVIOUS
<1>1. created \in Nat /\ active \in SUBSET (1..created) /\ faults \in 0..MaxFaults
    BY FaultAssumption DEF Init
<1>2. connected \in SUBSET Chats /\ chatBan \in SUBSET Chats /\ member \in SUBSET Chats
      /\ admin \in SUBSET member
    BY ChatAssumption DEF Init
<1>3. /\ seen \in [Handlers -> Nat] /\ cut \in [Handlers -> Nat]
      /\ at \in [Handlers -> Chats \cup {NoChat}]
      /\ groups \in [Handlers -> {"unread", "ok", "failed"}]
      /\ scope \in [Handlers -> SUBSET Chats] /\ todo \in [Handlers -> SUBSET Chats]
      /\ act \in [Handlers -> SUBSET Chats] /\ failed \in [Handlers -> SUBSET Chats]
      /\ skipped \in [Handlers -> SUBSET Chats]
    BY DEF Init
<1>4. /\ kind \in [Handlers -> AllKinds] /\ pc \in [Handlers -> Points]
      /\ outcome \in [Handlers -> Outcomes]
    BY DEF Init, AllKinds, Points, Outcomes
<1>5. staff \in BOOLEAN /\ warned \in BOOLEAN /\ alone \in [Handlers -> BOOLEAN]
    BY DEF Init
<1>6. UpdateHasChat
    BY DEF Init, UpdateHasChat, ChatPoints
<1> QED BY <1>1, <1>2, <1>3, <1>4, <1>5, <1>6 DEF TypeInv, TypeOK

LEMMA TypeDispatch ==
    ASSUME TypeInv, NEW h \in Handlers, Dispatch(h)
    PROVE  TypeInv'
<1> USE DEF TypeInv, UpdateHasChat, ChatPoints, TypeOK, Start, AllKinds, Points,
            Outcomes, telegram, locals
<1>1. CASE StartBan(h) BY <1>1 DEF StartBan
<1>2. CASE StartUnban(h) BY <1>2 DEF StartUnban
<1>3. CASE StartApprove(h) BY <1>3 DEF StartApprove
<1>4. CASE StartVerify(h) BY <1>4 DEF StartVerify
<1>5. CASE StartSweep(h) BY <1>5 DEF StartSweep
<1>6. ASSUME NEW c \in Chats, StartAuto(h, c) PROVE TypeInv'
    BY <1>6 DEF StartAuto
<1>7. ASSUME NEW c \in Chats, StartJoin(h, c) PROVE TypeInv'
    BY <1>7 DEF StartJoin
<1>8. ASSUME NEW c \in Chats, StartConnect(h, c) PROVE TypeInv'
    BY <1>8 DEF StartConnect
<1> QED BY <1>1, <1>2, <1>3, <1>4, <1>5, <1>6, <1>7, <1>8 DEF Dispatch

\* What the control primitives do to the variables they own.
LEMMA ControlTypes ==
    ASSUME TypeOK, NEW h \in Handlers
    PROVE  /\ \A l \in Points : Goto(h, l) =>
                  pc' = [pc EXCEPT ![h] = l] /\ pc' \in [Handlers -> Points]
                  /\ outcome' \in [Handlers -> Outcomes]
           /\ \A o \in Outcomes : End(h, o) =>
                  pc' = [pc EXCEPT ![h] = "done"] /\ pc' \in [Handlers -> Points]
                  /\ outcome' \in [Handlers -> Outcomes]
           /\ Fault => faults' \in 0..MaxFaults
           /\ Works => faults' \in 0..MaxFaults
<1>1. \A l \in Points : [pc EXCEPT ![h] = l] \in [Handlers -> Points]
    BY DEF TypeOK
<1>2. "done" \in Points
    BY DEF Points
<1>3. \A o \in Outcomes : [outcome EXCEPT ![h] = o] \in [Handlers -> Outcomes]
    BY DEF TypeOK
<1>4. Fault \/ Works => faults' \in 0..MaxFaults
    BY FaultAssumption DEF Fault, Works, TypeOK
<1> QED BY <1>1, <1>2, <1>3, <1>4 DEF Goto, End, TypeOK

\* What create_ban does to the records.
LEMMA InsertedRecord ==
    ASSUME RecordsOK,
           \/ created' = created /\ active' = active
           \/ created' = created + 1 /\ active' = active \cup {created + 1}
    PROVE  RecordsOK'
<1>1. CASE created' = created /\ active' = active
    BY <1>1 DEF RecordsOK
<1>2. CASE created' = created + 1 /\ active' = active \cup {created + 1}
    <2>1. created + 1 \in Nat /\ (\A i \in 1..created : i \in 1..(created + 1))
          /\ created + 1 \in 1..(created + 1)
        BY DEF RecordsOK
    <2>2. active \cup {created + 1} \subseteq 1..(created + 1)
        BY <2>1 DEF RecordsOK
    <2> QED BY <1>2, <2>1, <2>2 DEF RecordsOK
<1> QED BY <1>1, <1>2

LEMMA TypeStep ==
    ASSUME TypeInv, NEW h \in Handlers, Step(h)
    PROVE  TypeInv'
<1> USE ChatAssumption, ControlTypes
    DEF TypeInv, UpdateHasChat, ChatPoints, TypeOK, Points, Outcomes,
        stores, telegram, control, locals
<1>0. NewestBan \in Nat /\ RecordsOK
    BY NewestBanIsActive, TypeParts
<1>1. CASE FetchGroups(h)
    BY <1>0, <1>1 DEF FetchGroups, FetchPoints
<1>2. CASE BanRead(h)
    BY <1>0, <1>2 DEF BanRead
<1>3. CASE BanDedupe(h)
    <2>1. RolesOK'
        BY <1>3, Zenon DEF RolesOK, BanDedupe, deactivate_extra_active_bans
    <2>2. RecordsOK'
        BY <1>3 DEF RecordsOK, BanDedupe, deactivate_extra_active_bans
    <2>3. LocalsOK'
        BY <1>3 DEF LocalsOK, BanDedupe, deactivate_extra_active_bans
    <2>4. UpdateHasChat'
        BY <1>3 DEF BanDedupe, deactivate_extra_active_bans
    <2> QED BY <2>1, <2>2, <2>3, <2>4, TypeParts
<1>4. CASE BanWrite(h)
    <2>1. RolesOK'
        BY <1>4, Zenon DEF RolesOK, BanWrite, create_ban, update_ban
    <2>2. RecordsOK'
        <3>1. \/ created' = created /\ active' = active
              \/ created' = created + 1 /\ active' = active \cup {created + 1}
            BY <1>4, Zenon DEF BanWrite, create_ban, update_ban
        <3> QED BY <3>1, <1>0, InsertedRecord DEF RecordsOK
    <2>3. LocalsOK'
        BY <1>4 DEF LocalsOK, BanWrite, create_ban, update_ban
    <2>4. UpdateHasChat'
        BY <1>4 DEF BanWrite, create_ban, update_ban
    <2> QED BY <2>1, <2>2, <2>3, <2>4, TypeParts
<1>5. CASE BanScope(h)
    <2>1. RolesOK'
        BY <1>5, Zenon DEF RolesOK, BanScope, Demote, with_primary_groups
    <2>2. RecordsOK'
        BY <1>5 DEF RecordsOK, BanScope, Demote, with_primary_groups
    <2>3. LocalsOK'
        BY <1>5 DEF LocalsOK, BanScope, Demote, with_primary_groups
    <2>4. UpdateHasChat'
        BY <1>5 DEF BanScope, Demote, with_primary_groups
    <2> QED BY <2>1, <2>2, <2>3, <2>4, TypeParts
<1>6. CASE BanFinish(h)
    BY <1>0, <1>6 DEF BanFinish, FanOutcome, ReplayOutcome
<1>7. CASE AutoRole(h)
    <2>1. RolesOK'
        BY <1>7, Zenon DEF RolesOK, AutoRole, Demote
    <2>2. RecordsOK'
        BY <1>7 DEF RecordsOK, AutoRole, Demote
    <2>3. LocalsOK'
        BY <1>7 DEF LocalsOK, AutoRole, Demote
    <2>4. UpdateHasChat'
        BY <1>7 DEF AutoRole, Demote
    <2> QED BY <2>1, <2>2, <2>3, <2>4, TypeParts
<1>8. CASE AutoRead(h)
    BY <1>0, <1>8 DEF AutoRead
<1>9. CASE AutoWrite(h)
    <2>1. RolesOK'
        BY <1>9, Zenon DEF RolesOK, AutoWrite, AutoScope, with_primary_groups, create_ban
    <2>2. RecordsOK'
        <3>1. \/ created' = created /\ active' = active
              \/ created' = created + 1 /\ active' = active \cup {created + 1}
            BY <1>9, Zenon DEF AutoWrite, create_ban
        <3> QED BY <3>1, <1>0, InsertedRecord DEF RecordsOK
    <2>3. LocalsOK'
        <3>1. groups[h] # "unread" /\ pc[h] = "auto_write" => AutoScope(h) \subseteq Chats
            BY <1>0 DEF LocalsOK, AutoScope, with_primary_groups
        <3> QED BY <1>9, <3>1 DEF LocalsOK, AutoWrite, create_ban
    <2>4. UpdateHasChat'
        BY <1>9 DEF AutoWrite, AutoScope, with_primary_groups, create_ban
    <2> QED BY <2>1, <2>2, <2>3, <2>4, TypeParts
<1>10. CASE AutoFinish(h)
    <2>1. RolesOK'
        BY <1>10, Zenon DEF RolesOK, AutoFinish, FanOutcome
    <2>2. RecordsOK'
        BY <1>10 DEF RecordsOK, AutoFinish, FanOutcome
    <2>3. LocalsOK'
        BY <1>10 DEF LocalsOK, AutoFinish, FanOutcome
    <2>4. UpdateHasChat'
        BY <1>10 DEF AutoFinish, FanOutcome
    <2> QED BY <2>1, <2>2, <2>3, <2>4, TypeParts
<1>11. CASE UnbanRead(h)
    BY <1>0, <1>11 DEF UnbanRead
<1>12. CASE UnbanStaff(h)
    <2>1. RolesOK'
        BY <1>12, Zenon DEF RolesOK, UnbanStaff
    <2>2. RecordsOK'
        BY <1>12 DEF RecordsOK, UnbanStaff
    <2>3. LocalsOK'
        BY <1>12 DEF LocalsOK, UnbanStaff
    <2>4. UpdateHasChat'
        BY <1>12 DEF UnbanStaff
    <2> QED BY <2>1, <2>2, <2>3, <2>4, TypeParts
<1>13. CASE UnbanFetch(h)
    BY <1>0, <1>13 DEF UnbanFetch
<1>14. CASE ApproveRead(h)
    BY <1>0, <1>14 DEF ApproveRead
<1>15. CASE LiftGroups(h)
    BY <1>0, <1>15 DEF LiftGroups
<1>16. CASE LiftDeactivate(h)
    <2>1. RolesOK'
        BY <1>16, Zenon DEF RolesOK, LiftDeactivate, deactivate_all_active_bans, with_primary_groups
    <2>2. RecordsOK'
        BY <1>16 DEF RecordsOK, LiftDeactivate, deactivate_all_active_bans, with_primary_groups
    <2>3. LocalsOK'
        BY <1>16 DEF LocalsOK, LiftDeactivate, deactivate_all_active_bans, with_primary_groups
    <2>4. UpdateHasChat'
        BY <1>16 DEF LiftDeactivate, deactivate_all_active_bans, with_primary_groups
    <2> QED BY <2>1, <2>2, <2>3, <2>4, TypeParts
<1>17. CASE LiftFinish(h)
    BY <1>0, <1>17 DEF LiftFinish, FanOutcome
<1>18. CASE JoinRead(h)
    BY <1>0, <1>18 DEF JoinRead
<1>19. CASE JoinDemote(h)
    <2>1. RolesOK'
        BY <1>19, Zenon DEF RolesOK, JoinDemote, Demote
    <2>2. RecordsOK'
        BY <1>19 DEF RecordsOK, JoinDemote, Demote
    <2>3. LocalsOK'
        BY <1>19 DEF LocalsOK, JoinDemote, Demote
    <2>4. UpdateHasChat'
        BY <1>19 DEF JoinDemote, Demote
    <2> QED BY <2>1, <2>2, <2>3, <2>4, TypeParts
<1>20. CASE JoinBan(h)
    BY <1>0, <1>20 DEF JoinBan, ban_chat_member, Barred, CallFails, CallSkipped
<1>21. CASE SyncRead(h)
    BY <1>0, <1>21 DEF SyncRead, SyncAborts
<1>22. CASE SyncScope(h)
    BY <1>0, <1>22 DEF SyncScope, SyncPairs, SyncAborts
<1>23. CASE SyncFinish(h)
    BY <1>0, <1>23 DEF SyncFinish, FanOutcome
<1>24. CASE ConnectRead(h)
    <2>1. RolesOK'
        BY <1>24, Zenon DEF RolesOK, ConnectRead, stores
    <2>2. RecordsOK'
        BY <1>24 DEF RecordsOK, ConnectRead, stores
    <2>3. LocalsOK'
        BY <1>0, <1>24 DEF LocalsOK, ConnectRead, ReplayTargets
    <2>4. UpdateHasChat'
        BY <1>0, <1>24 DEF ConnectRead, ReplayTargets
    <2> QED BY <2>1, <2>2, <2>3, <2>4, TypeParts
<1>25. CASE ConnectAdd(h)
    BY <1>0, <1>25 DEF ConnectAdd, ReplayTargets
<1>26. ASSUME NEW c \in Chats, BanCall(h, c) PROVE TypeInv'
    BY <1>0, <1>26 DEF BanCall, ban_chat_member, Barred, CallFails, CallSkipped
<1>27. ASSUME NEW c \in Chats, LiftCall(h, c) PROVE TypeInv'
    BY <1>0, <1>27 DEF LiftCall, unban_chat_member, CallFails, CallSkipped
<1>28. ASSUME NEW c \in Chats, SyncProbe(h, c) PROVE TypeInv'
    BY <1>0, <1>28 DEF SyncProbe, NeedsCorrection, Barred, Privileged, CallFails, CallSkipped
<1>29. ASSUME NEW c \in Chats, SyncAct(h, c) PROVE TypeInv'
    BY <1>0, <1>29 DEF SyncAct, ban_chat_member, unban_chat_member, Barred, Privileged, CallFails, CallSkipped
<1> QED
    BY <1>1, <1>2, <1>3, <1>4, <1>5, <1>6, <1>7, <1>8, <1>9, <1>10,
       <1>11, <1>12, <1>13, <1>14, <1>15, <1>16, <1>17, <1>18, <1>19, <1>20,
       <1>21, <1>22, <1>23, <1>24, <1>25, <1>26, <1>27, <1>28, <1>29
    DEF Step

LEMMA TypeNext == TypeInv /\ [Next]_vars => TypeInv'
<1> SUFFICES ASSUME TypeInv, [Next]_vars PROVE TypeInv'
    OBVIOUS
<1>1. CASE UNCHANGED vars
    BY <1>1 DEF TypeInv, UpdateHasChat, TypeOK, vars, stores, telegram, control, locals
<1>2. ASSUME NEW h \in Handlers, Dispatch(h) \/ Step(h) PROVE TypeInv'
    BY <1>2, TypeDispatch, TypeStep
<1>3. ASSUME NEW c \in Chats, Leave(c) \/ Appoint(c) PROVE TypeInv'
    BY <1>3 DEF Leave, Appoint, TypeInv, UpdateHasChat, TypeOK, stores, control, locals
<1>4. CASE Promote
    BY <1>4 DEF Promote, TypeInv, UpdateHasChat, TypeOK, telegram, control, locals
<1>5. CASE Terminated
    BY <1>1, <1>5 DEF Terminated
<1> QED BY <1>1, <1>2, <1>3, <1>4, <1>5 DEF Next

\* Types hold, and a handler that works on one chat's update knows the chat,
\* throughout every run of the handlers.
THEOREM TypeInvariant == Spec => []TypeInv
BY TypeInit, TypeNext, PTL DEF Spec

\* Type correctness: every counter, set and control point stays in its type,
\* whatever interleaves and whatever fails.
THEOREM TypeCorrect == Spec => []TypeOK
BY TypeInvariant, PTL DEF TypeInv

(***************************************************************************)
(* Records only grow by one insert at a time, and nothing else activates    *)
(* one: no step of any handler re-activates a record.                       *)
(***************************************************************************)
RecordsOnlyAppended ==
    \/ created' = created /\ active' \subseteq active
    \/ created' = created + 1 /\ active' = active \cup {created + 1}

LEMMA AppendStep ==
    ASSUME TypeInv, NEW h \in Handlers, Step(h)
    PROVE  RecordsOnlyAppended
<1> USE DEF RecordsOnlyAppended, stores
<1>1. CASE FetchGroups(h)
    BY <1>1 DEF FetchGroups
<1>2. CASE BanRead(h)
    BY <1>2 DEF BanRead
<1>3. CASE BanDedupe(h)
    BY <1>3 DEF BanDedupe, deactivate_extra_active_bans
<1>4. CASE BanWrite(h)
    BY <1>4 DEF BanWrite, create_ban, update_ban
<1>5. CASE BanScope(h)
    BY <1>5 DEF BanScope
<1>6. CASE BanFinish(h)
    BY <1>6 DEF BanFinish
<1>7. CASE AutoRole(h)
    BY <1>7 DEF AutoRole
<1>8. CASE AutoRead(h)
    BY <1>8 DEF AutoRead
<1>9. CASE AutoWrite(h)
    BY <1>9 DEF AutoWrite, create_ban
<1>10. CASE AutoFinish(h)
    BY <1>10 DEF AutoFinish
<1>11. CASE UnbanRead(h)
    BY <1>11 DEF UnbanRead
<1>12. CASE UnbanStaff(h)
    BY <1>12 DEF UnbanStaff
<1>13. CASE UnbanFetch(h)
    BY <1>13 DEF UnbanFetch
<1>14. CASE ApproveRead(h)
    BY <1>14 DEF ApproveRead
<1>15. CASE LiftGroups(h)
    BY <1>15 DEF LiftGroups
<1>16. CASE LiftDeactivate(h)
    BY <1>16 DEF LiftDeactivate, deactivate_all_active_bans
<1>17. CASE LiftFinish(h)
    BY <1>17 DEF LiftFinish
<1>18. CASE JoinRead(h)
    BY <1>18 DEF JoinRead
<1>19. CASE JoinDemote(h)
    BY <1>19 DEF JoinDemote
<1>20. CASE JoinBan(h)
    BY <1>20 DEF JoinBan
<1>21. CASE SyncRead(h)
    BY <1>21 DEF SyncRead, SyncAborts
<1>22. CASE SyncScope(h)
    BY <1>22 DEF SyncScope, SyncAborts
<1>23. CASE SyncFinish(h)
    BY <1>23 DEF SyncFinish
<1>24. CASE ConnectRead(h)
    BY <1>24 DEF ConnectRead
<1>25. CASE ConnectAdd(h)
    BY <1>25 DEF ConnectAdd
<1>26. ASSUME NEW c \in Chats, BanCall(h, c) PROVE RecordsOnlyAppended
    BY <1>26 DEF BanCall, CallFails, CallSkipped
<1>27. ASSUME NEW c \in Chats, LiftCall(h, c) PROVE RecordsOnlyAppended
    BY <1>27 DEF LiftCall, CallFails, CallSkipped
<1>28. ASSUME NEW c \in Chats, SyncProbe(h, c) PROVE RecordsOnlyAppended
    BY <1>28 DEF SyncProbe, CallFails, CallSkipped
<1>29. ASSUME NEW c \in Chats, SyncAct(h, c) PROVE RecordsOnlyAppended
    BY <1>29 DEF SyncAct, CallFails, CallSkipped
<1> QED
    BY <1>1, <1>2, <1>3, <1>4, <1>5, <1>6, <1>7, <1>8, <1>9, <1>10,
       <1>11, <1>12, <1>13, <1>14, <1>15, <1>16, <1>17, <1>18, <1>19, <1>20,
       <1>21, <1>22, <1>23, <1>24, <1>25, <1>26, <1>27, <1>28, <1>29
    DEF Step

LEMMA AppendNext ==
    ASSUME TypeInv, [Next]_vars
    PROVE  RecordsOnlyAppended
<1>1. CASE UNCHANGED vars
    BY <1>1 DEF RecordsOnlyAppended, vars, stores
<1>2. ASSUME NEW h \in Handlers, Dispatch(h) PROVE RecordsOnlyAppended
    BY <1>2 DEF Dispatch, StartBan, StartUnban, StartApprove, StartVerify, StartSweep,
        StartAuto, StartJoin, StartConnect, Start, RecordsOnlyAppended
<1>3. ASSUME NEW h \in Handlers, Step(h) PROVE RecordsOnlyAppended
    BY <1>3, AppendStep
<1>4. ASSUME NEW c \in Chats, Leave(c) \/ Appoint(c) PROVE RecordsOnlyAppended
    BY <1>4 DEF Leave, Appoint, RecordsOnlyAppended, stores
<1>5. CASE Promote
    BY <1>5 DEF Promote, RecordsOnlyAppended
<1>6. CASE Terminated
    BY <1>1, <1>6 DEF Terminated
<1> QED BY <1>1, <1>2, <1>3, <1>4, <1>5, <1>6 DEF Next

\* No step re-activates a record that an unban, an approved appeal or the
\* duplicate cleanup deactivated, for any number of overlapping handlers.
THEOREM LiftedNeverReturns == Spec => LiftedStaysLifted
<1>1. TypeInv /\ [Next]_vars => [\A i \in 1..created : i \notin active => i \notin active']_vars
    <2> SUFFICES ASSUME TypeInv, [Next]_vars, NEW i \in 1..created, i \notin active
                 PROVE  i \notin active'
        BY Zenon
    <2>1. created \in Nat /\ i # created + 1
        BY DEF TypeInv, TypeOK
    <2> QED BY <2>1, AppendNext DEF RecordsOnlyAppended
<1> QED BY <1>1, TypeInvariant, PTL DEF Spec, LiftedStaysLifted

(***************************************************************************)
(* Fail closed.  EnforcementHasRecord is inductive together with: a handler *)
(* only remembers records that exist.                                       *)
(***************************************************************************)
SeenExists == \A h \in Handlers : seen[h] <= created
RecordInv == SeenExists /\ EnforcementHasRecord

LEMMA RecordInit == Init => RecordInv
BY DEF Init, RecordInv, SeenExists, EnforcementHasRecord, Enforcing

LEMMA RecordDispatch ==
    ASSUME TypeInv, RecordInv, NEW h \in Handlers, Dispatch(h)
    PROVE  RecordInv'
<1> USE DEF Start, TypeInv, TypeOK, RecordInv, SeenExists, EnforcementHasRecord,
            Enforcing, locals, telegram
<1>1. CASE StartBan(h) BY <1>1 DEF StartBan
<1>2. CASE StartUnban(h) BY <1>2 DEF StartUnban
<1>3. CASE StartApprove(h) BY <1>3 DEF StartApprove
<1>4. CASE StartVerify(h) BY <1>4 DEF StartVerify
<1>5. CASE StartSweep(h) BY <1>5 DEF StartSweep
<1>6. ASSUME NEW c \in Chats, StartAuto(h, c) PROVE RecordInv'
    BY <1>6 DEF StartAuto
<1>7. ASSUME NEW c \in Chats, StartJoin(h, c) PROVE RecordInv'
    BY <1>7 DEF StartJoin
<1>8. ASSUME NEW c \in Chats, StartConnect(h, c) PROVE RecordInv'
    BY <1>8 DEF StartConnect
<1> QED BY <1>1, <1>2, <1>3, <1>4, <1>5, <1>6, <1>7, <1>8 DEF Dispatch

LEMMA RecordStep ==
    ASSUME TypeInv, RecordInv, NEW h \in Handlers, Step(h)
    PROVE  RecordInv'
<1> USE DEF TypeInv, TypeOK, RecordInv, SeenExists, EnforcementHasRecord, Enforcing,
            Goto, End, stores, telegram, control, locals
<1>0. /\ NewestBan \in 0..created /\ NewestBan \in Nat
      /\ active # {} => NewestBan # 0
    BY NewestBanIsActive
<1>1. CASE FetchGroups(h)
    BY <1>0, <1>1 DEF FetchGroups, FetchPoints
<1>2. CASE BanRead(h)
    BY <1>0, <1>2 DEF BanRead
<1>3. CASE BanDedupe(h)
    BY <1>0, <1>3 DEF BanDedupe, deactivate_extra_active_bans
<1>4. CASE BanWrite(h)
    BY <1>0, <1>4 DEF BanWrite, create_ban, update_ban
<1>5. CASE BanScope(h)
    BY <1>0, <1>5 DEF BanScope
<1>6. CASE BanFinish(h)
    BY <1>0, <1>6 DEF BanFinish
<1>7. CASE AutoRole(h)
    BY <1>0, <1>7 DEF AutoRole
<1>8. CASE AutoRead(h)
    BY <1>0, <1>8 DEF AutoRead
<1>9. CASE AutoWrite(h)
    BY <1>0, <1>9 DEF AutoWrite, create_ban
<1>10. CASE AutoFinish(h)
    BY <1>0, <1>10 DEF AutoFinish
<1>11. CASE UnbanRead(h)
    BY <1>0, <1>11 DEF UnbanRead
<1>12. CASE UnbanStaff(h)
    BY <1>0, <1>12 DEF UnbanStaff
<1>13. CASE UnbanFetch(h)
    BY <1>0, <1>13 DEF UnbanFetch
<1>14. CASE ApproveRead(h)
    BY <1>0, <1>14 DEF ApproveRead
<1>15. CASE LiftGroups(h)
    BY <1>0, <1>15 DEF LiftGroups
<1>16. CASE LiftDeactivate(h)
    BY <1>0, <1>16 DEF LiftDeactivate, deactivate_all_active_bans
<1>17. CASE LiftFinish(h)
    BY <1>0, <1>17 DEF LiftFinish
<1>18. CASE JoinRead(h)
    BY <1>0, <1>18 DEF JoinRead
<1>19. CASE JoinDemote(h)
    BY <1>0, <1>19 DEF JoinDemote
<1>20. CASE JoinBan(h)
    BY <1>0, <1>20 DEF JoinBan, ban_chat_member, Barred, CallFails, CallSkipped
<1>21. CASE SyncRead(h)
    BY <1>0, <1>21 DEF SyncRead, SyncAborts
<1>22. CASE SyncScope(h)
    BY <1>0, <1>22 DEF SyncScope, SyncAborts
<1>23. CASE SyncFinish(h)
    BY <1>0, <1>23 DEF SyncFinish
<1>24. CASE ConnectRead(h)
    BY <1>0, <1>24 DEF ConnectRead, ReplayTargets
<1>25. CASE ConnectAdd(h)
    BY <1>0, <1>25 DEF ConnectAdd, ReplayTargets
<1>26. ASSUME NEW c \in Chats, BanCall(h, c) PROVE RecordInv'
    BY <1>0, <1>26 DEF BanCall, ban_chat_member, Barred, CallFails, CallSkipped
<1>27. ASSUME NEW c \in Chats, LiftCall(h, c) PROVE RecordInv'
    BY <1>0, <1>27 DEF LiftCall, unban_chat_member, CallFails, CallSkipped
<1>28. ASSUME NEW c \in Chats, SyncProbe(h, c) PROVE RecordInv'
    BY <1>0, <1>28 DEF SyncProbe, CallFails, CallSkipped
<1>29. ASSUME NEW c \in Chats, SyncAct(h, c) PROVE RecordInv'
    BY <1>0, <1>29 DEF SyncAct, ban_chat_member, unban_chat_member, Barred, Privileged, CallFails, CallSkipped
<1> QED
    BY <1>1, <1>2, <1>3, <1>4, <1>5, <1>6, <1>7, <1>8, <1>9, <1>10,
       <1>11, <1>12, <1>13, <1>14, <1>15, <1>16, <1>17, <1>18, <1>19, <1>20,
       <1>21, <1>22, <1>23, <1>24, <1>25, <1>26, <1>27, <1>28, <1>29
    DEF Step

LEMMA RecordNext == TypeInv /\ RecordInv /\ [Next]_vars => RecordInv'
<1> SUFFICES ASSUME TypeInv, RecordInv, [Next]_vars PROVE RecordInv'
    OBVIOUS
<1> USE DEF RecordInv, SeenExists, EnforcementHasRecord, Enforcing, stores, telegram,
            control, locals
<1>1. CASE UNCHANGED vars
    BY <1>1 DEF vars
<1>2. ASSUME NEW h \in Handlers, Dispatch(h) \/ Step(h) PROVE RecordInv'
    BY <1>2, RecordDispatch, RecordStep
<1>3. ASSUME NEW c \in Chats, Leave(c) \/ Appoint(c) PROVE RecordInv'
    BY <1>3 DEF Leave, Appoint
<1>4. CASE Promote
    BY <1>4 DEF Promote
<1>5. CASE Terminated
    BY <1>1, <1>5 DEF Terminated
<1> QED BY <1>1, <1>2, <1>3, <1>4, <1>5 DEF Next

\* Fail closed, for any chats, handlers and failures: nothing enforces a ban
\* that the database does not hold.
THEOREM EnforcementRecorded == Spec => []EnforcementHasRecord
<1>1. Spec => []RecordInv
    BY TypeInvariant, RecordInit, RecordNext, PTL DEF Spec
<1> QED BY <1>1, PTL DEF RecordInv

(***************************************************************************)
(* Lift order.  LiftFollowsDeactivation is inductive together with: the     *)
(* records a lift covered existed when it deactivated them.                 *)
(***************************************************************************)
CutExists == \A h \in Handlers : cut[h] <= created
LiftInv == CutExists /\ LiftFollowsDeactivation

\* What every step but a deactivation does to a lift in progress: nothing.
LiftFrame ==
    /\ cut' = cut
    /\ \A g \in Handlers : pc'[g] = "lift_fan" => pc[g] = "lift_fan"

LEMMA FrameKeepsLift ==
    ASSUME TypeInv, LiftInv, LiftFrame, RecordsOnlyAppended
    PROVE  LiftInv'
<1>1. created \in Nat /\ cut \in [Handlers -> Nat]
    BY DEF TypeInv, TypeOK
<1>2. CutExists'
    BY <1>1 DEF LiftInv, CutExists, LiftFrame, RecordsOnlyAppended
<1>3. LiftFollowsDeactivation'
    <2> SUFFICES ASSUME NEW g \in Handlers, pc'[g] = "lift_fan", NEW i \in 1..cut[g]
                 PROVE  i \notin active'
        BY DEF LiftFollowsDeactivation, LiftFrame
    <2>1. i \notin active
        BY DEF LiftInv, LiftFollowsDeactivation, LiftFrame
    <2>2. i # created + 1
        BY <1>1 DEF LiftInv, CutExists
    <2> QED BY <2>1, <2>2 DEF RecordsOnlyAppended
<1> QED BY <1>2, <1>3 DEF LiftInv

LEMMA LiftStep ==
    ASSUME TypeInv, LiftInv, NEW h \in Handlers, Step(h)
    PROVE  LiftInv'
<1> USE DEF LiftFrame, TypeInv, TypeOK, Goto, End, control
<1>0. LiftFrame => LiftInv'
    BY AppendStep, FrameKeepsLift
<1>1. CASE FetchGroups(h)
    BY <1>0, <1>1 DEF FetchGroups
<1>2. CASE BanRead(h)
    BY <1>0, <1>2 DEF BanRead
<1>3. CASE BanDedupe(h)
    BY <1>0, <1>3 DEF BanDedupe
<1>4. CASE BanWrite(h)
    BY <1>0, <1>4 DEF BanWrite
<1>5. CASE BanScope(h)
    BY <1>0, <1>5 DEF BanScope
<1>6. CASE BanFinish(h)
    BY <1>0, <1>6 DEF BanFinish
<1>7. CASE AutoRole(h)
    BY <1>0, <1>7 DEF AutoRole
<1>8. CASE AutoRead(h)
    BY <1>0, <1>8 DEF AutoRead
<1>9. CASE AutoWrite(h)
    BY <1>0, <1>9 DEF AutoWrite
<1>10. CASE AutoFinish(h)
    BY <1>0, <1>10 DEF AutoFinish
<1>11. CASE UnbanRead(h)
    BY <1>0, <1>11 DEF UnbanRead
<1>12. CASE UnbanStaff(h)
    BY <1>0, <1>12 DEF UnbanStaff
<1>13. CASE UnbanFetch(h)
    BY <1>0, <1>13 DEF UnbanFetch
<1>14. CASE ApproveRead(h)
    BY <1>0, <1>14 DEF ApproveRead
<1>15. CASE LiftGroups(h)
    BY <1>0, <1>15 DEF LiftGroups
<1>16. CASE LiftDeactivate(h)
    <2>1. CASE active' = {} /\ cut' = [cut EXCEPT ![h] = created] /\ created' = created
        BY <2>1 DEF LiftInv, CutExists, LiftFollowsDeactivation
    <2>2. CASE cut' = cut /\ End(h, "aborted")
        BY <2>2, <1>0
    <2> QED BY <1>16, <2>1, <2>2 DEF LiftDeactivate, deactivate_all_active_bans
<1>17. CASE LiftFinish(h)
    BY <1>0, <1>17 DEF LiftFinish
<1>18. CASE JoinRead(h)
    BY <1>0, <1>18 DEF JoinRead
<1>19. CASE JoinDemote(h)
    BY <1>0, <1>19 DEF JoinDemote
<1>20. CASE JoinBan(h)
    BY <1>0, <1>20 DEF JoinBan
<1>21. CASE SyncRead(h)
    BY <1>0, <1>21 DEF SyncRead, SyncAborts
<1>22. CASE SyncScope(h)
    BY <1>0, <1>22 DEF SyncScope, SyncAborts
<1>23. CASE SyncFinish(h)
    BY <1>0, <1>23 DEF SyncFinish
<1>24. CASE ConnectRead(h)
    BY <1>0, <1>24 DEF ConnectRead
<1>25. CASE ConnectAdd(h)
    BY <1>0, <1>25 DEF ConnectAdd
<1>26. ASSUME NEW c \in Chats, BanCall(h, c) PROVE LiftInv'
    BY <1>0, <1>26 DEF BanCall, CallFails, CallSkipped
<1>27. ASSUME NEW c \in Chats, LiftCall(h, c) PROVE LiftInv'
    BY <1>0, <1>27 DEF LiftCall, CallFails, CallSkipped
<1>28. ASSUME NEW c \in Chats, SyncProbe(h, c) PROVE LiftInv'
    BY <1>0, <1>28 DEF SyncProbe, CallFails, CallSkipped
<1>29. ASSUME NEW c \in Chats, SyncAct(h, c) PROVE LiftInv'
    BY <1>0, <1>29 DEF SyncAct, CallFails, CallSkipped
<1> QED
    BY <1>1, <1>2, <1>3, <1>4, <1>5, <1>6, <1>7, <1>8, <1>9, <1>10,
       <1>11, <1>12, <1>13, <1>14, <1>15, <1>16, <1>17, <1>18, <1>19, <1>20,
       <1>21, <1>22, <1>23, <1>24, <1>25, <1>26, <1>27, <1>28, <1>29
    DEF Step

LEMMA LiftNext == TypeInv /\ LiftInv /\ [Next]_vars => LiftInv'
<1> SUFFICES ASSUME TypeInv, LiftInv, [Next]_vars PROVE LiftInv'
    OBVIOUS
<1>0. LiftFrame => LiftInv'
    BY AppendNext, FrameKeepsLift
<1> USE DEF LiftFrame, control, TypeInv, TypeOK
<1>1. CASE UNCHANGED vars
    BY <1>0, <1>1 DEF vars
<1>2. ASSUME NEW h \in Handlers, Dispatch(h) PROVE LiftInv'
    BY <1>0, <1>2 DEF Dispatch, StartBan, StartUnban, StartApprove, StartVerify,
        StartSweep, StartAuto, StartJoin, StartConnect, Start
<1>3. ASSUME NEW h \in Handlers, Step(h) PROVE LiftInv'
    BY <1>3, LiftStep
<1>4. ASSUME NEW c \in Chats, Leave(c) \/ Appoint(c) PROVE LiftInv'
    BY <1>0, <1>4 DEF Leave, Appoint
<1>5. CASE Promote
    BY <1>0, <1>5 DEF Promote
<1>6. CASE Terminated
    BY <1>1, <1>6 DEF Terminated
<1> QED BY <1>1, <1>2, <1>3, <1>4, <1>5, <1>6 DEF Next

\* /tcunban and an approved appeal unban a chat only once every record that
\* existed at their deactivation is inactive, and it stays so while they fan
\* out, whatever else runs.
THEOREM LiftsAfterDeactivation == Spec => []LiftFollowsDeactivation
<1>1. Init => LiftInv
    BY DEF Init, LiftInv, CutExists, LiftFollowsDeactivation
<1>2. Spec => []LiftInv
    BY <1>1, TypeInvariant, LiftNext, PTL DEF Spec
<1> QED BY <1>2, PTL DEF LiftInv

(***************************************************************************)
(* A step of a handler is its own: it moves no other handler and touches    *)
(* no other handler's locals.                                               *)
(***************************************************************************)
StepFrame(h) ==
    /\ h \in Busy /\ Busy' \subseteq Busy /\ connected \subseteq connected'
    /\ kind' = kind /\ at' = at /\ alone' = alone
    /\ \A g \in Handlers \ {h} :
          /\ pc'[g] = pc[g] /\ seen'[g] = seen[g] /\ groups'[g] = groups[g]
          /\ scope'[g] = scope[g] /\ todo'[g] = todo[g] /\ act'[g] = act[g]
          /\ failed'[g] = failed[g] /\ skipped'[g] = skipped[g] /\ outcome'[g] = outcome[g]
    /\ skipped[h] \subseteq skipped'[h]

LEMMA StepIsLocal ==
    ASSUME TypeInv, NEW h \in Handlers, Step(h)
    PROVE  StepFrame(h)
<1> USE DEF TypeInv, TypeOK, StepFrame, Busy, Goto, End, stores, control, locals
<1>1. CASE FetchGroups(h)
    BY <1>1 DEF FetchGroups, FetchPoints
<1>2. CASE BanRead(h)
    BY <1>2 DEF BanRead
<1>3. CASE BanDedupe(h)
    BY <1>3 DEF BanDedupe
<1>4. CASE BanWrite(h)
    BY <1>4 DEF BanWrite, create_ban, update_ban
<1>5. CASE BanScope(h)
    BY <1>5 DEF BanScope
<1>6. CASE BanFinish(h)
    BY <1>6 DEF BanFinish
<1>7. CASE AutoRole(h)
    BY <1>7 DEF AutoRole
<1>8. CASE AutoRead(h)
    BY <1>8 DEF AutoRead
<1>9. CASE AutoWrite(h)
    BY <1>9 DEF AutoWrite, AutoScope, with_primary_groups, create_ban
<1>10. CASE AutoFinish(h)
    BY <1>10 DEF AutoFinish
<1>11. CASE UnbanRead(h)
    BY <1>11 DEF UnbanRead
<1>12. CASE UnbanStaff(h)
    BY <1>12 DEF UnbanStaff
<1>13. CASE UnbanFetch(h)
    BY <1>13 DEF UnbanFetch
<1>14. CASE ApproveRead(h)
    BY <1>14 DEF ApproveRead
<1>15. CASE LiftGroups(h)
    BY <1>15 DEF LiftGroups
<1>16. CASE LiftDeactivate(h)
    BY <1>16 DEF LiftDeactivate
<1>17. CASE LiftFinish(h)
    BY <1>17 DEF LiftFinish
<1>18. CASE JoinRead(h)
    BY <1>18 DEF JoinRead
<1>19. CASE JoinDemote(h)
    BY <1>19 DEF JoinDemote
<1>20. CASE JoinBan(h)
    BY <1>20 DEF JoinBan
<1>21. CASE SyncRead(h)
    BY <1>21 DEF SyncRead, SyncAborts
<1>22. CASE SyncScope(h)
    BY <1>22 DEF SyncScope, SyncAborts
<1>23. CASE SyncFinish(h)
    BY <1>23 DEF SyncFinish
<1>24. CASE ConnectRead(h)
    BY <1>24 DEF ConnectRead
<1>25. CASE ConnectAdd(h)
    BY <1>25 DEF ConnectAdd
<1>26. ASSUME NEW c \in Chats, BanCall(h, c) PROVE StepFrame(h)
    BY <1>26 DEF BanCall, CallFails, CallSkipped
<1>27. ASSUME NEW c \in Chats, LiftCall(h, c) PROVE StepFrame(h)
    BY <1>27 DEF LiftCall, CallFails, CallSkipped
<1>28. ASSUME NEW c \in Chats, SyncProbe(h, c) PROVE StepFrame(h)
    BY <1>28 DEF SyncProbe, CallFails, CallSkipped
<1>29. ASSUME NEW c \in Chats, SyncAct(h, c) PROVE StepFrame(h)
    BY <1>29 DEF SyncAct, CallFails, CallSkipped
<1> QED
    BY <1>1, <1>2, <1>3, <1>4, <1>5, <1>6, <1>7, <1>8, <1>9, <1>10,
       <1>11, <1>12, <1>13, <1>14, <1>15, <1>16, <1>17, <1>18, <1>19, <1>20,
       <1>21, <1>22, <1>23, <1>24, <1>25, <1>26, <1>27, <1>28, <1>29
    DEF Step

\* What the steps outside a handler leave alone: everything but a chat's
\* membership and the target's role.
Ambient ==
    /\ UNCHANGED <<created, active, connected, warned, chatBan, control>>
    /\ UNCHANGED <<pc, locals, outcome>> /\ member' \subseteq member

\* Every step is the dispatch of a handler, a step of one, or ambient.
LEMMA NextCases ==
    ASSUME [Next]_vars
    PROVE  \/ \E h \in Handlers : Dispatch(h)
           \/ \E h \in Handlers : Step(h)
           \/ Ambient
<1> USE DEF Ambient, stores, telegram
<1>1. CASE UNCHANGED vars
    BY <1>1 DEF vars
<1>2. ASSUME NEW c \in Chats, Leave(c) \/ Appoint(c) PROVE Ambient
    BY <1>2 DEF Leave, Appoint
<1>3. CASE Promote
    BY <1>3 DEF Promote
<1>4. CASE Terminated
    BY <1>1, <1>4 DEF Terminated
<1> QED BY <1>1, <1>2, <1>3, <1>4 DEF Next

(***************************************************************************)
(* One handler at a time (MaxBusy = 1): no silent divergence.               *)
(*                                                                         *)
(* The argument: a chat that disagrees with the bans collection is always   *)
(* some running handler's unfinished business (Late), unless a handler has  *)
(* reported that chat (Said) or met a benign refusal there (Left): Tracked. *)
(* For that a handler's snapshot of the ban and of the group list must      *)
(* still be true when it is used (Known), and every chat it reaches for     *)
(* must belong to the federation (Within).                                  *)
(***************************************************************************)
Serial == \A g, h \in Handlers : g \in Busy /\ h \in Busy => g = h

\* The chat of the update: in the federation, or about to enter it.
HomePoints == {"auto_role", "auto_read", "auto_write", "join_read", "join_demote",
               "join_ban", "conn_added"}
LoadPoints == {"conn_load", "conn_read"}
HomeOK(h) ==
    /\ scope[h] \subseteq Federated /\ todo[h] \subseteq Federated
    /\ act[h] \subseteq Federated
    /\ pc[h] \in HomePoints => at[h] \in Federated
    /\ pc[h] \in LoadPoints => at[h] \notin Federated
    /\ pc[h] \in {"join_read", "join_demote", "join_ban"} => kind[h] = "join"
    /\ pc[h] \in {"conn_load", "conn_read", "conn_added", "conn_fan"} => kind[h] = "connect"
    /\ pc[h] \in {"ban_read", "ban_dedupe", "ban_write", "ban_scope", "ban_fan",
                  "auto_role", "auto_read", "auto_write", "auto_fan"} => kind[h] \in {"ban", "auto"}
    /\ pc[h] \in {"unban_read", "unban_staff", "unban_fetch", "approve_read", "lift_groups",
                  "lift_deact", "lift_fan"} => kind[h] \in {"unban", "approve"}
Within == chatBan \subseteq Federated /\ \A h \in Handlers : HomeOK(h)

\* What a handler believes of the bans collection is so.
BanPoints == {"ban_dedupe", "ban_scope", "ban_fan", "auto_fan", "join_demote", "join_ban"}
KnownBan(h) ==
    /\ pc[h] \in {"idle", "auto_role", "auto_read", "conn_load", "conn_added"} => seen[h] = 0
    /\ pc[h] = "conn_read" /\ groups[h] = "failed" => seen[h] = 0
    /\ pc[h] = "ban_dedupe" => seen[h] \in active
    /\ pc[h] \in {"ban_write", "auto_write"} /\ seen[h] # 0 => active # {}
    /\ pc[h] \in BanPoints => active # {}
    /\ pc[h] = "lift_fan" => active = {}
    /\ pc[h] \in {"sync_scope", "sync_fan"} => (seen[h] # 0 <=> active # {})
    /\ pc[h] \in {"conn_read", "conn_fan"} =>
          groups[h] = "failed" \/ (seen[h] # 0 <=> active # {})

\* What it believes of the groups collection is so, and it has said nothing yet.
NewcomerPoints == {"conn_load", "conn_read", "conn_added", "join_read"}
KnownScope(h) ==
    /\ pc[h] \in FetchPoints \cup {"lift_deact"} /\ groups[h] = "ok" =>
          scope[h] = connected
    /\ pc[h] = "lift_deact" => groups[h] = "ok"
    /\ pc[h] \in {"idle", "auto_role"} => groups[h] = "unread"
    /\ pc[h] = "conn_fan" /\ todo[h] # {} => seen[h] # 0 /\ groups[h] # "failed"
    /\ pc[h] \in NewcomerPoints => at[h] \notin chatBan
    /\ pc[h] # "done" => outcome[h] = "none"
    /\ pc[h] = "idle" => skipped[h] = {}
Known == \A h \in Handlers : KnownBan(h) /\ KnownScope(h)

\* Chat c is business that handler h has not finished.
Late(h, c) ==
    \/ pc[h] = "ban_scope"
    \/ pc[h] \in {"ban_fan", "auto_fan", "lift_fan", "conn_fan"} /\ c \in todo[h] \cup failed[h]
    \/ pc[h] \in {"ban_fan", "auto_fan"} /\ groups[h] = "failed"
    \/ pc[h] = "conn_fan" /\ groups[h] = "failed" /\ c = at[h]
    \/ pc[h] \in {"join_read", "join_demote", "join_ban", "conn_added"} /\ c = at[h]

\* Handler h has reported it, or was refused there without counting it.
Said(h, c) == outcome[h] \in {"partial", "logged"} /\ ReportCovers(h, c)
Left(h, c) == kind[h] \notin {"verify", "sweep"} /\ c \in skipped[h]
Tracked == \A c \in Divergent : \E h \in Handlers : Late(h, c) \/ Said(h, c) \/ Left(h, c)

\* What a step of h leaves divergent it answers for, or had not to answer for.
Accounts(h) ==
    \A c \in Divergent' :
        Late(h, c)' \/ Said(h, c)' \/ Left(h, c)' \/ (c \in Divergent /\ ~Late(h, c))

SerialInv == Serial /\ Within /\ Known /\ Tracked

\* A step seen from the handler that takes it.
LEMMA SerialStepOfOne ==
    ASSUME TypeInv, NEW h \in Handlers, Step(h),
           chatBan \subseteq Federated, HomeOK(h), KnownBan(h), KnownScope(h)
    PROVE  /\ (chatBan \subseteq Federated)' /\ HomeOK(h)'
           /\ KnownBan(h)' /\ KnownScope(h)'
           /\ Accounts(h)
<1> DEFINE Good == /\ (chatBan \subseteq Federated)' /\ HomeOK(h)'
                   /\ KnownBan(h)' /\ KnownScope(h)'
                   /\ Accounts(h)
<1> USE DEF TypeInv, TypeOK, Goto, End, stores, telegram, control, locals, Federated
<1>0. /\ active # {} => NewestBan \in active /\ NewestBan # 0
      /\ active = {} => NewestBan = 0
      /\ NewestBan \in Nat
    BY NewestBanIsActive
<1>1. CASE FetchGroups(h)
    <2>1. (chatBan \subseteq Federated)' /\ HomeOK(h)'
        BY <1>1, ChatAssumption DEF HomeOK, HomePoints, LoadPoints, FetchGroups,
           FetchPoints
    <2>2. KnownBan(h)'
        BY <1>0, <1>1 DEF KnownBan, KnownScope, BanPoints, FetchGroups, FetchPoints
    <2>3. KnownScope(h)'
        BY <1>1 DEF KnownScope, KnownBan, NewcomerPoints, FetchPoints, HomeOK,
           LoadPoints, FetchGroups
    <2>4. Accounts(h)
        BY <1>0, <1>1, ChatAssumption DEF Accounts, Said, Left, ReportCovers, Divergent, Late, KnownBan,
           KnownScope, BanPoints, FetchPoints, NewcomerPoints, HomeOK, LoadPoints,
           HomePoints, FetchGroups
    <2> QED BY <2>1, <2>2, <2>3, <2>4
<1>2. CASE BanRead(h)
    <2>1. (chatBan \subseteq Federated)' /\ HomeOK(h)'
        BY <1>2, ChatAssumption DEF HomeOK, HomePoints, LoadPoints, BanRead
    <2>2. KnownBan(h)'
        BY <1>0, <1>2 DEF KnownBan, KnownScope, BanPoints, BanRead
    <2>3. KnownScope(h)'
        BY <1>2 DEF KnownScope, KnownBan, NewcomerPoints, FetchPoints, HomeOK,
           LoadPoints, BanRead
    <2>4. Accounts(h)
        BY <1>0, <1>2, ChatAssumption DEF Accounts, Said, Left, ReportCovers, Divergent, Late, KnownBan,
           KnownScope, BanPoints, FetchPoints, NewcomerPoints, HomeOK, LoadPoints,
           HomePoints, BanRead
    <2> QED BY <2>1, <2>2, <2>3, <2>4
<1>3. CASE BanDedupe(h)
    <2>1. (chatBan \subseteq Federated)' /\ HomeOK(h)'
        BY <1>3, ChatAssumption DEF HomeOK, HomePoints, LoadPoints, BanDedupe,
           deactivate_extra_active_bans
    <2>2. KnownBan(h)'
        BY <1>0, <1>3 DEF KnownBan, KnownScope, BanPoints, BanDedupe,
           deactivate_extra_active_bans
    <2>3. KnownScope(h)'
        BY <1>3 DEF KnownScope, KnownBan, NewcomerPoints, FetchPoints, HomeOK,
           LoadPoints, BanDedupe, deactivate_extra_active_bans
    <2>4. Accounts(h)
        BY <1>0, <1>3, ChatAssumption DEF Accounts, Said, Left, ReportCovers, Divergent, Late, KnownBan,
           KnownScope, BanPoints, FetchPoints, NewcomerPoints, HomeOK, LoadPoints,
           HomePoints, BanDedupe, deactivate_extra_active_bans
    <2> QED BY <2>1, <2>2, <2>3, <2>4
<1>4. CASE BanWrite(h)
    <2>1. (chatBan \subseteq Federated)' /\ HomeOK(h)'
        BY <1>4, ChatAssumption DEF HomeOK, HomePoints, LoadPoints, BanWrite,
           create_ban, update_ban
    <2>2. KnownBan(h)'
        BY <1>0, <1>4 DEF KnownBan, KnownScope, BanPoints, BanWrite, create_ban,
           update_ban
    <2>3. KnownScope(h)'
        BY <1>4 DEF KnownScope, KnownBan, NewcomerPoints, FetchPoints, HomeOK,
           LoadPoints, BanWrite, create_ban, update_ban
    <2>4. Accounts(h)
        BY <1>0, <1>4, ChatAssumption DEF Accounts, Said, Left, ReportCovers, Divergent, Late, KnownBan,
           KnownScope, BanPoints, FetchPoints, NewcomerPoints, HomeOK, LoadPoints,
           HomePoints, BanWrite, create_ban, update_ban
    <2> QED BY <2>1, <2>2, <2>3, <2>4
<1>5. CASE BanScope(h)
    <2>1. (chatBan \subseteq Federated)' /\ HomeOK(h)'
        BY <1>5, ChatAssumption DEF HomeOK, HomePoints, LoadPoints, BanScope,
           with_primary_groups
    <2>2. KnownBan(h)'
        BY <1>0, <1>5 DEF KnownBan, KnownScope, BanPoints, BanScope,
           with_primary_groups
    <2>3. KnownScope(h)'
        BY <1>5 DEF KnownScope, KnownBan, NewcomerPoints, FetchPoints, HomeOK,
           LoadPoints, BanScope, with_primary_groups
    <2>4. Accounts(h)
        BY <1>0, <1>5, ChatAssumption DEF Accounts, Said, Left, ReportCovers, Divergent, Late, KnownBan,
           KnownScope, BanPoints, FetchPoints, NewcomerPoints, HomeOK, LoadPoints,
           HomePoints, BanScope, with_primary_groups
    <2> QED BY <2>1, <2>2, <2>3, <2>4
<1>6. CASE BanFinish(h)
    <2>1. (chatBan \subseteq Federated)' /\ HomeOK(h)'
        BY <1>6, ChatAssumption DEF HomeOK, HomePoints, LoadPoints, BanFinish,
           FanOutcome, ReplayOutcome
    <2>2. KnownBan(h)'
        BY <1>0, <1>6 DEF KnownBan, KnownScope, BanPoints, BanFinish, FanOutcome, ReplayOutcome
    <2>3. KnownScope(h)'
        BY <1>6 DEF KnownScope, KnownBan, NewcomerPoints, FetchPoints, HomeOK,
           LoadPoints, BanFinish, FanOutcome, ReplayOutcome
    <2>4. Accounts(h)
        BY <1>0, <1>6, ChatAssumption DEF Accounts, Said, Left, ReportCovers, Divergent, Late, KnownBan,
           KnownScope, BanPoints, FetchPoints, NewcomerPoints, HomeOK, LoadPoints,
           HomePoints, BanFinish, FanOutcome, ReplayOutcome
    <2> QED BY <2>1, <2>2, <2>3, <2>4
<1>7. CASE AutoRole(h)
    <2>1. (chatBan \subseteq Federated)' /\ HomeOK(h)'
        BY <1>7, ChatAssumption DEF HomeOK, HomePoints, LoadPoints, AutoRole
    <2>2. KnownBan(h)'
        BY <1>0, <1>7 DEF KnownBan, KnownScope, BanPoints, AutoRole
    <2>3. KnownScope(h)'
        BY <1>7 DEF KnownScope, KnownBan, NewcomerPoints, FetchPoints, HomeOK,
           LoadPoints, AutoRole
    <2>4. Accounts(h)
        BY <1>0, <1>7, ChatAssumption DEF Accounts, Said, Left, ReportCovers, Divergent, Late, KnownBan,
           KnownScope, BanPoints, FetchPoints, NewcomerPoints, HomeOK, LoadPoints,
           HomePoints, AutoRole
    <2> QED BY <2>1, <2>2, <2>3, <2>4
<1>8. CASE AutoRead(h)
    <2>1. (chatBan \subseteq Federated)' /\ HomeOK(h)'
        BY <1>8, ChatAssumption DEF HomeOK, HomePoints, LoadPoints, AutoRead
    <2>2. KnownBan(h)'
        BY <1>0, <1>8 DEF KnownBan, KnownScope, BanPoints, AutoRead
    <2>3. KnownScope(h)'
        BY <1>8 DEF KnownScope, KnownBan, NewcomerPoints, FetchPoints, HomeOK,
           LoadPoints, AutoRead
    <2>4. Accounts(h)
        BY <1>0, <1>8, ChatAssumption DEF Accounts, Said, Left, ReportCovers, Divergent, Late, KnownBan,
           KnownScope, BanPoints, FetchPoints, NewcomerPoints, HomeOK, LoadPoints,
           HomePoints, AutoRead
    <2> QED BY <2>1, <2>2, <2>3, <2>4
<1>9. CASE AutoWrite(h)
    <2>1. (chatBan \subseteq Federated)' /\ HomeOK(h)'
        BY <1>9, ChatAssumption DEF HomeOK, HomePoints, LoadPoints, AutoWrite,
           AutoScope, with_primary_groups, create_ban
    <2>2. KnownBan(h)'
        BY <1>0, <1>9 DEF KnownBan, KnownScope, BanPoints, AutoWrite, AutoScope,
           with_primary_groups, create_ban
    <2>3. KnownScope(h)'
        BY <1>9 DEF KnownScope, KnownBan, NewcomerPoints, FetchPoints, HomeOK,
           LoadPoints, AutoWrite, AutoScope, with_primary_groups, create_ban
    <2>4. Accounts(h)
        BY <1>0, <1>9, ChatAssumption DEF Accounts, Said, Left, ReportCovers, Divergent, Late, KnownBan,
           KnownScope, BanPoints, FetchPoints, NewcomerPoints, HomeOK, LoadPoints,
           HomePoints, AutoWrite, AutoScope, with_primary_groups, create_ban
    <2> QED BY <2>1, <2>2, <2>3, <2>4
<1>10. CASE AutoFinish(h)
    <2>1. (chatBan \subseteq Federated)' /\ HomeOK(h)'
        BY <1>10, ChatAssumption DEF HomeOK, HomePoints, LoadPoints, AutoFinish,
           FanOutcome
    <2>2. KnownBan(h)'
        BY <1>0, <1>10 DEF KnownBan, KnownScope, BanPoints, AutoFinish, FanOutcome
    <2>3. KnownScope(h)'
        BY <1>10 DEF KnownScope, KnownBan, NewcomerPoints, FetchPoints, HomeOK,
           LoadPoints, AutoFinish, FanOutcome
    <2>4. Accounts(h)
        BY <1>0, <1>10, ChatAssumption DEF Accounts, Said, Left, ReportCovers, Divergent, Late, KnownBan,
           KnownScope, BanPoints, FetchPoints, NewcomerPoints, HomeOK, LoadPoints,
           HomePoints, AutoFinish, FanOutcome
    <2> QED BY <2>1, <2>2, <2>3, <2>4
<1>11. CASE UnbanRead(h)
    <2>1. (chatBan \subseteq Federated)' /\ HomeOK(h)'
        BY <1>11, ChatAssumption DEF HomeOK, HomePoints, LoadPoints, UnbanRead
    <2>2. KnownBan(h)'
        BY <1>0, <1>11 DEF KnownBan, KnownScope, BanPoints, UnbanRead
    <2>3. KnownScope(h)'
        BY <1>11 DEF KnownScope, KnownBan, NewcomerPoints, FetchPoints, HomeOK,
           LoadPoints, UnbanRead
    <2>4. Accounts(h)
        BY <1>0, <1>11, ChatAssumption DEF Accounts, Said, Left, ReportCovers, Divergent, Late, KnownBan,
           KnownScope, BanPoints, FetchPoints, NewcomerPoints, HomeOK, LoadPoints,
           HomePoints, UnbanRead
    <2> QED BY <2>1, <2>2, <2>3, <2>4
<1>12. CASE UnbanStaff(h)
    <2>1. (chatBan \subseteq Federated)' /\ HomeOK(h)'
        BY <1>12, ChatAssumption DEF HomeOK, HomePoints, LoadPoints, UnbanStaff
    <2>2. KnownBan(h)'
        BY <1>0, <1>12 DEF KnownBan, KnownScope, BanPoints, UnbanStaff
    <2>3. KnownScope(h)'
        BY <1>12 DEF KnownScope, KnownBan, NewcomerPoints, FetchPoints, HomeOK,
           LoadPoints, UnbanStaff
    <2>4. Accounts(h)
        BY <1>0, <1>12, ChatAssumption DEF Accounts, Said, Left, ReportCovers, Divergent, Late, KnownBan,
           KnownScope, BanPoints, FetchPoints, NewcomerPoints, HomeOK, LoadPoints,
           HomePoints, UnbanStaff
    <2> QED BY <2>1, <2>2, <2>3, <2>4
<1>13. CASE UnbanFetch(h)
    <2>1. (chatBan \subseteq Federated)' /\ HomeOK(h)'
        BY <1>13, ChatAssumption DEF HomeOK, HomePoints, LoadPoints, UnbanFetch
    <2>2. KnownBan(h)'
        BY <1>0, <1>13 DEF KnownBan, KnownScope, BanPoints, UnbanFetch
    <2>3. KnownScope(h)'
        BY <1>13 DEF KnownScope, KnownBan, NewcomerPoints, FetchPoints, HomeOK,
           LoadPoints, UnbanFetch
    <2>4. Accounts(h)
        BY <1>0, <1>13, ChatAssumption DEF Accounts, Said, Left, ReportCovers, Divergent, Late, KnownBan,
           KnownScope, BanPoints, FetchPoints, NewcomerPoints, HomeOK, LoadPoints,
           HomePoints, UnbanFetch
    <2> QED BY <2>1, <2>2, <2>3, <2>4
<1>14. CASE ApproveRead(h)
    <2>1. (chatBan \subseteq Federated)' /\ HomeOK(h)'
        BY <1>14, ChatAssumption DEF HomeOK, HomePoints, LoadPoints, ApproveRead
    <2>2. KnownBan(h)'
        BY <1>0, <1>14 DEF KnownBan, KnownScope, BanPoints, ApproveRead
    <2>3. KnownScope(h)'
        BY <1>14 DEF KnownScope, KnownBan, NewcomerPoints, FetchPoints, HomeOK,
           LoadPoints, ApproveRead
    <2>4. Accounts(h)
        BY <1>0, <1>14, ChatAssumption DEF Accounts, Said, Left, ReportCovers, Divergent, Late, KnownBan,
           KnownScope, BanPoints, FetchPoints, NewcomerPoints, HomeOK, LoadPoints,
           HomePoints, ApproveRead
    <2> QED BY <2>1, <2>2, <2>3, <2>4
<1>15. CASE LiftGroups(h)
    <2>1. (chatBan \subseteq Federated)' /\ HomeOK(h)'
        BY <1>15, ChatAssumption DEF HomeOK, HomePoints, LoadPoints, LiftGroups
    <2>2. KnownBan(h)'
        BY <1>0, <1>15 DEF KnownBan, KnownScope, BanPoints, LiftGroups
    <2>3. KnownScope(h)'
        BY <1>15 DEF KnownScope, KnownBan, NewcomerPoints, FetchPoints, HomeOK,
           LoadPoints, LiftGroups
    <2>4. Accounts(h)
        BY <1>0, <1>15, ChatAssumption DEF Accounts, Said, Left, ReportCovers, Divergent, Late, KnownBan,
           KnownScope, BanPoints, FetchPoints, NewcomerPoints, HomeOK, LoadPoints,
           HomePoints, LiftGroups
    <2> QED BY <2>1, <2>2, <2>3, <2>4
<1>16. CASE LiftDeactivate(h)
    <2>1. (chatBan \subseteq Federated)' /\ HomeOK(h)'
        BY <1>16, ChatAssumption DEF HomeOK, HomePoints, LoadPoints, LiftDeactivate,
           deactivate_all_active_bans, with_primary_groups
    <2>2. KnownBan(h)'
        BY <1>0, <1>16 DEF KnownBan, KnownScope, BanPoints, LiftDeactivate,
           deactivate_all_active_bans, with_primary_groups
    <2>3. KnownScope(h)'
        BY <1>16 DEF KnownScope, KnownBan, NewcomerPoints, FetchPoints, HomeOK,
           LoadPoints, LiftDeactivate, deactivate_all_active_bans, with_primary_groups
    <2>4. Accounts(h)
        BY <1>0, <1>16, ChatAssumption DEF Accounts, Said, Left, ReportCovers, Divergent, Late, KnownBan,
           KnownScope, BanPoints, FetchPoints, NewcomerPoints, HomeOK, LoadPoints,
           HomePoints, LiftDeactivate, deactivate_all_active_bans, with_primary_groups
    <2> QED BY <2>1, <2>2, <2>3, <2>4
<1>17. CASE LiftFinish(h)
    <2>1. (chatBan \subseteq Federated)' /\ HomeOK(h)'
        BY <1>17, ChatAssumption DEF HomeOK, HomePoints, LoadPoints, LiftFinish,
           FanOutcome
    <2>2. KnownBan(h)'
        BY <1>0, <1>17 DEF KnownBan, KnownScope, BanPoints, LiftFinish, FanOutcome
    <2>3. KnownScope(h)'
        BY <1>17 DEF KnownScope, KnownBan, NewcomerPoints, FetchPoints, HomeOK,
           LoadPoints, LiftFinish, FanOutcome
    <2>4. Accounts(h)
        BY <1>0, <1>17, ChatAssumption DEF Accounts, Said, Left, ReportCovers, Divergent, Late, KnownBan,
           KnownScope, BanPoints, FetchPoints, NewcomerPoints, HomeOK, LoadPoints,
           HomePoints, LiftFinish, FanOutcome
    <2> QED BY <2>1, <2>2, <2>3, <2>4
<1>18. CASE JoinRead(h)
    <2>1. (chatBan \subseteq Federated)' /\ HomeOK(h)'
        BY <1>18, ChatAssumption DEF HomeOK, HomePoints, LoadPoints, JoinRead
    <2>2. KnownBan(h)'
        BY <1>0, <1>18 DEF KnownBan, KnownScope, BanPoints, JoinRead
    <2>3. KnownScope(h)'
        BY <1>18 DEF KnownScope, KnownBan, NewcomerPoints, FetchPoints, HomeOK,
           LoadPoints, JoinRead
    <2>4. Accounts(h)
        BY <1>0, <1>18, ChatAssumption DEF Accounts, Said, Left, ReportCovers, Divergent, Late, KnownBan,
           KnownScope, BanPoints, FetchPoints, NewcomerPoints, HomeOK, LoadPoints,
           HomePoints, JoinRead
    <2> QED BY <2>1, <2>2, <2>3, <2>4
<1>19. CASE JoinDemote(h)
    <2>1. (chatBan \subseteq Federated)' /\ HomeOK(h)'
        BY <1>19, ChatAssumption DEF HomeOK, HomePoints, LoadPoints, JoinDemote
    <2>2. KnownBan(h)'
        BY <1>0, <1>19 DEF KnownBan, KnownScope, BanPoints, JoinDemote
    <2>3. KnownScope(h)'
        BY <1>19 DEF KnownScope, KnownBan, NewcomerPoints, FetchPoints, HomeOK,
           LoadPoints, JoinDemote
    <2>4. Accounts(h)
        BY <1>0, <1>19, ChatAssumption DEF Accounts, Said, Left, ReportCovers, Divergent, Late, KnownBan,
           KnownScope, BanPoints, FetchPoints, NewcomerPoints, HomeOK, LoadPoints,
           HomePoints, JoinDemote
    <2> QED BY <2>1, <2>2, <2>3, <2>4
<1>20. CASE JoinBan(h)
    <2>1. (chatBan \subseteq Federated)' /\ HomeOK(h)'
        BY <1>20, ChatAssumption DEF HomeOK, HomePoints, LoadPoints, JoinBan,
           ban_chat_member, Barred, CallFails, CallSkipped
    <2>2. KnownBan(h)'
        BY <1>0, <1>20 DEF KnownBan, KnownScope, BanPoints, JoinBan, ban_chat_member, Barred, CallFails, CallSkipped
    <2>3. KnownScope(h)'
        BY <1>20 DEF KnownScope, KnownBan, NewcomerPoints, FetchPoints, HomeOK,
           LoadPoints, JoinBan, ban_chat_member, Barred, CallFails, CallSkipped
    <2>4. Accounts(h)
        BY <1>0, <1>20, ChatAssumption DEF Accounts, Said, Left, ReportCovers, Divergent, Late, KnownBan,
           KnownScope, BanPoints, FetchPoints, NewcomerPoints, HomeOK, LoadPoints,
           HomePoints, JoinBan, ban_chat_member, Barred, CallFails, CallSkipped
    <2> QED BY <2>1, <2>2, <2>3, <2>4
<1>21. CASE SyncRead(h)
    <2>1. (chatBan \subseteq Federated)' /\ HomeOK(h)'
        BY <1>21, ChatAssumption DEF HomeOK, HomePoints, LoadPoints, SyncRead, SyncAborts
    <2>2. KnownBan(h)'
        BY <1>0, <1>21 DEF KnownBan, KnownScope, BanPoints, SyncRead, SyncAborts
    <2>3. KnownScope(h)'
        BY <1>21 DEF KnownScope, KnownBan, NewcomerPoints, FetchPoints, HomeOK,
           LoadPoints, SyncRead, SyncAborts
    <2>4. Accounts(h)
        BY <1>0, <1>21, ChatAssumption DEF Accounts, Said, Left, ReportCovers, Divergent, Late, KnownBan,
           KnownScope, BanPoints, FetchPoints, NewcomerPoints, HomeOK, LoadPoints,
           HomePoints, SyncRead, SyncAborts
    <2> QED BY <2>1, <2>2, <2>3, <2>4
<1>22. CASE SyncScope(h)
    <2>1. (chatBan \subseteq Federated)' /\ HomeOK(h)'
        BY <1>22, ChatAssumption DEF HomeOK, HomePoints, LoadPoints, SyncScope,
           SyncPairs, SyncAborts
    <2>2. KnownBan(h)'
        BY <1>0, <1>22 DEF KnownBan, KnownScope, BanPoints, SyncScope, SyncPairs, SyncAborts
    <2>3. KnownScope(h)'
        BY <1>22 DEF KnownScope, KnownBan, NewcomerPoints, FetchPoints, HomeOK,
           LoadPoints, SyncScope, SyncPairs, SyncAborts
    <2>4. Accounts(h)
        BY <1>0, <1>22, ChatAssumption DEF Accounts, Said, Left, ReportCovers, Divergent, Late, KnownBan,
           KnownScope, BanPoints, FetchPoints, NewcomerPoints, HomeOK, LoadPoints,
           HomePoints, SyncScope, SyncPairs, SyncAborts
    <2> QED BY <2>1, <2>2, <2>3, <2>4
<1>23. CASE SyncFinish(h)
    <2>1. (chatBan \subseteq Federated)' /\ HomeOK(h)'
        BY <1>23, ChatAssumption DEF HomeOK, HomePoints, LoadPoints, SyncFinish,
           FanOutcome
    <2>2. KnownBan(h)'
        BY <1>0, <1>23 DEF KnownBan, KnownScope, BanPoints, SyncFinish, FanOutcome
    <2>3. KnownScope(h)'
        BY <1>23 DEF KnownScope, KnownBan, NewcomerPoints, FetchPoints, HomeOK,
           LoadPoints, SyncFinish, FanOutcome
    <2>4. Accounts(h)
        BY <1>0, <1>23, ChatAssumption DEF Accounts, Said, Left, ReportCovers, Divergent, Late, KnownBan,
           KnownScope, BanPoints, FetchPoints, NewcomerPoints, HomeOK, LoadPoints,
           HomePoints, SyncFinish, FanOutcome
    <2> QED BY <2>1, <2>2, <2>3, <2>4
<1>24. CASE ConnectRead(h)
    <2>1. (chatBan \subseteq Federated)' /\ HomeOK(h)'
        BY <1>24, ChatAssumption DEF HomeOK, HomePoints, LoadPoints, ConnectRead,
           ReplayTargets
    <2>2. KnownBan(h)'
        BY <1>0, <1>24 DEF KnownBan, KnownScope, BanPoints, ConnectRead, ReplayTargets
    <2>3. KnownScope(h)'
        BY <1>24 DEF KnownScope, KnownBan, NewcomerPoints, FetchPoints, HomeOK,
           LoadPoints, ConnectRead, ReplayTargets
    <2>4. Accounts(h)
        BY <1>0, <1>24, ChatAssumption DEF Accounts, Said, Left, ReportCovers, Divergent, Late, KnownBan,
           KnownScope, BanPoints, FetchPoints, NewcomerPoints, HomeOK, LoadPoints,
           HomePoints, ConnectRead, ReplayTargets
    <2> QED BY <2>1, <2>2, <2>3, <2>4
<1>25. CASE ConnectAdd(h)
    <2>1. (chatBan \subseteq Federated)' /\ HomeOK(h)'
        BY <1>25, ChatAssumption DEF HomeOK, HomePoints, LoadPoints, ConnectAdd,
           ReplayTargets
    <2>2. KnownBan(h)'
        BY <1>0, <1>25 DEF KnownBan, KnownScope, BanPoints, ConnectAdd, ReplayTargets
    <2>3. KnownScope(h)'
        BY <1>25 DEF KnownScope, KnownBan, NewcomerPoints, FetchPoints, HomeOK,
           LoadPoints, ConnectAdd, ReplayTargets
    <2>4. Accounts(h)
        BY <1>0, <1>25, ChatAssumption DEF Accounts, Said, Left, ReportCovers, Divergent, Late, KnownBan,
           KnownScope, BanPoints, FetchPoints, NewcomerPoints, HomeOK, LoadPoints,
           HomePoints, ConnectAdd, ReplayTargets
    <2> QED BY <2>1, <2>2, <2>3, <2>4
<1>26. ASSUME NEW c \in Chats, BanCall(h, c) PROVE Good
    <2>1. (chatBan \subseteq Federated)' /\ HomeOK(h)'
        BY <1>26, ChatAssumption DEF HomeOK, HomePoints, LoadPoints, BanCall,
           ban_chat_member, Barred, CallFails, CallSkipped
    <2>2. KnownBan(h)'
        BY <1>0, <1>26 DEF KnownBan, KnownScope, BanPoints, BanCall, ban_chat_member, Barred, CallFails, CallSkipped
    <2>3. KnownScope(h)'
        BY <1>26 DEF KnownScope, KnownBan, NewcomerPoints, FetchPoints, HomeOK,
           LoadPoints, BanCall, ban_chat_member, Barred, CallFails, CallSkipped
    <2>4. /\ pc[h] \in {"ban_fan", "auto_fan", "conn_fan"} /\ c \in todo[h]
          /\ UNCHANGED <<pc, kind, at, outcome, groups, active, connected>>
          /\ todo'[h] = todo[h] \ {c}
        BY <1>26 DEF BanCall
    <2>5. /\ kind[h] \notin {"verify", "sweep"} /\ failed[h] \subseteq failed'[h]
          /\ active # {}
        BY <1>26, <2>4 DEF HomeOK, KnownBan, KnownScope, BanPoints, BanCall, CallFails, CallSkipped
    <2>6. \/ c \in failed'[h] /\ UNCHANGED <<member, chatBan>>
          \/ c \in skipped'[h] /\ UNCHANGED <<member, chatBan>>
          \/ /\ member' \subseteq member
             /\ c \in Refusing \/ c \notin member'
             /\ chatBan' \subseteq chatBan \cup {c}
        BY <1>26 DEF BanCall, ban_chat_member, CallFails, CallSkipped
    <2>7. Accounts(h)
        BY <2>4, <2>5, <2>6 DEF Accounts, Left, Divergent, Late
    <2> QED BY <2>1, <2>2, <2>3, <2>7
<1>27. ASSUME NEW c \in Chats, LiftCall(h, c) PROVE Good
    <2>1. (chatBan \subseteq Federated)' /\ HomeOK(h)'
        BY <1>27, ChatAssumption DEF HomeOK, HomePoints, LoadPoints, LiftCall,
           unban_chat_member, CallFails, CallSkipped
    <2>2. KnownBan(h)'
        BY <1>0, <1>27 DEF KnownBan, KnownScope, BanPoints, LiftCall,
           unban_chat_member, CallFails, CallSkipped
    <2>3. KnownScope(h)'
        BY <1>27 DEF KnownScope, KnownBan, NewcomerPoints, FetchPoints, HomeOK,
           LoadPoints, LiftCall, unban_chat_member, CallFails, CallSkipped
    <2>4. Accounts(h)
        BY <1>0, <1>27, ChatAssumption DEF Accounts, Said, Left, ReportCovers, Divergent, Late, KnownBan,
           KnownScope, BanPoints, FetchPoints, NewcomerPoints, HomeOK, LoadPoints,
           HomePoints, LiftCall, unban_chat_member, CallFails, CallSkipped
    <2> QED BY <2>1, <2>2, <2>3, <2>4
<1>28. ASSUME NEW c \in Chats, SyncProbe(h, c) PROVE Good
    <2>0. /\ UNCHANGED <<pc, kind, at, scope, chatBan, connected>> /\ todo'[h] \subseteq todo[h]
          /\ act'[h] \subseteq act[h] \cup {c} /\ c \in todo[h]
        BY <1>28 DEF SyncProbe, CallFails, CallSkipped
    <2>1. (chatBan \subseteq Federated)' /\ HomeOK(h)'
        BY <2>0, ChatAssumption DEF HomeOK, HomePoints, LoadPoints
    <2>2. KnownBan(h)'
        BY <1>0, <1>28 DEF KnownBan, KnownScope, BanPoints, SyncProbe, NeedsCorrection, Barred, Privileged, CallFails, CallSkipped
    <2>3. KnownScope(h)'
        BY <1>28 DEF KnownScope, KnownBan, NewcomerPoints, FetchPoints, HomeOK,
           LoadPoints, SyncProbe, NeedsCorrection, Barred, Privileged, CallFails, CallSkipped
    <2>4. Accounts(h)
        BY <1>0, <1>28, ChatAssumption DEF Accounts, Said, Left, ReportCovers, Divergent, Late, KnownBan,
           KnownScope, BanPoints, FetchPoints, NewcomerPoints, HomeOK, LoadPoints,
           HomePoints, SyncProbe, NeedsCorrection, Barred, Privileged, CallFails, CallSkipped
    <2> QED BY <2>1, <2>2, <2>3, <2>4
<1>29. ASSUME NEW c \in Chats, SyncAct(h, c) PROVE Good
    <2>1. (chatBan \subseteq Federated)' /\ HomeOK(h)'
        BY <1>29, ChatAssumption DEF HomeOK, HomePoints, LoadPoints, SyncAct,
           ban_chat_member, unban_chat_member, Barred, Privileged, CallFails, CallSkipped
    <2>2. KnownBan(h)'
        BY <1>0, <1>29 DEF KnownBan, KnownScope, BanPoints, SyncAct, ban_chat_member, Barred, CallFails, CallSkipped,
           unban_chat_member, CallFails, CallSkipped
    <2>3. KnownScope(h)'
        BY <1>29 DEF KnownScope, KnownBan, NewcomerPoints, FetchPoints, HomeOK,
           LoadPoints, SyncAct, ban_chat_member, unban_chat_member, Barred, Privileged, CallFails, CallSkipped
    <2>4. Accounts(h)
        BY <1>0, <1>29, ChatAssumption DEF Accounts, Said, Left, ReportCovers, Divergent, Late, KnownBan,
           KnownScope, BanPoints, FetchPoints, NewcomerPoints, HomeOK, LoadPoints,
           HomePoints, SyncAct, ban_chat_member, unban_chat_member, Barred, Privileged, CallFails, CallSkipped
    <2> QED BY <2>1, <2>2, <2>3, <2>4
<1> QED
    BY <1>1, <1>2, <1>3, <1>4, <1>5, <1>6, <1>7, <1>8, <1>9, <1>10,
       <1>11, <1>12, <1>13, <1>14, <1>15, <1>16, <1>17, <1>18, <1>19, <1>20,
       <1>21, <1>22, <1>23, <1>24, <1>25, <1>26, <1>27, <1>28, <1>29
    DEF Step

LEMMA SerialStep ==
    ASSUME TypeInv, SerialInv, NEW h \in Handlers, Step(h)
    PROVE  SerialInv'
<1>0. StepFrame(h)
    BY StepIsLocal
<1>1. \A g \in Handlers \ {h} : pc[g] \in {"idle", "done"} /\ pc'[g] = pc[g]
    BY <1>0 DEF StepFrame, SerialInv, Serial, Busy
<1>2. /\ (chatBan \subseteq Federated)' /\ HomeOK(h)' /\ KnownBan(h)' /\ KnownScope(h)'
      /\ Accounts(h)
    BY SerialStepOfOne DEF SerialInv, Within, Known
<1>3. Serial'
    BY <1>0 DEF StepFrame, SerialInv, Serial
<1>4. Within'
    <2>1. ASSUME NEW g \in Handlers \ {h} PROVE HomeOK(g)'
        BY <1>0, <1>1 DEF StepFrame, SerialInv, Within, HomeOK, HomePoints, LoadPoints,
           Federated
    <2> QED BY <1>2, <2>1 DEF Within
<1>5. Known'
    <2>1. ASSUME NEW g \in Handlers \ {h} PROVE KnownBan(g)' /\ KnownScope(g)'
        BY <1>0, <1>1 DEF StepFrame, SerialInv, Known, KnownBan, KnownScope, BanPoints,
           FetchPoints, NewcomerPoints
    <2> QED BY <1>2, <2>1 DEF Known
<1>6. Tracked'
    <2> SUFFICES ASSUME NEW c \in Divergent', ~(Late(h, c)' \/ Said(h, c)' \/ Left(h, c)')
                 PROVE  \E g \in Handlers : Said(g, c)' \/ Left(g, c)'
        BY DEF Tracked
    <2>1. c \in Divergent /\ ~Late(h, c)
        BY <1>2 DEF Accounts
    <2>2. PICK g \in Handlers : Late(g, c) \/ Said(g, c) \/ Left(g, c)
        BY <2>1 DEF SerialInv, Tracked
    <2>3. ~Said(h, c)
        BY <1>0 DEF StepFrame, Busy, SerialInv, Known, KnownScope, Said
    <2>4. Left(h, c) => Left(h, c)'
        BY <1>0 DEF StepFrame, Left
    <2>5. g # h
        BY <2>1, <2>2, <2>3, <2>4
    <2>6. ~Late(g, c)
        BY <1>1, <2>5 DEF Late
    <2>7. (Said(g, c) => Said(g, c)') /\ (Left(g, c) => Left(g, c)')
        BY <1>0, <2>5 DEF StepFrame, Said, Left, ReportCovers
    <2> QED BY <2>2, <2>6, <2>7
<1> QED BY <1>3, <1>4, <1>5, <1>6 DEF SerialInv

\* With MaxBusy = 1 a handler is dispatched only when none is running.
LEMMA NobodyBusy ==
    ASSUME MaxBusy = 1, Serial, Cardinality(Busy) < MaxBusy
    PROVE  \A g \in Handlers : pc[g] \in {"idle", "done"}
<1>1. Busy = {}
    <2> SUFFICES ASSUME Busy # {} PROVE FALSE
        OBVIOUS
    <2>1. PICK x : Busy = {x}
        BY DEF Serial, Busy
    <2>2. Cardinality(Busy) = 1
        BY <2>1, FS_Singleton
    <2> QED BY <2>2
<1> QED BY <1>1 DEF Busy

LEMMA SerialDispatch ==
    ASSUME MaxBusy = 1, TypeInv, SerialInv, NEW h \in Handlers, Dispatch(h)
    PROVE  SerialInv'
<1> DEFINE Entry == {"ban_read", "unban_read", "approve_read", "sync_read", "auto_role",
                     "join_read", "conn_load"}
<1>1. PICK l \in Entry, k \in AllKinds, c \in Chats \cup {NoChat} :
        /\ Start(h, k, c, l) /\ UNCHANGED chatBan
        /\ l = "auto_role" => c \in Federated
        /\ l = "join_read" => c \in Federated \ chatBan
        /\ l = "conn_load" => c \in Chats \ Federated /\ k = "connect"
        /\ l = "join_read" => k = "join"
        /\ l \in {"ban_read", "auto_role"} => k \in {"ban", "auto"}
        /\ l \in {"unban_read", "approve_read"} => k \in {"unban", "approve"}
        /\ \/ member' = member
           \/ l = "join_read" /\ member' = member \cup {c}
    BY DEF Dispatch, StartBan, StartUnban, StartApprove, StartVerify, StartSweep,
       StartAuto, StartJoin, StartConnect, AllKinds, telegram, Start
<1>2. \A g \in Handlers : pc[g] \in {"idle", "done"}
    BY <1>1, NobodyBusy DEF Start, SerialInv
<1>3. /\ pc[h] = "idle" /\ pc' = [pc EXCEPT ![h] = l] /\ at' = [at EXCEPT ![h] = c]
      /\ kind' = [kind EXCEPT ![h] = k]
      /\ UNCHANGED <<seen, groups, scope, todo, act, failed, skipped, outcome, active, connected>>
      /\ pc \in [Handlers -> Points] /\ at \in [Handlers -> Chats \cup {NoChat}]
      /\ kind \in [Handlers -> AllKinds]
    BY <1>1 DEF Start, locals, TypeInv, TypeOK
<1>4. Serial'
    BY <1>2, <1>3 DEF Serial, Busy
<1>5. Within'
    <2>1. ASSUME NEW g \in Handlers, g # h PROVE HomeOK(g)'
        BY <1>1, <1>2, <1>3, <2>1 DEF SerialInv, Within, HomeOK, HomePoints, LoadPoints, Federated
    <2>2. HomeOK(h)'
        BY <1>1, <1>3 DEF SerialInv, Within, HomeOK, HomePoints, LoadPoints, Federated
    <2> QED BY <1>1, <1>3, <2>1, <2>2 DEF SerialInv, Within, Federated
<1>6. Known'
    <2>1. ASSUME NEW g \in Handlers PROVE KnownBan(g)'
        BY <1>1, <1>2, <1>3 DEF SerialInv, Known, KnownBan, BanPoints
    <2>2. ASSUME NEW g \in Handlers PROVE KnownScope(g)'
        BY <1>1, <1>2, <1>3 DEF SerialInv, Within, Known, KnownScope, FetchPoints,
           NewcomerPoints, Federated
    <2> QED BY <2>1, <2>2 DEF Known
<1>7. Tracked'
    <2> SUFFICES ASSUME NEW x \in Divergent', ~Late(h, x)'
                 PROVE  \E g \in Handlers : Said(g, x)' \/ Left(g, x)'
        BY DEF Tracked
    <2>1. x \in Divergent
        BY <1>1, <1>3 DEF Late, Divergent, Federated
    <2>2. PICK g \in Handlers : Said(g, x) \/ Left(g, x)
        BY <1>2, <2>1 DEF SerialInv, Tracked, Late
    <2>3. g # h
        BY <1>3, <2>2 DEF SerialInv, Known, KnownScope, Said, Left
    <2>4. (Said(g, x) => Said(g, x)') /\ (Left(g, x) => Left(g, x)')
        BY <1>3, <2>3 DEF Said, Left, ReportCovers, TypeInv, TypeOK
    <2> QED BY <2>2, <2>4
<1> QED BY <1>4, <1>5, <1>6, <1>7 DEF SerialInv

LEMMA SerialAmbient ==
    ASSUME SerialInv, Ambient
    PROVE  SerialInv'
<1> USE DEF Ambient, control, locals
<1>1. Serial'
    BY DEF SerialInv, Serial, Busy
<1>2. Within'
    BY DEF SerialInv, Within, HomeOK, Federated
<1>3. Known'
    BY DEF SerialInv, Known, KnownBan, KnownScope
<1>4. Tracked'
    BY DEF SerialInv, Tracked, Said, Left, ReportCovers, Late, Divergent, Federated
<1> QED BY <1>1, <1>2, <1>3, <1>4 DEF SerialInv

LEMMA SerialInit == Init => SerialInv
<1> SUFFICES ASSUME Init PROVE SerialInv
    OBVIOUS
<1>1. Serial /\ Within
    BY DEF Init, Serial, Busy, Within, HomeOK, HomePoints, LoadPoints, Federated
<1>2. Known
    BY DEF Init, Known, KnownBan, KnownScope, BanPoints, FetchPoints, NewcomerPoints
<1>3. Divergent = {}
    <2>1. created = 0 => active = {} /\ chatBan = {}
        BY DEF Init
    <2>2. created # 0 => 1 \in active /\ chatBan = Federated \ Refusing
        BY DEF Init, Federated
    <2>3. member \cap chatBan = {}
        BY DEF Init
    <2> QED BY <2>1, <2>2, <2>3 DEF Divergent
<1> QED BY <1>1, <1>2, <1>3 DEF SerialInv, Tracked

LEMMA SerialInvariant ==
    ASSUME MaxBusy = 1
    PROVE  Spec => []SerialInv
<1>1. TypeInv /\ SerialInv /\ [Next]_vars => SerialInv'
    BY NextCases, SerialDispatch, SerialStep, SerialAmbient
<1> QED BY <1>1, SerialInit, TypeInvariant, PTL DEF Spec

\* As long as handlers do not overlap, and for any chats, any number of
\* operations and any failures: when the bot is at rest, a chat that disagrees
\* with the bans collection was reported, by a handler that named that chat or a
\* reduced scope to its operator, or, in a join, a connect's replay or an
\* approval, to the log alone; or Telegram refused a call there as benign.
THEOREM DivergenceIsReported ==
    ASSUME MaxBusy = 1
    PROVE  Spec => []NoSilentDivergence
<1>1. SerialInv => NoSilentDivergence
    <2> SUFFICES ASSUME SerialInv, Busy = {}, NEW c \in Divergent \ Refused
                 PROVE  \E h \in Handlers : Said(h, c)
        BY DEF NoSilentDivergence, Said
    <2>1. PICK h \in Handlers : Late(h, c) \/ Said(h, c) \/ Left(h, c)
        BY DEF SerialInv, Tracked
    <2>2. ~Late(h, c)
        BY DEF Busy, Late
    <2>3. ~Left(h, c)
        BY DEF Left, Refused
    <2> QED BY <2>1, <2>2, <2>3
<1> QED BY <1>1, SerialInvariant, PTL

\* Only the end of an automatic ban gives the warnings up.
LEMMA WarningsStep ==
    ASSUME TypeInv, NEW h \in Handlers, Step(h), warned, ~warned'
    PROVE  pc[h] = "auto_fan"
<1> QED BY DEF Step, FetchGroups, BanRead, BanDedupe, BanWrite, BanScope, BanFinish,
        AutoRole, AutoRead, AutoWrite, AutoFinish, UnbanRead, UnbanStaff, UnbanFetch,
        ApproveRead, LiftGroups, LiftDeactivate, LiftFinish, JoinRead, JoinDemote,
        JoinBan, SyncRead, SyncScope, SyncFinish, ConnectRead, ConnectAdd, BanCall,
        LiftCall, SyncProbe, SyncAct, stores

\* As long as handlers do not overlap, the auto-ban gives the warnings up only
\* for a ban that the database holds at that moment (_execute_warn_auto_ban).
THEOREM WarningsEndInABan ==
    ASSUME MaxBusy = 1
    PROVE  Spec => WarningsBecomeABan
<1>1. TypeInv /\ SerialInv /\ [Next]_vars => [warned /\ ~warned' => active # {}]_vars
    <2> SUFFICES ASSUME TypeInv, SerialInv, [Next]_vars, warned, ~warned'
                 PROVE  active # {}
        BY Zenon
    <2>1. ASSUME NEW h \in Handlers, Dispatch(h) PROVE active # {}
        BY <2>1 DEF Dispatch, StartBan, StartUnban, StartApprove, StartVerify, StartSweep,
           StartAuto, StartJoin, StartConnect
    <2>2. ASSUME NEW h \in Handlers, Step(h) PROVE active # {}
        BY <2>2, WarningsStep DEF SerialInv, Known, KnownBan, BanPoints
    <2>3. CASE Ambient
        BY <2>3 DEF Ambient
    <2> QED BY <2>1, <2>2, <2>3, NextCases
<1> QED BY <1>1, SerialInvariant, TypeInvariant, PTL DEF Spec, WarningsBecomeABan

(***************************************************************************)
(* /tcsync <target>, for any overlap: a run during which no other handler   *)
(* was in flight.                                                           *)
(***************************************************************************)
Solo == \A g, h \in Handlers : g \in Busy /\ alone[g] /\ h \in Busy => g = h

\* Its snapshot of the ban is still true, and a pair it is done with agrees.
VerifyOK(h) ==
    alone[h] =>
        /\ pc[h] \in {"sync_scope", "sync_fan"} => (seen[h] # 0 <=> active # {})
        /\ pc[h] = "sync_fan" /\ kind[h] = "verify" =>
              \A c \in scope[h] : c \in todo[h] \cup act[h] \cup failed[h] \cup skipped[h] \/ Agrees(c)
VerifyInv == Solo /\ \A h \in Handlers : VerifyOK(h)

\* A step seen from the handler that takes it.
LEMMA VerifyStepOfOne ==
    ASSUME TypeInv, NEW h \in Handlers, Step(h), VerifyOK(h)
    PROVE  /\ VerifyOK(h)'
           /\ pc[h] = "sync_fan" /\ pc'[h] = "done" => todo[h] = {} /\ act[h] = {}
<1> DEFINE Good == /\ VerifyOK(h)'
                   /\ pc[h] = "sync_fan" /\ pc'[h] = "done" => todo[h] = {} /\ act[h] = {}
<1> USE DEF TypeInv, TypeOK, VerifyOK, Goto, End, stores, telegram, control, locals
<1>0. (active # {} <=> NewestBan # 0) /\ NewestBan \in Nat
    BY NewestBanIsActive
<1>1. CASE FetchGroups(h)
    BY <1>1 DEF Agrees, FetchGroups, FetchPoints
<1>2. CASE BanRead(h)
    BY <1>2 DEF BanRead
<1>3. CASE BanDedupe(h)
    BY <1>3 DEF BanDedupe
<1>4. CASE BanWrite(h)
    BY <1>4 DEF BanWrite
<1>5. CASE BanScope(h)
    BY <1>5 DEF BanScope
<1>6. CASE BanFinish(h)
    BY <1>6 DEF BanFinish
<1>7. CASE AutoRole(h)
    BY <1>7 DEF AutoRole
<1>8. CASE AutoRead(h)
    BY <1>8 DEF AutoRead
<1>9. CASE AutoWrite(h)
    BY <1>9 DEF AutoWrite
<1>10. CASE AutoFinish(h)
    BY <1>10 DEF AutoFinish
<1>11. CASE UnbanRead(h)
    BY <1>11 DEF UnbanRead
<1>12. CASE UnbanStaff(h)
    BY <1>12 DEF UnbanStaff
<1>13. CASE UnbanFetch(h)
    BY <1>13 DEF UnbanFetch
<1>14. CASE ApproveRead(h)
    BY <1>14 DEF ApproveRead
<1>15. CASE LiftGroups(h)
    BY <1>15 DEF LiftGroups
<1>16. CASE LiftDeactivate(h)
    BY <1>16 DEF LiftDeactivate
<1>17. CASE LiftFinish(h)
    BY <1>17 DEF LiftFinish
<1>18. CASE JoinRead(h)
    BY <1>18 DEF JoinRead
<1>19. CASE JoinDemote(h)
    BY <1>19 DEF JoinDemote
<1>20. CASE JoinBan(h)
    BY <1>20 DEF JoinBan
<1>21. CASE SyncRead(h)
    BY <1>0, <1>21 DEF SyncRead, SyncAborts
<1>22. CASE SyncScope(h)
    BY <1>22 DEF SyncScope, SyncPairs, SyncAborts
<1>23. CASE SyncFinish(h)
    BY <1>23 DEF SyncFinish
<1>24. CASE ConnectRead(h)
    BY <1>24 DEF ConnectRead
<1>25. CASE ConnectAdd(h)
    BY <1>25 DEF ConnectAdd
<1>26. ASSUME NEW c \in Chats, BanCall(h, c) PROVE Good
    BY <1>26 DEF BanCall, CallFails, CallSkipped
<1>27. ASSUME NEW c \in Chats, LiftCall(h, c) PROVE Good
    BY <1>27 DEF LiftCall, CallFails, CallSkipped
<1>28. ASSUME NEW c \in Chats, SyncProbe(h, c) PROVE Good
    <2>1. /\ pc[h] = "sync_fan" /\ c \in todo[h]
          /\ UNCHANGED <<pc, kind, seen, scope, alone, active, member, chatBan>>
        BY <1>28 DEF SyncProbe, CallFails, CallSkipped
    <2>2. /\ todo'[h] = todo[h] \ {c}
          /\ \/ /\ failed'[h] = failed[h] /\ skipped'[h] = skipped[h] /\ ~Privileged(h, c)
                /\ act'[h] = IF NeedsCorrection(h, c) THEN act[h] \cup {c} ELSE act[h]
             \/ failed'[h] = failed[h] \cup {c} /\ skipped'[h] = skipped[h] /\ act'[h] = act[h]
             \/ skipped'[h] = skipped[h] \cup {c} /\ failed'[h] = failed[h] /\ act'[h] = act[h]
        BY <1>28 DEF SyncProbe, CallFails, CallSkipped
    <2>3. ASSUME alone[h], kind[h] = "verify", NEW x \in scope[h]
          PROVE  x \in todo'[h] \cup act'[h] \cup failed'[h] \cup skipped'[h] \/ Agrees(x)'
        <3>1. /\ x \in todo[h] \cup act[h] \cup failed[h] \cup skipped[h] \/ Agrees(x)
              /\ seen[h] # 0 <=> active # {}
            BY <2>1, <2>3
        <3>2. Agrees(x) => Agrees(x)'
            BY <2>1 DEF Agrees
        <3>3. NeedsCorrection(h, c) \/ Privileged(h, c) \/ Agrees(c)
            BY <3>1 DEF NeedsCorrection, Privileged, Barred, Agrees
        <3> HIDE DEF TypeInv, VerifyOK
        <3> QED BY <2>2, <3>1, <3>2, <3>3
    <2> QED BY <2>1, <2>3
<1>29. ASSUME NEW c \in Chats, SyncAct(h, c) PROVE Good
    <2>1. /\ pc[h] = "sync_fan" /\ c \in act[h]
          /\ UNCHANGED <<pc, kind, seen, scope, alone, active>>
        BY <1>29 DEF SyncAct, CallFails, CallSkipped
    <2>2. /\ todo'[h] = todo[h] /\ act'[h] = act[h] \ {c}
          /\ \/ /\ failed'[h] = failed[h] /\ skipped'[h] = skipped[h]
                /\ IF seen[h] # 0 THEN ban_chat_member(c) ELSE unban_chat_member(c)
             \/ failed'[h] = failed[h] \cup {c} /\ skipped'[h] = skipped[h] /\ UNCHANGED telegram
             \/ skipped'[h] = skipped[h] \cup {c} /\ failed'[h] = failed[h] /\ UNCHANGED telegram
        BY <1>29 DEF SyncAct, CallFails, CallSkipped
    <2>3. ASSUME alone[h], kind[h] = "verify", NEW x \in scope[h]
          PROVE  x \in todo'[h] \cup act'[h] \cup failed'[h] \cup skipped'[h] \/ Agrees(x)'
        <3>1. /\ x \in todo[h] \cup act[h] \cup failed[h] \cup skipped[h] \/ Agrees(x)
              /\ seen[h] # 0 <=> active # {}
            BY <2>1, <2>3
        <3>2. Agrees(x) => Agrees(x)'
            BY <2>1, <2>2, <3>1 DEF Agrees, ban_chat_member, unban_chat_member, Barred, Privileged, CallFails, CallSkipped
        <3>3. c \in failed'[h] \cup skipped'[h] \/ Agrees(c)'
            BY <2>1, <2>2, <3>1 DEF Agrees, ban_chat_member, unban_chat_member, Barred, Privileged, CallFails, CallSkipped
        <3> HIDE DEF TypeInv, VerifyOK
        <3> QED BY <2>2, <3>1, <3>2, <3>3
    <2> QED BY <2>1, <2>3
<1> QED
    BY <1>1, <1>2, <1>3, <1>4, <1>5, <1>6, <1>7, <1>8, <1>9, <1>10,
       <1>11, <1>12, <1>13, <1>14, <1>15, <1>16, <1>17, <1>18, <1>19, <1>20,
       <1>21, <1>22, <1>23, <1>24, <1>25, <1>26, <1>27, <1>28, <1>29
    DEF Step

LEMMA VerifyNext == TypeInv /\ VerifyInv /\ [Next]_vars => VerifyInv'
<1> SUFFICES ASSUME TypeInv, VerifyInv, [Next]_vars PROVE VerifyInv'
    OBVIOUS
<1>1. ASSUME NEW h \in Handlers, Dispatch(h) PROVE VerifyInv'
    <2>1. PICK l \in Points \ {"sync_scope", "sync_fan"}, k \in AllKinds,
               c \in Chats \cup {NoChat} : Start(h, k, c, l)
        BY <1>1 DEF Dispatch, StartBan, StartUnban, StartApprove, StartVerify, StartSweep,
           StartAuto, StartJoin, StartConnect, AllKinds, Points
    <2>2. /\ pc' = [pc EXCEPT ![h] = l] /\ pc \in [Handlers -> Points]
          /\ alone' = [g \in Handlers |-> IF g = h THEN Busy = {}
                                         ELSE g \notin Busy /\ alone[g]]
        BY <2>1 DEF Start, TypeInv, TypeOK
    <2>3. Solo'
        BY <2>2 DEF VerifyInv, Solo, Busy
    <2>4. ASSUME NEW g \in Handlers PROVE VerifyOK(g)'
        BY <2>2 DEF VerifyOK, Busy
    <2> QED BY <2>3, <2>4 DEF VerifyInv
<1>2. ASSUME NEW h \in Handlers, Step(h) PROVE VerifyInv'
    <2>1. StepFrame(h)
        BY <1>2, StepIsLocal
    <2>2. Solo'
        BY <2>1 DEF StepFrame, VerifyInv, Solo
    <2>3. VerifyOK(h)'
        BY <1>2, VerifyStepOfOne DEF VerifyInv
    <2>4. ASSUME NEW g \in Handlers \ {h} PROVE VerifyOK(g)'
        <3>1. alone[g] => g \notin Busy
            BY <2>1 DEF StepFrame, VerifyInv, Solo
        <3> QED BY <2>1, <3>1 DEF StepFrame, VerifyOK, Busy
    <2> QED BY <2>2, <2>3, <2>4 DEF VerifyInv
<1>3. CASE Ambient
    BY <1>3 DEF Ambient, VerifyInv, Solo, VerifyOK, Busy, Agrees, control, locals
<1> QED BY <1>1, <1>2, <1>3, NextCases

\* /tcsync <target> repairs both directions, for any chats, handlers, overlap
\* and failures: when nothing overlapped it and no pair failed, every group it
\* checked agrees with the bans collection when it ends, but for the pairs it
\* skipped, where the target is an administrator or Telegram refused a call.
THEOREM VerifyMakesAgree == Spec => VerifyRepairs
<1>1. Init => VerifyInv
    BY DEF Init, VerifyInv, Solo, VerifyOK, Busy
<1>2. Spec => []VerifyInv
    BY <1>1, TypeInvariant, VerifyNext, PTL DEF Spec
<1>3. TypeInv /\ VerifyInv /\ [Next]_vars =>
          [\A h \in Handlers :
              /\ kind[h] = "verify" /\ pc[h] = "sync_fan" /\ pc'[h] = "done"
              /\ alone[h] /\ failed[h] = {}
              => \A c \in scope[h] \ skipped[h] : Agrees(c)]_vars
    <2> SUFFICES ASSUME TypeInv, VerifyInv, [Next]_vars, NEW h \in Handlers,
                        kind[h] = "verify", pc[h] = "sync_fan", pc'[h] = "done",
                        alone[h], failed[h] = {}
                 PROVE  \A c \in scope[h] \ skipped[h] : Agrees(c)
        BY Zenon
    <2>1. todo[h] = {} /\ act[h] = {}
        <3>1. ASSUME NEW g \in Handlers, Dispatch(g) PROVE FALSE
            BY <3>1 DEF Dispatch, StartBan, StartUnban, StartApprove, StartVerify,
               StartSweep, StartAuto, StartJoin, StartConnect, Start, TypeInv, TypeOK
        <3>2. ASSUME NEW g \in Handlers, Step(g) PROVE g = h
            BY <3>2, StepIsLocal DEF StepFrame
        <3>3. ~Ambient
            BY DEF Ambient
        <3> QED BY <3>1, <3>2, <3>3, NextCases, VerifyStepOfOne DEF VerifyInv
    <2> QED BY <2>1 DEF VerifyInv, VerifyOK
<1> QED BY <1>2, <1>3, TypeInvariant, PTL DEF Spec, VerifyRepairs
=============================================================================
