---------------------------- MODULE GroupsProofs ----------------------------
(***************************************************************************)
(* Proofs about Groups, for any number of handlers, membership changes and   *)
(* failing calls.                                                           *)
(***************************************************************************)
EXTENDS Groups, TLAPS

\* What Telegram queues.
Status == {"out", "member", "admin", "moved"}
Update == [chat : Chats, was : Status, is : Status]

\* The types the arguments need.
Shape ==
    /\ row \in [Chats -> {"none", "active", "inactive"}] /\ DOMAIN pend = Chats
    /\ conn \in [Chats -> {"yes", "no", "unknown"}]
    /\ bot \in {"out", "member", "admin"} /\ updates \in Seq(Update)
    /\ pc \in [Handlers -> Points] /\ chat \in [Handlers -> Chats]
    /\ kind \in [Handlers -> AllKinds] /\ outcome \in [Handlers -> Outcomes]
    /\ DOMAIN todo = Handlers /\ DOMAIN bad = Handlers

(***************************************************************************)
(* The queue of updates                                                     *)
(***************************************************************************)
\* An update that Telegram queues comes last.
LEMMA Queues ==
    ASSUME NEW s \in Seq(Update), NEW u \in Update
    PROVE  /\ Append(s, u) \in Seq(Update) /\ Len(Append(s, u)) = Len(s) + 1 /\ Len(s) \in Nat
           /\ Append(s, u)[Len(s) + 1] = u
           /\ \A i \in 1..Len(s) : Append(s, u)[i] = s[i]
OBVIOUS

\* The oldest update leaves the others in order.
LEMMA Takes ==
    ASSUME NEW s \in Seq(Update), s # << >>
    PROVE  /\ Tail(s) \in Seq(Update) /\ Len(s) \in Nat \ {0} /\ Len(Tail(s)) = Len(s) - 1
           /\ Head(s) = s[1] /\ s[1] \in Update
           /\ \A i \in 1..(Len(s) - 1) : Tail(s)[i] = s[i + 1]
OBVIOUS

(***************************************************************************)
(* Shape                                                                    *)
(***************************************************************************)
\* Nothing runs and nothing is queued at the start.
LEMMA ShapeInit == Init => Shape
BY DEF Init, Shape, Chats, Points, AllKinds, Outcomes

\* Telegram's side keeps the types.
LEMMA BecomesShape ==
    ASSUME Shape, NEW s \in {"out", "member", "admin"}, Becomes(s)
    PROVE  bot' \in {"out", "member", "admin"} /\ updates' \in Seq(Update)
BY Queues DEF Shape, Becomes, Update, Status, Live, Chats

\* Dispatch keeps the types.
LEMMA StartShape ==
    ASSUME Shape, NEW h \in Handlers, NEW k \in AllKinds, NEW c \in Chats, NEW l \in Points,
           Start(h, k, c, l), updates' \in Seq(Update), DOMAIN todo' = Handlers, DOMAIN bad' = Handlers
    PROVE  Shape'
BY DEF Shape, Start, stores

\* Every step keeps the types.
LEMMA ShapeNext == Shape /\ [Next]_vars => Shape'
<1> SUFFICES ASSUME Shape, [Next]_vars PROVE Shape'
    OBVIOUS
<1>1. CASE UNCHANGED vars
    BY <1>1 DEF vars, Shape, stores, telegram, control, calls
<1>2. CASE Migrate
    <2>1. [chat |-> New, was |-> "moved", is |-> "moved"] \in Update
        BY DEF Update, Status, Chats
    <2> QED BY <1>2, <2>1, Queues DEF Migrate, Shape, stores, control, calls
<1>3. ASSUME NEW s \in {"out", "member", "admin"}, Move(s) PROVE Shape'
    BY <1>3, BecomesShape DEF Move, Shape, stores, control, calls
<1>4. ASSUME NEW h \in Handlers, on_bot_added(h) PROVE Shape'
    <2> DEFINE u == Head(updates)
               l == IF u.is = "out" THEN "removed"
                    ELSE IF u.was = "admin" THEN "done"
                    ELSE IF u.is = "admin" THEN "added" ELSE "ask"
    <2>1. u \in Update /\ updates' \in Seq(Update)
        BY <1>4, Takes DEF on_bot_added, Shape
    <2>2. u.chat \in Chats /\ l \in Points /\ "update" \in AllKinds
        BY <2>1 DEF Update, Points, AllKinds
    <2>3. Start(h, "update", u.chat, l) /\ DOMAIN todo' = Handlers /\ DOMAIN bad' = Handlers
        BY <1>4 DEF on_bot_added, Shape
    <2> HIDE DEF u, l
    <2> QED BY <2>1, <2>2, <2>3, StartShape
<1>5. ASSUME NEW h \in Handlers, on_chat_migration(h) PROVE Shape'
    BY <1>5, Takes, StartShape DEF on_chat_migration, Shape, calls, Chats, AllKinds, Points
<1>6. ASSUME NEW h \in Handlers, on_join_decision(h) PROVE Shape'
    BY <1>6, StartShape DEF on_join_decision, Shape, calls, Chats, AllKinds, Points, Live
<1>7. ASSUME NEW h \in Handlers, Command(h) PROVE Shape'
    BY <1>7, StartShape DEF Command, cmd_tcconnect, cmd_tcdisconnect, cmd_leaveall, cmd_cleanup, cmd_rmtc,
                            Shape, calls, Chats, AllKinds, Points, Live
<1> USE DEF Shape, stores, telegram, control, calls, Points, Outcomes, Goto, End
<1>8. ASSUME NEW h \in Handlers, NEW c, RemovedCall(h, c) PROVE Shape'
    BY <1>8 DEF RemovedCall, deactivate_group, remove_pending, is_connected
<1>9. ASSUME NEW h \in Handlers, RemovedEnd(h) PROVE Shape'
    BY <1>9 DEF RemovedEnd
<1>10. ASSUME NEW h \in Handlers, BotAdded(h) PROVE Shape'
    BY <1>10 DEF BotAdded, is_connected
<1>11. ASSUME NEW h \in Handlers, SendPrompt(h) PROVE Shape'
    BY <1>11 DEF SendPrompt
<1>12. ASSUME NEW h \in Handlers, StorePending(h) PROVE Shape'
    BY <1>12 DEF StorePending, add_pending
<1>13. ASSUME NEW h \in Handlers, JoinPerms(h) PROVE Shape'
    BY <1>13 DEF JoinPerms
<1>14. ASSUME NEW h \in Handlers, JoinKnown(h) PROVE Shape'
    BY <1>14 DEF JoinKnown, is_connected
<1>15. ASSUME NEW h \in Handlers, JoinCancel(h) PROVE Shape'
    BY <1>15 DEF JoinCancel, remove_pending
<1>16. ASSUME NEW h \in Handlers, ConnectGather(h) PROVE Shape'
    BY <1>16 DEF ConnectGather, is_connected
<1>17. ASSUME NEW h \in Handlers, JoinAddGroup(h) PROVE Shape'
    BY <1>17, SMTT(30) DEF JoinAddGroup, add_group
<1>18. ASSUME NEW h \in Handlers, JoinUnpend(h) PROVE Shape'
    BY <1>18 DEF JoinUnpend, remove_pending
<1>19. ASSUME NEW h \in Handlers, JoinConfirm(h) PROVE Shape'
    BY <1>19 DEF JoinConfirm
<1>20. ASSUME NEW h \in Handlers, DisconnectCheck(h) PROVE Shape'
    BY <1>20 DEF DisconnectCheck, is_connected
<1>21. ASSUME NEW h \in Handlers, Deactivate(h) PROVE Shape'
    <2>1. CASE row[chat[h]] = "none"
        BY <1>21, <2>1 DEF Deactivate, deactivate_group
    <2>2. CASE row[chat[h]] # "none"
        BY <1>21, <2>2 DEF Deactivate, deactivate_group
    <2> QED BY <2>1, <2>2
<1>22. ASSUME NEW h \in Handlers, Leave(h) PROVE Shape'
    BY <1>22, BecomesShape DEF Leave, leave_chat, StaysAs
<1>23. ASSUME NEW h \in Handlers, LeaveAll(h) PROVE Shape'
    BY <1>23 DEF LeaveAll
<1>24. ASSUME NEW h \in Handlers, NEW c, LeaveOne(h, c) PROVE Shape'
    BY <1>24, BecomesShape DEF LeaveOne, leave_chat, StaysAs, deactivate_group
<1>25. ASSUME NEW h \in Handlers, LeaveAllEnd(h) PROVE Shape'
    BY <1>25 DEF LeaveAllEnd
<1>26. ASSUME NEW h \in Handlers, CleanupProbe(h) PROVE Shape'
    BY <1>26 DEF CleanupProbe
<1>27. ASSUME NEW h \in Handlers, NEW c, CleanupDeactivate(h, c) PROVE Shape'
    BY <1>27 DEF CleanupDeactivate, deactivate_group
<1>28. ASSUME NEW h \in Handlers, CleanupEnd(h) PROVE Shape'
    BY <1>28 DEF CleanupEnd
<1>29. ASSUME NEW h \in Handlers, MigrateRow(h) PROVE Shape'
    BY <1>29 DEF MigrateRow, Chats
<1>30. ASSUME NEW h \in Handlers, MigrateDrop(h) PROVE Shape'
    <2>1. row' \in [Chats -> {"none", "active", "inactive"}]
        BY <1>30 DEF MigrateDrop
    <2> QED BY <1>30, <2>1 DEF MigrateDrop
<1>31. ASSUME NEW h \in Handlers, MigratePending(h) PROVE Shape'
    BY <1>31 DEF MigratePending
<1>32. CASE Terminated
    BY <1>1, <1>32 DEF Terminated
<1> QED BY <1>1, <1>2, <1>3, <1>4, <1>5, <1>6, <1>7, <1>8, <1>9, <1>10, <1>11, <1>12, <1>13, <1>14,
           <1>15, <1>16, <1>17, <1>18, <1>19, <1>20, <1>21, <1>22, <1>23, <1>24, <1>25, <1>26, <1>27,
           <1>28, <1>29, <1>30, <1>31, <1>32 DEF Next, Step

(***************************************************************************)
(* What the steps of one handler leave alone                                *)
(***************************************************************************)
\* A step of h is no step of g.
Rests(h, g) ==
    /\ UNCHANGED <<kind, chat, overlap, moved>>
    /\ g # h => /\ pc'[g] = pc[g] /\ todo'[g] = todo[g] /\ bad'[g] = bad[g]
                /\ outcome'[g] = outcome[g]

\* Every step of a handler is its own.
LEMMA OthersRest ==
    ASSUME Shape, NEW h \in Handlers, Step(h), NEW g \in Handlers
    PROVE  Rests(h, g)
<1> USE DEF Shape, Rests, stores, telegram, control, calls, history, Goto, End
<1>1. ASSUME NEW c \in todo[h], RemovedCall(h, c) PROVE Rests(h, g)
    BY <1>1 DEF RemovedCall
<1>2. ASSUME NEW c \in todo[h], LeaveOne(h, c) PROVE Rests(h, g)
    BY <1>2 DEF LeaveOne
<1>3. ASSUME NEW c \in todo[h], CleanupDeactivate(h, c) PROVE Rests(h, g)
    BY <1>3 DEF CleanupDeactivate
<1>4. ASSUME RemovedEnd(h) PROVE Rests(h, g)
    BY <1>4 DEF RemovedEnd
<1>5. ASSUME BotAdded(h) PROVE Rests(h, g)
    BY <1>5 DEF BotAdded
<1>6. ASSUME SendPrompt(h) PROVE Rests(h, g)
    BY <1>6 DEF SendPrompt
<1>7. ASSUME StorePending(h) PROVE Rests(h, g)
    BY <1>7 DEF StorePending
<1>8. ASSUME JoinPerms(h) PROVE Rests(h, g)
    BY <1>8 DEF JoinPerms
<1>9. ASSUME JoinKnown(h) PROVE Rests(h, g)
    BY <1>9 DEF JoinKnown
<1>10. ASSUME JoinCancel(h) PROVE Rests(h, g)
    BY <1>10 DEF JoinCancel
<1>11. ASSUME ConnectGather(h) PROVE Rests(h, g)
    BY <1>11 DEF ConnectGather
<1>12. ASSUME JoinAddGroup(h) PROVE Rests(h, g)
    BY <1>12 DEF JoinAddGroup
<1>13. ASSUME JoinUnpend(h) PROVE Rests(h, g)
    BY <1>13 DEF JoinUnpend
<1>14. ASSUME JoinConfirm(h) PROVE Rests(h, g)
    BY <1>14 DEF JoinConfirm
<1>15. ASSUME DisconnectCheck(h) PROVE Rests(h, g)
    BY <1>15 DEF DisconnectCheck
<1>16. ASSUME Deactivate(h) PROVE Rests(h, g)
    BY <1>16 DEF Deactivate
<1>17. ASSUME Leave(h) PROVE Rests(h, g)
    BY <1>17 DEF Leave
<1>18. ASSUME LeaveAll(h) PROVE Rests(h, g)
    BY <1>18 DEF LeaveAll
<1>19. ASSUME LeaveAllEnd(h) PROVE Rests(h, g)
    BY <1>19 DEF LeaveAllEnd
<1>20. ASSUME CleanupProbe(h) PROVE Rests(h, g)
    BY <1>20 DEF CleanupProbe
<1>21. ASSUME CleanupEnd(h) PROVE Rests(h, g)
    BY <1>21 DEF CleanupEnd
<1>22. ASSUME MigrateRow(h) PROVE Rests(h, g)
    BY <1>22 DEF MigrateRow
<1>23. ASSUME MigrateDrop(h) PROVE Rests(h, g)
    BY <1>23 DEF MigrateDrop
<1>24. ASSUME MigratePending(h) PROVE Rests(h, g)
    BY <1>24 DEF MigratePending
<1> QED BY <1>1, <1>2, <1>3, <1>4, <1>5, <1>6, <1>7, <1>8, <1>9, <1>10, <1>11, <1>12, <1>13,
           <1>14, <1>15, <1>16, <1>17, <1>18, <1>19, <1>20, <1>21, <1>22, <1>23, <1>24 DEF Step

(***************************************************************************)
(* A pending request is not stranded                                        *)
(***************************************************************************)
\* The removal of the bot from c is still to be handled.
Removal(c) == \E i \in 1..Len(updates) : updates[i].chat = c /\ updates[i].is = "out"

\* The handler of a removal has call a still to make for the group.
Doing(h, a) == pc[h] = "removed" /\ <<a, Live>> \in todo[h]

\* A request that outlives the bot's membership has a removal on its way to it.
StrandInv ==
    bot = "out" /\ pend[Live] =>
        missed \/ late \/ Removal(Live) \/ \E h \in Handlers : Doing(h, "unpend")

\* Whoever throws the bot out has Telegram say so.
LEMMA OutIsQueued ==
    ASSUME Shape, Becomes("out"), moved' = moved
    PROVE  Removal(Live)'
<1> DEFINE u == [chat |-> Live, was |-> bot, is |-> "out"]
<1>1. u \in Update /\ Live' = Live
    BY DEF Shape, Update, Status, Live, Chats
<1>2. updates' = Append(updates, u)
    BY DEF Becomes
<1>3. /\ Len(updates) \in Nat /\ Len(updates') = Len(updates) + 1
      /\ updates'[Len(updates) + 1] = u
    BY <1>1, <1>2, Queues DEF Shape
<1> QED BY <1>1, <1>3 DEF Removal

\* Only its own handler takes a call off a removal.
LEMMA DoingStays ==
    ASSUME Shape, NEW h \in Handlers, Step(h), pc[h] # "removed", NEW g \in Handlers, NEW a,
           Doing(g, a)
    PROVE  Doing(g, a)'
<1>1. g # h
    BY DEF Doing
<1> QED BY <1>1, OthersRest DEF Rests, Doing, Live

\* A step that adds no request, queues nothing and takes no call off a removal.
LEMMA StrandStays ==
    ASSUME StrandInv, UNCHANGED <<bot, moved, updates>>, pend'[Live] => pend[Live],
           missed => missed', late => late',
           \A g \in Handlers : Doing(g, "unpend") => Doing(g, "unpend")'
    PROVE  StrandInv'
<1>1. Live' = Live /\ (Removal(Live) => Removal(Live)')
    BY DEF Live, Removal
<1> QED BY <1>1 DEF StrandInv

\* What the two writers of pending rows do to the row of one chat.
LEMMA PendWrites ==
    ASSUME Shape, NEW c, NEW d \in Chats
    PROVE  /\ remove_pending(c) => (pend'[d] => pend[d]) /\ (c = d => ~pend'[d])
           /\ add_pending(c) => (pend'[d] => pend[d] \/ c = d)
<1>1. ASSUME remove_pending(c) PROVE pend'[d] = IF d = c THEN FALSE ELSE pend[d]
    BY <1>1 DEF remove_pending, Shape
<1>2. ASSUME add_pending(c), c # d PROVE pend'[d] = pend[d]
    BY <1>2 DEF add_pending, Shape
<1> QED BY <1>1, <1>2

\* The group has one of its two ids.
LEMMA LiveIsAChat == Live \in Chats
BY DEF Live, Chats

\* One step of a handler keeps StrandInv.
LEMMA StrandStep ==
    ASSUME Shape, StrandInv, NEW h \in Handlers, Step(h)
    PROVE  StrandInv'
<1> USE DEF stores, telegram, control, calls, history
<1>1. ASSUME pc[h] # "removed", UNCHANGED <<bot, moved, updates>>, pend'[Live] => pend[Live],
             missed => missed', late => late'
      PROVE  StrandInv'
    BY <1>1, StrandStays, DoingStays
<1>2. ASSUME NEW c \in todo[h], CleanupDeactivate(h, c) PROVE StrandInv'
    BY <1>2, <1>1 DEF CleanupDeactivate
<1>3. ASSUME BotAdded(h) PROVE StrandInv'
    BY <1>3, <1>1 DEF BotAdded
<1>4. ASSUME SendPrompt(h) PROVE StrandInv'
    BY <1>4, <1>1 DEF SendPrompt
<1>5. ASSUME JoinPerms(h) PROVE StrandInv'
    BY <1>5, <1>1 DEF JoinPerms
<1>6. ASSUME JoinKnown(h) PROVE StrandInv'
    BY <1>6, <1>1 DEF JoinKnown
<1>7. ASSUME JoinCancel(h) PROVE StrandInv'
    BY <1>7, <1>1, PendWrites, LiveIsAChat DEF JoinCancel
<1>8. ASSUME ConnectGather(h) PROVE StrandInv'
    BY <1>8, <1>1 DEF ConnectGather
<1>9. ASSUME JoinAddGroup(h) PROVE StrandInv'
    BY <1>9, <1>1 DEF JoinAddGroup
<1>10. ASSUME JoinUnpend(h) PROVE StrandInv'
    BY <1>10, <1>1, PendWrites, LiveIsAChat DEF JoinUnpend
<1>11. ASSUME JoinConfirm(h) PROVE StrandInv'
    BY <1>11, <1>1 DEF JoinConfirm
<1>12. ASSUME DisconnectCheck(h) PROVE StrandInv'
    BY <1>12, <1>1 DEF DisconnectCheck
<1>13. ASSUME Deactivate(h) PROVE StrandInv'
    BY <1>13, <1>1 DEF Deactivate
<1>14. ASSUME LeaveAll(h) PROVE StrandInv'
    BY <1>14, <1>1 DEF LeaveAll
<1>15. ASSUME LeaveAllEnd(h) PROVE StrandInv'
    BY <1>15, <1>1 DEF LeaveAllEnd
<1>16. ASSUME CleanupProbe(h) PROVE StrandInv'
    BY <1>16, <1>1 DEF CleanupProbe
<1>17. ASSUME CleanupEnd(h) PROVE StrandInv'
    BY <1>17, <1>1 DEF CleanupEnd
<1>18. ASSUME MigrateRow(h) PROVE StrandInv'
    BY <1>18, <1>1 DEF MigrateRow
<1>19. ASSUME MigrateDrop(h) PROVE StrandInv'
    BY <1>19, <1>1 DEF MigrateDrop
<1>20. ASSUME NEW c \in todo[h], RemovedCall(h, c) PROVE StrandInv'
    <2>1. UNCHANGED <<bot, moved, updates, late, pc>> /\ todo' = [todo EXCEPT ![h] = @ \ {c}]
        BY <1>20 DEF RemovedCall
    <2>2. CASE c = <<"unpend", Live>>
        <3>1. missed' \/ ~pend'[Live]
            <4>1. CASE missed' = (missed \/ c[1] # "check")
                BY <2>2, <4>1, Zenon
            <4>2. CASE remove_pending(c[2])
                BY <2>2, <4>2, PendWrites, LiveIsAChat
            <4> QED BY <1>20, <2>2, <4>1, <4>2 DEF RemovedCall
        <3> QED BY <2>1, <3>1 DEF StrandInv, Live
    <2>3. CASE c # <<"unpend", Live>>
        <3>1. \A g \in Handlers : Doing(g, "unpend") => Doing(g, "unpend")'
            BY <2>1, <2>3 DEF Doing, Live, Shape
        <3>2. pend'[Live] => pend[Live]
            BY <1>20, PendWrites, LiveIsAChat DEF RemovedCall
        <3>3. missed' = missed \/ missed' = (missed \/ c[1] # "check")
            BY <1>20 DEF RemovedCall
        <3>4. missed => missed'
            BY <3>3, Zenon
        <3> QED BY <2>1, <3>1, <3>2, <3>4, StrandStays
    <2> QED BY <2>2, <2>3
<1>21. ASSUME RemovedEnd(h) PROVE StrandInv'
    <2>1. \A g \in Handlers : Doing(g, "unpend") => Doing(g, "unpend")'
        BY <1>21 DEF RemovedEnd, Doing, Live, Shape, End
    <2> QED BY <1>21, <2>1, StrandStays DEF RemovedEnd
<1>22. ASSUME StorePending(h) PROVE StrandInv'
    <2>1. CASE pend'[Live] => pend[Live]
        BY <1>1, <1>22, <2>1 DEF StorePending, add_pending
    <2>2. CASE pend'[Live] /\ ~pend[Live]
        <3>0. add_pending(chat[h])
            BY <1>22, <2>2 DEF StorePending
        <3>1. chat[h] = Live /\ late' = (late \/ ~In(chat[h]))
            BY <2>2, <3>0, PendWrites, LiveIsAChat DEF add_pending
        <3>2. UNCHANGED <<bot, moved>>
            BY <1>22 DEF StorePending
        <3>3. bot = "out" => late'
            BY <3>1, Zenon DEF In
        <3> QED BY <3>2, <3>3 DEF StrandInv
    <2> QED BY <2>1, <2>2
<1>23. ASSUME MigratePending(h) PROVE StrandInv'
    <2>1. PICK ok \in BOOLEAN :
            /\ pend' = IF ok THEN [pend EXCEPT ![New] = @ \/ pend[Old], ![Old] = FALSE] ELSE pend
            /\ late' = (late \/ (ok /\ pend[Old] /\ ~In(New)))
        BY <1>23 DEF MigratePending
    <2>2. UNCHANGED <<bot, moved, updates, missed>> /\ pc[h] = "move_pending"
        BY <1>23 DEF MigratePending
    <2>3. late => late'
        BY <2>1, Zenon
    <2>4. CASE pend'[Live] => pend[Live]
        BY <1>1, <2>2, <2>3, <2>4
    <2>5. CASE pend'[Live] /\ ~pend[Live]
        <3>1. ok /\ pend[Old] /\ Live = New
            <4>1. ok
                BY <2>1, <2>5
            <4>2. Live # Old
                BY <2>1, <2>5, <4>1, ChatAssumption DEF Shape, Chats
            <4>3. Live = New
                BY <4>2 DEF Live
            <4>4. pend'[New] = (pend[New] \/ pend[Old])
                BY <2>1, <4>1, ChatAssumption DEF Shape, Chats
            <4> QED BY <2>5, <4>1, <4>3, <4>4, Zenon
        <3>2. bot = "out" => late'
            BY <2>1, <3>1, Zenon DEF In
        <3> QED BY <2>2, <3>2 DEF StrandInv
    <2> QED BY <2>4, <2>5
<1>24. ASSUME Leave(h) PROVE StrandInv'
    <2>1. pc[h] = "leave" /\ moved' = moved /\ UNCHANGED <<pend, missed, late>>
        BY <1>24 DEF Leave
    <2>2. CASE StaysAs
        BY <1>1, <2>1, <2>2 DEF StaysAs
    <2>3. CASE Becomes("out")
        BY <2>1, <2>3, OutIsQueued DEF StrandInv
    <2> QED BY <1>24, <2>2, <2>3 DEF Leave, leave_chat
<1>25. ASSUME NEW c \in todo[h], LeaveOne(h, c) PROVE StrandInv'
    <2>1. pc[h] = "leaving" /\ moved' = moved /\ UNCHANGED <<pend, missed, late>>
        BY <1>25 DEF LeaveOne
    <2>2. CASE StaysAs
        BY <1>1, <2>1, <2>2 DEF StaysAs
    <2>3. CASE Becomes("out")
        BY <2>1, <2>3, OutIsQueued DEF StrandInv
    <2> QED BY <1>25, <2>2, <2>3 DEF LeaveOne, leave_chat
<1> QED BY <1>2, <1>3, <1>4, <1>5, <1>6, <1>7, <1>8, <1>9, <1>10, <1>11, <1>12, <1>13, <1>14,
           <1>15, <1>16, <1>17, <1>18, <1>19, <1>20, <1>21, <1>22, <1>23, <1>24, <1>25 DEF Step

\* One of the commands and taps, which take no update off the queue.
Commanded(h) == on_join_decision(h) \/ Command(h)

\* A dispatched handler was idle, and the others are where they were.
LEMMA Started ==
    ASSUME Shape, NEW h \in Handlers, NEW k, NEW c \in Chats, NEW l \in Points, Start(h, k, c, l)
    PROVE  /\ pc[h] = "idle" /\ pc'[h] = l /\ chat'[h] = c /\ kind'[h] = k
           /\ \A g \in Handlers : g # h => pc'[g] = pc[g] /\ chat'[g] = chat[g] /\ kind'[g] = kind[g]
           /\ UNCHANGED <<row, pend, conn, bot, moved, told, missed, late, stale, outcome>>
           /\ overlap' = (overlap \/ Busy # {})
BY DEF Start, Shape, stores

\* A command starts one handler, at a point of its kind.
LEMMA CommandStarts ==
    ASSUME Shape, NEW h \in Handlers, Commanded(h)
    PROVE  /\ UNCHANGED <<updates, todo, bad>>
           /\ \E k \in AllKinds, c \in Chats, l \in Points :
                /\ Start(h, k, c, l)
                /\ bot # "out" \/ l \in {"rm", "all", "probe"}
                /\ l \notin {"idle", "removed", "move", "drop", "move_pending", "added", "ask", "add_group",
                            "unpend", "confirm", "deactivate", "leaving", "pruning"}
                /\ l = "check" => k = "disconnect"
                /\ l = "rm" => k = "rmtc"
                /\ l = "all" => k = "leaveall"
                /\ l = "probe" => k = "cleanup"
<1> USE LiveIsAChat DEF AllKinds, Points, calls
<1>1. CASE on_join_decision(h)
    BY <1>1 DEF on_join_decision
<1>2. CASE cmd_tcconnect(h)
    BY <1>2 DEF cmd_tcconnect
<1>3. CASE cmd_tcdisconnect(h)
    BY <1>3 DEF cmd_tcdisconnect
<1>4. CASE cmd_leaveall(h)
    BY <1>4 DEF cmd_leaveall
<1>5. CASE cmd_cleanup(h)
    BY <1>5 DEF cmd_cleanup
<1>6. ASSUME NEW c \in Chats, cmd_rmtc(h, c)
      PROVE  /\ UNCHANGED <<updates, todo, bad>>
             /\ Start(h, "rmtc", c, "rm")
    BY <1>6 DEF cmd_rmtc
<1> QED BY <1>1, <1>2, <1>3, <1>4, <1>5, <1>6 DEF Commanded, Command

\* The handler of an update works on its chat; that of a removal has all of its
\* calls to make.
LEMMA UpdateStarts ==
    ASSUME Shape, NEW h \in Handlers, on_bot_added(h)
    PROVE  /\ updates # << >> /\ updates' = Tail(updates) /\ updates[1] \in Update /\ bad' = bad
           /\ updates[1].is # "moved"
           /\ \E l \in {"removed", "done", "added", "ask"} :
                /\ Start(h, "update", updates[1].chat, l)
                /\ updates[1].is = "out" <=> l = "removed"
           /\ updates[1].is = "out" => todo'[h] = {"check", "deactivate", "unpend"} \X {updates[1].chat}
           /\ \A g \in Handlers : g # h => todo'[g] = todo[g]
<1>1. updates # << >> /\ updates' = Tail(updates) /\ bad' = bad
    BY DEF on_bot_added
<1>2. Head(updates) = updates[1] /\ updates[1] \in Update
    BY <1>1, Takes DEF Shape
<1> QED BY <1>1, <1>2 DEF on_bot_added, Shape

\* The handler of a migration.
LEMMA MigrationStarts ==
    ASSUME Shape, NEW h \in Handlers, on_chat_migration(h)
    PROVE  /\ updates # << >> /\ updates' = Tail(updates) /\ updates[1] \in Update
           /\ updates[1].is = "moved" /\ Start(h, "migrate", New, "move") /\ UNCHANGED <<todo, bad>>
<1>1. updates # << >> /\ updates' = Tail(updates)
    BY DEF on_chat_migration
<1>2. Head(updates) = updates[1] /\ updates[1] \in Update
    BY <1>1, Takes DEF Shape
<1> QED BY <1>1, <1>2 DEF on_chat_migration, calls

\* A removal that is not the oldest update is still queued when that is taken.
LEMMA RemovalStays ==
    ASSUME Shape, updates # << >>, updates' = Tail(updates), NEW c, Removal(c),
           ~(updates[1].chat = c /\ updates[1].is = "out")
    PROVE  Removal(c)'
<1>1. PICK i \in 1..Len(updates) : updates[i].chat = c /\ updates[i].is = "out"
    BY DEF Removal
<1>2. /\ Len(updates) \in Nat \ {0} /\ Len(updates') = Len(updates) - 1
      /\ \A j \in 1..(Len(updates) - 1) : updates'[j] = updates[j + 1]
    BY Takes DEF Shape
<1>3. i - 1 \in 1..Len(updates') /\ updates'[i - 1] = updates[i]
    BY <1>1, <1>2
<1> QED BY <1>1, <1>3 DEF Removal

\* Dispatch, Telegram and the group's people keep StrandInv.
LEMMA StrandNext == Shape /\ StrandInv /\ [Next]_vars => StrandInv'
<1> SUFFICES ASSUME Shape, StrandInv, [Next]_vars PROVE StrandInv'
    OBVIOUS
<1> USE DEF stores, telegram, control, calls, history
<1>1. CASE UNCHANGED vars
    BY <1>1, StrandStays DEF vars, Doing, Live
<1>2. CASE Migrate
    BY <1>2 DEF Migrate, StrandInv
<1>3. ASSUME NEW s \in {"out", "member", "admin"}, Move(s) PROVE StrandInv'
    BY <1>3, OutIsQueued DEF Move, Becomes, StrandInv
<1>4. ASSUME NEW h \in Handlers, Commanded(h) PROVE StrandInv'
    <2>1. \A g \in Handlers : Doing(g, "unpend") => Doing(g, "unpend")'
        BY <1>4, CommandStarts, Started DEF Doing, Live
    <2> QED BY <1>4, <2>1, CommandStarts, Started, StrandStays
<1>5. ASSUME NEW h \in Handlers, on_bot_added(h) PROVE StrandInv'
    <2>1. UNCHANGED <<bot, moved, pend, missed, late>> /\ Live' = Live
        BY <1>5, UpdateStarts, Started DEF Live, Update, Points
    <2>2. \A g \in Handlers : Doing(g, "unpend") => Doing(g, "unpend")'
        BY <1>5, <2>1, UpdateStarts, Started DEF Doing, Update, Points
    <2>3. CASE updates[1].chat = Live /\ updates[1].is = "out"
        <3>1. Doing(h, "unpend")'
            BY <1>5, <2>1, <2>3, UpdateStarts, Started DEF Doing, Update, Points
        <3> QED BY <2>1, <3>1 DEF StrandInv
    <2>4. CASE ~(updates[1].chat = Live /\ updates[1].is = "out")
        <3>1. Removal(Live) => Removal(Live)'
            BY <1>5, <2>1, <2>4, UpdateStarts, RemovalStays
        <3> QED BY <2>1, <2>2, <3>1 DEF StrandInv
    <2> QED BY <2>3, <2>4
<1>6. ASSUME NEW h \in Handlers, on_chat_migration(h) PROVE StrandInv'
    <2>1. UNCHANGED <<bot, moved, pend, missed, late>> /\ Live' = Live
        BY <1>6, MigrationStarts, Started DEF Live, Chats, Points
    <2>2. \A g \in Handlers : Doing(g, "unpend") => Doing(g, "unpend")'
        BY <1>6, <2>1, MigrationStarts, Started DEF Doing, Chats, Points
    <2>3. Removal(Live) => Removal(Live)'
        BY <1>6, <2>1, MigrationStarts, RemovalStays
    <2> QED BY <2>1, <2>2, <2>3 DEF StrandInv
<1>7. ASSUME NEW h \in Handlers, Step(h) PROVE StrandInv'
    BY <1>7, StrandStep
<1> QED BY <1>1, <1>2, <1>3, <1>4, <1>5, <1>6, <1>7 DEF Next, Commanded, Terminated

\* For any overlap and any failures: a pending request is left behind only by a
\* removal whose delete failed or by a request that came after the bot had left
\* (on_bot_added, on_join_decision, migrate_group).
THEOREM RequestsAreNotStranded == Spec => []NoStrandedRequest
<1>1. Init => StrandInv
    BY ChatAssumption DEF Init, StrandInv, Live, Chats
<1>2. Shape /\ StrandInv => NoStrandedRequest
    BY DEF Shape, StrandInv, NoStrandedRequest, Quiet, Busy, Removal, Doing
<1> QED BY ShapeInit, ShapeNext, StrandNext, <1>1, <1>2, PTL DEF Spec

(***************************************************************************)
(* A migration works on the supergroup                                      *)
(***************************************************************************)
\* A migration update, and the handler that serves it, are about the new chat.
AtNew ==
    /\ \A h \in Handlers : pc[h] = "move" => chat[h] = New
    /\ \A i \in 1..Len(updates) : updates[i].is = "moved" => updates[i].chat = New

\* No step of a handler leads to the start of a migration.
LEMMA MoveIsFirst ==
    ASSUME Shape, NEW h \in Handlers, Step(h)
    PROVE  pc'[h] # "move"
<1> USE DEF Shape, Goto, End
<1>1. ASSUME NEW c \in todo[h], RemovedCall(h, c) PROVE pc'[h] # "move"
    BY <1>1 DEF RemovedCall
<1>2. ASSUME NEW c \in todo[h], LeaveOne(h, c) PROVE pc'[h] # "move"
    BY <1>2 DEF LeaveOne
<1>3. ASSUME NEW c \in todo[h], CleanupDeactivate(h, c) PROVE pc'[h] # "move"
    BY <1>3 DEF CleanupDeactivate
<1>4. ASSUME RemovedEnd(h) PROVE pc'[h] # "move"
    BY <1>4 DEF RemovedEnd
<1>5. ASSUME BotAdded(h) PROVE pc'[h] # "move"
    BY <1>5 DEF BotAdded
<1>6. ASSUME SendPrompt(h) PROVE pc'[h] # "move"
    BY <1>6 DEF SendPrompt
<1>7. ASSUME StorePending(h) PROVE pc'[h] # "move"
    BY <1>7 DEF StorePending
<1>8. ASSUME JoinPerms(h) PROVE pc'[h] # "move"
    BY <1>8 DEF JoinPerms
<1>9. ASSUME JoinKnown(h) PROVE pc'[h] # "move"
    BY <1>9 DEF JoinKnown
<1>10. ASSUME JoinCancel(h) PROVE pc'[h] # "move"
    BY <1>10 DEF JoinCancel
<1>11. ASSUME ConnectGather(h) PROVE pc'[h] # "move"
    BY <1>11 DEF ConnectGather
<1>12. ASSUME JoinAddGroup(h) PROVE pc'[h] # "move"
    BY <1>12 DEF JoinAddGroup
<1>13. ASSUME JoinUnpend(h) PROVE pc'[h] # "move"
    BY <1>13 DEF JoinUnpend
<1>14. ASSUME JoinConfirm(h) PROVE pc'[h] # "move"
    BY <1>14 DEF JoinConfirm
<1>15. ASSUME DisconnectCheck(h) PROVE pc'[h] # "move"
    BY <1>15 DEF DisconnectCheck
<1>16. ASSUME Deactivate(h) PROVE pc'[h] # "move"
    BY <1>16 DEF Deactivate
<1>17. ASSUME Leave(h) PROVE pc'[h] # "move"
    BY <1>17 DEF Leave
<1>18. ASSUME LeaveAll(h) PROVE pc'[h] # "move"
    BY <1>18 DEF LeaveAll
<1>19. ASSUME LeaveAllEnd(h) PROVE pc'[h] # "move"
    BY <1>19 DEF LeaveAllEnd
<1>20. ASSUME CleanupProbe(h) PROVE pc'[h] # "move"
    BY <1>20 DEF CleanupProbe
<1>21. ASSUME CleanupEnd(h) PROVE pc'[h] # "move"
    BY <1>21 DEF CleanupEnd
<1>22. ASSUME MigrateRow(h) PROVE pc'[h] # "move"
    BY <1>22 DEF MigrateRow
<1>23. ASSUME MigrateDrop(h) PROVE pc'[h] # "move"
    BY <1>23 DEF MigrateDrop
<1>24. ASSUME MigratePending(h) PROVE pc'[h] # "move"
    BY <1>24 DEF MigratePending
<1> QED BY <1>1, <1>2, <1>3, <1>4, <1>5, <1>6, <1>7, <1>8, <1>9, <1>10, <1>11, <1>12, <1>13,
           <1>14, <1>15, <1>16, <1>17, <1>18, <1>19, <1>20, <1>21, <1>22, <1>23, <1>24 DEF Step

\* The queue when an update is taken off its head.
LEMMA QueueTaken ==
    ASSUME Shape, updates # << >>, updates' = Tail(updates)
    PROVE  /\ Len(updates) \in Nat \ {0} /\ Len(updates') = Len(updates) - 1
           /\ \A i \in 1..Len(updates') : i + 1 \in 1..Len(updates) /\ updates'[i] = updates[i + 1]
BY Takes DEF Shape

\* The queue when an update comes.
LEMMA QueueGrown ==
    ASSUME Shape, NEW u \in Update, updates' = Append(updates, u)
    PROVE  /\ Len(updates) \in Nat /\ Len(updates') = Len(updates) + 1
           /\ updates'[Len(updates) + 1] = u
           /\ \A i \in 1..Len(updates) : updates'[i] = updates[i]
BY Queues DEF Shape

\* What Telegram queues when the bot's membership changes.
LEMMA BecomesQueues ==
    ASSUME Shape, NEW s \in {"out", "member", "admin"}, Becomes(s)
    PROVE  \E u \in Update : updates' = Append(updates, u) /\ u.is = s /\ u.chat = Live
BY LiveIsAChat DEF Becomes, Shape, Update, Status

\* Of the steps of a handler only leave_chat makes Telegram queue an update.
TalksToTelegram(h) ==
    UNCHANGED <<bot, updates, told>> \/ (pc[h] = "confirm" /\ UNCHANGED <<bot, updates>>)
    \/ (Becomes("out") /\ pc[h] \in {"leave", "leaving"})

\* That is so of every step.
LEMMA OnlyLeavingTalks ==
    ASSUME NEW h \in Handlers, Step(h)
    PROVE  TalksToTelegram(h)
<1> USE DEF TalksToTelegram, telegram, history
<1>1. ASSUME NEW c \in todo[h], RemovedCall(h, c) PROVE TalksToTelegram(h)
    BY <1>1 DEF RemovedCall
<1>2. ASSUME NEW c \in todo[h], LeaveOne(h, c) PROVE TalksToTelegram(h)
    BY <1>2 DEF LeaveOne, leave_chat, StaysAs
<1>3. ASSUME NEW c \in todo[h], CleanupDeactivate(h, c) PROVE TalksToTelegram(h)
    BY <1>3 DEF CleanupDeactivate
<1>4. ASSUME RemovedEnd(h) PROVE TalksToTelegram(h)
    BY <1>4 DEF RemovedEnd
<1>5. ASSUME BotAdded(h) PROVE TalksToTelegram(h)
    BY <1>5 DEF BotAdded
<1>6. ASSUME SendPrompt(h) PROVE TalksToTelegram(h)
    BY <1>6 DEF SendPrompt
<1>7. ASSUME StorePending(h) PROVE TalksToTelegram(h)
    BY <1>7 DEF StorePending
<1>8. ASSUME JoinPerms(h) PROVE TalksToTelegram(h)
    BY <1>8 DEF JoinPerms
<1>9. ASSUME JoinKnown(h) PROVE TalksToTelegram(h)
    BY <1>9 DEF JoinKnown
<1>10. ASSUME JoinCancel(h) PROVE TalksToTelegram(h)
    BY <1>10 DEF JoinCancel
<1>11. ASSUME ConnectGather(h) PROVE TalksToTelegram(h)
    BY <1>11 DEF ConnectGather
<1>12. ASSUME JoinAddGroup(h) PROVE TalksToTelegram(h)
    BY <1>12 DEF JoinAddGroup
<1>13. ASSUME JoinUnpend(h) PROVE TalksToTelegram(h)
    BY <1>13 DEF JoinUnpend
<1>14. ASSUME JoinConfirm(h) PROVE TalksToTelegram(h)
    BY <1>14 DEF JoinConfirm
<1>15. ASSUME DisconnectCheck(h) PROVE TalksToTelegram(h)
    BY <1>15 DEF DisconnectCheck
<1>16. ASSUME Deactivate(h) PROVE TalksToTelegram(h)
    BY <1>16 DEF Deactivate
<1>17. ASSUME Leave(h) PROVE TalksToTelegram(h)
    BY <1>17 DEF Leave, leave_chat, StaysAs
<1>18. ASSUME LeaveAll(h) PROVE TalksToTelegram(h)
    BY <1>18 DEF LeaveAll
<1>19. ASSUME LeaveAllEnd(h) PROVE TalksToTelegram(h)
    BY <1>19 DEF LeaveAllEnd
<1>20. ASSUME CleanupProbe(h) PROVE TalksToTelegram(h)
    BY <1>20 DEF CleanupProbe
<1>21. ASSUME CleanupEnd(h) PROVE TalksToTelegram(h)
    BY <1>21 DEF CleanupEnd
<1>22. ASSUME MigrateRow(h) PROVE TalksToTelegram(h)
    BY <1>22 DEF MigrateRow
<1>23. ASSUME MigrateDrop(h) PROVE TalksToTelegram(h)
    BY <1>23 DEF MigrateDrop
<1>24. ASSUME MigratePending(h) PROVE TalksToTelegram(h)
    BY <1>24 DEF MigratePending
<1> QED BY <1>1, <1>2, <1>3, <1>4, <1>5, <1>6, <1>7, <1>8, <1>9, <1>10, <1>11, <1>12, <1>13,
           <1>14, <1>15, <1>16, <1>17, <1>18, <1>19, <1>20, <1>21, <1>22, <1>23, <1>24 DEF Step

\* Every step keeps AtNew.
LEMMA AtNewNext == Shape /\ AtNew /\ [Next]_vars => AtNew'
<1> SUFFICES ASSUME Shape, AtNew, [Next]_vars PROVE AtNew'
    OBVIOUS
<1> USE DEF stores, telegram, control, calls, history
<1>1. CASE UNCHANGED vars
    BY <1>1 DEF vars, AtNew
<1>2. CASE Migrate
    <2> DEFINE u == [chat |-> New, was |-> "moved", is |-> "moved"]
    <2>1. u \in Update /\ updates' = Append(updates, u) /\ UNCHANGED <<pc, chat>>
        BY <1>2 DEF Migrate, Update, Status, Chats
    <2>2. u.chat = New
        OBVIOUS
    <2> HIDE DEF u
    <2> QED BY <2>1, <2>2, QueueGrown DEF AtNew
<1>3. ASSUME NEW s \in {"out", "member", "admin"}, Becomes(s), UNCHANGED <<pc, chat>> PROVE AtNew'
    BY <1>3, BecomesQueues, QueueGrown DEF AtNew
<1>4. ASSUME NEW s \in {"out", "member", "admin"}, Move(s) PROVE AtNew'
    BY <1>3, <1>4 DEF Move
<1>5. ASSUME NEW h \in Handlers, Commanded(h) PROVE AtNew'
    BY <1>5, CommandStarts, Started DEF AtNew
<1>6. ASSUME NEW h \in Handlers, on_bot_added(h) PROVE AtNew'
    <2>1. \A g \in Handlers : pc'[g] = "move" => pc[g] = "move" /\ chat'[g] = chat[g]
        BY <1>6, UpdateStarts, Started DEF Update, Points
    <2>2. \A i \in 1..Len(updates') : i + 1 \in 1..Len(updates) /\ updates'[i] = updates[i + 1]
        BY <1>6, UpdateStarts, QueueTaken
    <2> QED BY <2>1, <2>2 DEF AtNew
<1>7. ASSUME NEW h \in Handlers, on_chat_migration(h) PROVE AtNew'
    <2>1. \A g \in Handlers : pc'[g] = "move" => g = h \/ (pc[g] = "move" /\ chat'[g] = chat[g])
        BY <1>7, MigrationStarts, Started DEF Chats, Points
    <2>2. chat'[h] = New
        BY <1>7, MigrationStarts, Started DEF Chats, Points
    <2>3. \A i \in 1..Len(updates') : i + 1 \in 1..Len(updates) /\ updates'[i] = updates[i + 1]
        BY <1>7, MigrationStarts, QueueTaken
    <2> QED BY <2>1, <2>2, <2>3 DEF AtNew
<1>8. ASSUME NEW h \in Handlers, Step(h) PROVE AtNew'
    <2>1. \A g \in Handlers : pc'[g] = "move" => pc[g] = "move" /\ chat'[g] = chat[g]
        BY <1>8, OthersRest, MoveIsFirst DEF Rests
    <2>2. updates' = updates \/ Becomes("out")
        BY <1>8, OnlyLeavingTalks DEF TalksToTelegram
    <2>3. CASE updates' = updates
        BY <2>1, <2>3 DEF AtNew
    <2>4. CASE Becomes("out")
        <3>1. \A i \in 1..Len(updates') : updates'[i].is = "moved" => updates'[i].chat = New
            BY <2>4, BecomesQueues, QueueGrown DEF AtNew
        <3> QED BY <2>1, <3>1 DEF AtNew
    <2> QED BY <2>2, <2>3, <2>4
<1> QED BY <1>1, <1>2, <1>4, <1>5, <1>6, <1>7, <1>8 DEF Next, Commanded, Terminated

(***************************************************************************)
(* No ghost                                                                 *)
(***************************************************************************)
\* Control points from which the group may still be connected.
Connecting == {"added", "ask", "perms", "known", "gather", "add_group", "move"}

\* While the bot is out, whatever connects the group has its removal after it.
GhostInv ==
    ~overlap /\ ~missed /\ bot = "out" =>
        /\ \A h \in Handlers : pc[h] \in Connecting /\ chat[h] = Live => Removal(Live)
        /\ row[Live] = "active" => Removal(Live) \/ \E h \in Handlers : Doing(h, "deactivate")
        /\ \A i \in 1..Len(updates) : updates[i].chat = Live /\ updates[i].is # "out" =>
               \E j \in (i + 1)..Len(updates) : updates[j].chat = Live /\ updates[j].is = "out"

\* The removal that comes when the bot leaves is the last update.
LEMMA OutIsLast ==
    ASSUME Shape, Becomes("out"), moved' = moved
    PROVE  GhostInv'
<1>1. Removal(Live)' /\ Live' = Live
    BY OutIsQueued DEF Live
<1>2. PICK u \in Update : updates' = Append(updates, u) /\ u.is = "out" /\ u.chat = Live
    BY BecomesQueues
<1>3. /\ Len(updates) \in Nat /\ Len(updates') = Len(updates) + 1
      /\ updates'[Len(updates) + 1] = u
    BY <1>2, QueueGrown
<1>4. ASSUME NEW i \in 1..Len(updates'), updates'[i].is # "out"
      PROVE  \E j \in (i + 1)..Len(updates') : updates'[j].chat = Live /\ updates'[j].is = "out"
    <2>1. i # Len(updates) + 1
        BY <1>2, <1>3, <1>4
    <2>2. Len(updates) + 1 \in (i + 1)..Len(updates')
        BY <1>3, <2>1
    <2> QED BY <1>2, <1>3, <2>2
<1> QED BY <1>1, <1>4 DEF GhostInv

\* A step that queues nothing and connects nothing.
LEMMA GhostStays ==
    ASSUME GhostInv, UNCHANGED <<bot, moved, updates>>, overlap => overlap', missed => missed',
           bot = "out" => \A g \in Handlers :
                pc'[g] \in Connecting => pc[g] \in Connecting /\ chat'[g] = chat[g],
           row'[Live] = "active" =>
                \/ row[Live] = "active" /\ \A g \in Handlers : Doing(g, "deactivate") => Doing(g, "deactivate")'
                \/ \E g \in Handlers : pc[g] \in Connecting /\ chat[g] = Live
    PROVE  GhostInv'
<1>1. Live' = Live /\ (Removal(Live)' <=> Removal(Live))
    BY DEF Live, Removal
<1> SUFFICES ASSUME ~overlap', ~missed', bot' = "out"
             PROVE  (/\ \A h \in Handlers : pc[h] \in Connecting /\ chat[h] = Live => Removal(Live)
                     /\ row[Live] = "active" => Removal(Live) \/ \E h \in Handlers : Doing(h, "deactivate")
                     /\ \A i \in 1..Len(updates) : updates[i].chat = Live /\ updates[i].is # "out" =>
                           \E j \in (i + 1)..Len(updates) : updates[j].chat = Live /\ updates[j].is = "out")'
    BY DEF GhostInv
<1>2. ~overlap /\ ~missed /\ bot = "out"
    OBVIOUS
<1>3. (\A h \in Handlers : pc[h] \in Connecting /\ chat[h] = Live => Removal(Live))'
    BY <1>1, <1>2 DEF GhostInv
<1>4. (row[Live] = "active" => Removal(Live) \/ \E h \in Handlers : Doing(h, "deactivate"))'
    BY <1>1, <1>2 DEF GhostInv
<1>5. (\A i \in 1..Len(updates) : updates[i].chat = Live /\ updates[i].is # "out" =>
          \E j \in (i + 1)..Len(updates) : updates[j].chat = Live /\ updates[j].is = "out")'
    BY <1>1, <1>2 DEF GhostInv
<1> QED BY <1>3, <1>4, <1>5

\* One step of a handler keeps GhostInv.
LEMMA GhostStep ==
    ASSUME Shape, AtNew, GhostInv, NEW h \in Handlers, Step(h)
    PROVE  GhostInv'
<1> USE DEF stores, telegram, control, calls, history, Goto, End, Connecting, Shape
<1>1. ASSUME pc[h] # "removed", UNCHANGED <<bot, updates, missed>>,
             pc'[h] \in Connecting => pc[h] \in Connecting,
             row'[Live] = "active" => row[Live] = "active" \/ (pc[h] \in Connecting /\ chat[h] = Live)
      PROVE  GhostInv'
    <2>1. \A g \in Handlers : Doing(g, "deactivate") => Doing(g, "deactivate")'
        BY <1>1, DoingStays
    <2>2. UNCHANGED <<moved, overlap, chat>> /\ \A g \in Handlers : g # h => pc'[g] = pc[g]
        BY OthersRest DEF Rests
    <2> HIDE DEF Connecting
    <2> QED BY <1>1, <2>1, <2>2, GhostStays
<1>2. ASSUME NEW c \in todo[h], CleanupDeactivate(h, c) PROVE GhostInv'
    <2>1. row'[Live] = "active" => row[Live] = "active"
        BY <1>2, LiveIsAChat DEF CleanupDeactivate, deactivate_group
    <2> QED BY <1>2, <1>1, <2>1 DEF CleanupDeactivate
<1>3. ASSUME BotAdded(h) PROVE GhostInv'
    BY <1>3, <1>1 DEF BotAdded
<1>4. ASSUME SendPrompt(h) PROVE GhostInv'
    BY <1>4, <1>1 DEF SendPrompt
<1>5. ASSUME StorePending(h) PROVE GhostInv'
    BY <1>5, <1>1 DEF StorePending
<1>6. ASSUME JoinPerms(h) PROVE GhostInv'
    BY <1>6, <1>1 DEF JoinPerms
<1>7. ASSUME JoinKnown(h) PROVE GhostInv'
    BY <1>7, <1>1 DEF JoinKnown
<1>8. ASSUME JoinCancel(h) PROVE GhostInv'
    BY <1>8, <1>1 DEF JoinCancel
<1>9. ASSUME ConnectGather(h) PROVE GhostInv'
    BY <1>9, <1>1 DEF ConnectGather
<1>10. ASSUME JoinUnpend(h) PROVE GhostInv'
    BY <1>10, <1>1 DEF JoinUnpend
<1>11. ASSUME JoinConfirm(h) PROVE GhostInv'
    BY <1>11, <1>1 DEF JoinConfirm
<1>12. ASSUME DisconnectCheck(h) PROVE GhostInv'
    BY <1>12, <1>1 DEF DisconnectCheck
<1>13. ASSUME Deactivate(h) PROVE GhostInv'
    <2>1. row'[Live] = "active" => row[Live] = "active"
        BY <1>13, LiveIsAChat DEF Deactivate, deactivate_group
    <2> QED BY <1>13, <1>1, <2>1 DEF Deactivate
<1>14. ASSUME LeaveAll(h) PROVE GhostInv'
    BY <1>14, <1>1 DEF LeaveAll
<1>15. ASSUME LeaveAllEnd(h) PROVE GhostInv'
    BY <1>15, <1>1 DEF LeaveAllEnd
<1>16. ASSUME CleanupProbe(h) PROVE GhostInv'
    BY <1>16, <1>1 DEF CleanupProbe
<1>17. ASSUME CleanupEnd(h) PROVE GhostInv'
    BY <1>17, <1>1 DEF CleanupEnd
<1>18. ASSUME MigrateDrop(h) PROVE GhostInv'
    <2>1. row'[Live] = "active" => row[Live] = "active"
        BY <1>18, LiveIsAChat DEF MigrateDrop
    <2> QED BY <1>18, <1>1, <2>1 DEF MigrateDrop
<1>19. ASSUME MigratePending(h) PROVE GhostInv'
    BY <1>19, <1>1 DEF MigratePending
<1>20. ASSUME JoinAddGroup(h) PROVE GhostInv'
    <2>1. row'[Live] = "active" => row[Live] = "active" \/ chat[h] = Live
        BY <1>20, LiveIsAChat DEF JoinAddGroup, add_group
    <2> QED BY <1>1, <1>20, <2>1 DEF JoinAddGroup
<1>21. ASSUME MigrateRow(h) PROVE GhostInv'
    <2>1. pc[h] = "move" /\ chat[h] = New /\ UNCHANGED <<bot, updates, missed>> /\ pc'[h] \notin Connecting
        BY <1>21 DEF MigrateRow, AtNew
    <2>2. row'[Live] = "active" => row[Live] = "active" \/ Live = New
        BY <1>21, LiveIsAChat DEF MigrateRow
    <2> QED BY <1>1, <2>1, <2>2
<1>22. ASSUME NEW c \in todo[h], RemovedCall(h, c) PROVE GhostInv'
    <2>1. /\ UNCHANGED <<bot, moved, updates, overlap, pc, chat>>
          /\ todo' = [todo EXCEPT ![h] = @ \ {c}]
        BY <1>22 DEF RemovedCall
    <2>2. missed' = missed \/ missed' = (missed \/ c[1] # "check")
        BY <1>22 DEF RemovedCall
    <2>3. missed => missed'
        BY <2>2, Zenon
    <2>4. row'[Live] = "active" => row[Live] = "active"
        BY <1>22, LiveIsAChat DEF RemovedCall, deactivate_group, is_connected
    <2>5. CASE c = <<"deactivate", Live>>
        <3>1. missed' \/ row'[Live] # "active"
            <4>1. CASE missed' = (missed \/ c[1] # "check")
                BY <2>5, <4>1, Zenon
            <4>2. CASE deactivate_group(c[2])
                BY <2>5, <4>2, LiveIsAChat DEF deactivate_group
            <4> QED BY <1>22, <2>5, <4>1, <4>2 DEF RemovedCall
        <3>2. CASE missed'
            BY <3>2 DEF GhostInv
        <3>3. CASE row'[Live] # "active"
            BY <2>1, <2>3, <3>3, GhostStays
        <3> QED BY <3>1, <3>2, <3>3
    <2>6. CASE c # <<"deactivate", Live>>
        <3>1. \A g \in Handlers : Doing(g, "deactivate") => Doing(g, "deactivate")'
            BY <2>1, <2>6 DEF Doing, Live
        <3> QED BY <2>1, <2>3, <2>4, <3>1, GhostStays
    <2> QED BY <2>5, <2>6
<1>23. ASSUME RemovedEnd(h) PROVE GhostInv'
    <2>1. \A g \in Handlers : Doing(g, "deactivate") => Doing(g, "deactivate")'
        BY <1>23 DEF RemovedEnd, Doing, Live
    <2>2. \A g \in Handlers : pc'[g] \in Connecting => pc[g] \in Connecting
        BY <1>23 DEF RemovedEnd
    <2> HIDE DEF Connecting
    <2> QED BY <1>23, <2>1, <2>2, GhostStays DEF RemovedEnd
<1>24. ASSUME Leave(h) PROVE GhostInv'
    <2>1. CASE StaysAs
        BY <1>1, <1>24, <2>1 DEF Leave, StaysAs
    <2>2. CASE Becomes("out")
        BY <1>24, <2>2, OutIsLast DEF Leave
    <2> QED BY <1>24, <2>1, <2>2 DEF Leave, leave_chat
<1>25. ASSUME NEW c \in todo[h], LeaveOne(h, c) PROVE GhostInv'
    <2>1. CASE StaysAs
        <3>1. row'[Live] = "active" => row[Live] = "active"
            BY <1>25, LiveIsAChat DEF LeaveOne, deactivate_group
        <3> QED BY <1>1, <1>25, <2>1, <3>1 DEF LeaveOne, StaysAs
    <2>2. CASE Becomes("out")
        BY <1>25, <2>2, OutIsLast DEF LeaveOne
    <2> QED BY <1>25, <2>1, <2>2 DEF LeaveOne, leave_chat
<1> QED BY <1>2, <1>3, <1>4, <1>5, <1>6, <1>7, <1>8, <1>9, <1>10, <1>11, <1>12, <1>13, <1>14,
           <1>15, <1>16, <1>17, <1>18, <1>19, <1>20, <1>21, <1>22, <1>23, <1>24, <1>25 DEF Step

\* The next update is taken while nothing runs: a removal becomes the handler that
\* carries it out, anything else of the group has its removal behind it.
LEMMA GhostTake ==
    ASSUME Shape, GhostInv, updates # << >>, updates' = Tail(updates), NEW h \in Handlers,
           NEW l \in Points, pc'[h] = l, chat'[h] = updates[1].chat,
           \A g \in Handlers : g # h => pc'[g] = pc[g],
           Busy = {}, UNCHANGED <<row, bot, moved>>, ~overlap, ~missed,
           updates[1].is = "out" => Doing(h, "deactivate")' \/ updates[1].chat # Live,
           l \in Connecting => updates[1].is # "out"
    PROVE  GhostInv'
<1>1. Live' = Live /\ \A g \in Handlers : pc[g] \in {"idle", "done"}
    BY DEF Live, Busy
<1> SUFFICES ASSUME bot = "out" PROVE GhostInv'
    BY DEF GhostInv
<1>2. /\ Len(updates) \in Nat \ {0} /\ Len(updates') = Len(updates) - 1
      /\ \A i \in 1..Len(updates') : i + 1 \in 1..Len(updates) /\ updates'[i] = updates[i + 1]
    BY QueueTaken
<1>3. ASSUME updates[1].chat = Live, updates[1].is # "out" PROVE Removal(Live)'
    <2>1. PICK j \in 2..Len(updates) : updates[j].chat = Live /\ updates[j].is = "out"
        BY <1>2, <1>3 DEF GhostInv
    <2>2. j - 1 \in 1..Len(updates') /\ updates'[j - 1] = updates[j]
        BY <1>2
    <2> QED BY <1>1, <2>1, <2>2 DEF Removal
<1>4. ASSUME NEW g \in Handlers, pc'[g] \in Connecting, chat'[g] = Live PROVE Removal(Live)'
    <2>1. g = h
        BY <1>1, <1>4 DEF Connecting
    <2> QED BY <1>3, <1>4, <2>1
<1>5. ASSUME row[Live] = "active" PROVE Removal(Live)' \/ Doing(h, "deactivate")'
    <2>1. Removal(Live)
        BY <1>1, <1>5 DEF GhostInv, Doing
    <2>2. CASE updates[1].chat = Live /\ updates[1].is = "out"
        BY <2>2
    <2>3. CASE ~(updates[1].chat = Live /\ updates[1].is = "out")
        BY <1>1, <2>1, <2>3, RemovalStays
    <2> QED BY <2>2, <2>3
<1>6. ASSUME NEW i \in 1..Len(updates'), updates'[i].chat = Live, updates'[i].is # "out"
      PROVE  \E j \in (i + 1)..Len(updates') : updates'[j].chat = Live /\ updates'[j].is = "out"
    <2>1. i + 1 \in 1..Len(updates) /\ updates'[i] = updates[i + 1]
        BY <1>2
    <2>2. PICK j \in (i + 2)..Len(updates) : updates[j].chat = Live /\ updates[j].is = "out"
        BY <1>2, <1>6, <2>1 DEF GhostInv
    <2>3. j - 1 \in (i + 1)..Len(updates') /\ updates'[j - 1] = updates[j]
        BY <1>2, <2>2
    <2> QED BY <2>2, <2>3
<1>7. bot' = "out"
    OBVIOUS
<1> QED BY <1>1, <1>4, <1>5, <1>6 DEF GhostInv

\* Every step keeps GhostInv.
LEMMA GhostNext == Shape /\ AtNew /\ GhostInv /\ [Next]_vars => GhostInv'
<1> SUFFICES ASSUME Shape, AtNew, GhostInv, [Next]_vars PROVE GhostInv'
    OBVIOUS
<1> USE DEF stores, telegram, control, calls, history
<1>1. CASE UNCHANGED vars
    BY <1>1, GhostStays DEF vars, Doing, Live
<1>2. CASE Migrate
    BY <1>2 DEF Migrate, GhostInv
<1>3. ASSUME NEW s \in {"out", "member", "admin"}, Move(s) PROVE GhostInv'
    <2>1. Becomes(s) /\ moved' = moved /\ bot' = s
        BY <1>3 DEF Move, Becomes
    <2> QED BY <2>1, OutIsLast DEF GhostInv
<1>4. ASSUME NEW h \in Handlers, Commanded(h) PROVE GhostInv'
    <2>1. /\ UNCHANGED <<updates, todo, bot, moved, row, missed>> /\ overlap' = (overlap \/ Busy # {})
          /\ \A g \in Handlers : g # h => pc'[g] = pc[g] /\ chat'[g] = chat[g]
          /\ pc[h] = "idle" /\ (bot = "out" => pc'[h] \in {"rm", "all", "probe"})
        BY <1>4, CommandStarts, Started
    <2>2. \A g \in Handlers : Doing(g, "deactivate") => Doing(g, "deactivate")'
        BY <2>1 DEF Doing, Live
    <2>3. overlap => overlap'
        BY <2>1, Zenon
    <2>4. bot = "out" => \A g \in Handlers : pc'[g] \in Connecting => pc[g] \in Connecting /\ chat'[g] = chat[g]
        BY <2>1 DEF Connecting
    <2> QED BY <2>1, <2>2, <2>3, <2>4, GhostStays
<1>5. ASSUME NEW h \in Handlers, on_bot_added(h) PROVE GhostInv'
    <2>1. PICK l \in {"removed", "done", "added", "ask"} :
            /\ Start(h, "update", updates[1].chat, l)
            /\ updates[1].is = "out" <=> l = "removed"
        BY <1>5, UpdateStarts
    <2>2. updates[1].chat \in Chats /\ l \in Points
        BY <1>5, UpdateStarts DEF Update, Points
    <2>3. /\ UNCHANGED <<bot, moved, row, missed>> /\ overlap' = (overlap \/ Busy # {})
          /\ \A g \in Handlers : g # h => pc'[g] = pc[g]
          /\ pc'[h] = l /\ chat'[h] = updates[1].chat
        BY <2>1, <2>2, Started
    <2>4. CASE overlap' \/ missed'
        BY <2>4 DEF GhostInv
    <2>5. CASE ~overlap' /\ ~missed'
        <3>1. ~overlap /\ Busy = {}
            BY <2>3, <2>5, Zenon
        <3>2. updates[1].is = "out" => Doing(h, "deactivate")' \/ updates[1].chat # Live
            BY <1>5, <2>1, <2>3, UpdateStarts DEF Doing, Live
        <3>3. l \in Connecting => updates[1].is # "out"
            BY <2>1 DEF Connecting
        <3>4. updates # << >> /\ updates' = Tail(updates)
            BY <1>5, UpdateStarts
        <3> QED BY <2>2, <2>3, <2>5, <3>1, <3>2, <3>3, <3>4, GhostTake
    <2> QED BY <2>4, <2>5
<1>6. ASSUME NEW h \in Handlers, on_chat_migration(h) PROVE GhostInv'
    <2>1. /\ Start(h, "migrate", New, "move") /\ updates # << >> /\ updates' = Tail(updates)
          /\ updates[1].is = "moved"
        BY <1>6, MigrationStarts
    <2>2. New \in Chats /\ "move" \in Points
        BY DEF Chats, Points
    <2>3. /\ UNCHANGED <<bot, moved, row, missed>> /\ overlap' = (overlap \/ Busy # {})
          /\ \A g \in Handlers : g # h => pc'[g] = pc[g]
          /\ pc'[h] = "move" /\ chat'[h] = New
        BY <2>1, <2>2, Started
    <2>4. CASE overlap' \/ missed'
        BY <2>4 DEF GhostInv
    <2>5. CASE ~overlap' /\ ~missed'
        <3>1. ~overlap /\ Busy = {}
            BY <2>3, <2>5, Zenon
        <3>2. updates[1].chat = New
            BY <2>1, Takes DEF AtNew, Shape
        <3> QED BY <2>1, <2>2, <2>3, <2>5, <3>1, <3>2, GhostTake
    <2> QED BY <2>4, <2>5
<1>7. ASSUME NEW h \in Handlers, Step(h) PROVE GhostInv'
    BY <1>7, GhostStep
<1> QED BY <1>1, <1>2, <1>3, <1>4, <1>5, <1>6, <1>7 DEF Next, Commanded, Terminated

\* For any operations and failures, one handler after the other: an active record
\* of a group that the bot is not in survives only a removal that failed to write
\* (cmd_tcdisconnect, cmd_rmtc, _leave_one, on_bot_added, migrate_group).
THEOREM NoGhostIsLeft == Spec => []NoGhost
<1>1. Init => AtNew
    BY DEF Init, AtNew
<1>2. Init => GhostInv
    BY DEF Init, GhostInv, Live, Connecting
<1>3. Shape /\ GhostInv => NoGhost
    BY DEF Shape, GhostInv, NoGhost, Quiet, Busy, Removal, Doing
<1> QED BY ShapeInit, ShapeNext, AtNewNext, GhostNext, <1>1, <1>2, <1>3, PTL DEF Spec

(***************************************************************************)
(* The cache is not poisoned                                                *)
(***************************************************************************)
\* A handler that steps has been started and is not over.
LEMMA Running ==
    ASSUME Shape, NEW h \in Handlers, Step(h)
    PROVE  pc[h] \notin {"idle", "done"} /\ pc'[h] # "idle"
<1> USE DEF Shape, Goto, End
<1>1. ASSUME NEW c \in todo[h], RemovedCall(h, c) PROVE pc[h] \notin {"idle", "done"} /\ pc'[h] # "idle"
    BY <1>1 DEF RemovedCall
<1>2. ASSUME NEW c \in todo[h], LeaveOne(h, c) PROVE pc[h] \notin {"idle", "done"} /\ pc'[h] # "idle"
    BY <1>2 DEF LeaveOne
<1>3. ASSUME NEW c \in todo[h], CleanupDeactivate(h, c) PROVE pc[h] \notin {"idle", "done"} /\ pc'[h] # "idle"
    BY <1>3 DEF CleanupDeactivate
<1>4. ASSUME RemovedEnd(h) PROVE pc[h] \notin {"idle", "done"} /\ pc'[h] # "idle"
    BY <1>4 DEF RemovedEnd
<1>5. ASSUME BotAdded(h) PROVE pc[h] \notin {"idle", "done"} /\ pc'[h] # "idle"
    BY <1>5 DEF BotAdded
<1>6. ASSUME SendPrompt(h) PROVE pc[h] \notin {"idle", "done"} /\ pc'[h] # "idle"
    BY <1>6 DEF SendPrompt
<1>7. ASSUME StorePending(h) PROVE pc[h] \notin {"idle", "done"} /\ pc'[h] # "idle"
    BY <1>7 DEF StorePending
<1>8. ASSUME JoinPerms(h) PROVE pc[h] \notin {"idle", "done"} /\ pc'[h] # "idle"
    BY <1>8 DEF JoinPerms
<1>9. ASSUME JoinKnown(h) PROVE pc[h] \notin {"idle", "done"} /\ pc'[h] # "idle"
    BY <1>9 DEF JoinKnown
<1>10. ASSUME JoinCancel(h) PROVE pc[h] \notin {"idle", "done"} /\ pc'[h] # "idle"
    BY <1>10 DEF JoinCancel
<1>11. ASSUME ConnectGather(h) PROVE pc[h] \notin {"idle", "done"} /\ pc'[h] # "idle"
    BY <1>11 DEF ConnectGather
<1>12. ASSUME JoinAddGroup(h) PROVE pc[h] \notin {"idle", "done"} /\ pc'[h] # "idle"
    BY <1>12 DEF JoinAddGroup
<1>13. ASSUME JoinUnpend(h) PROVE pc[h] \notin {"idle", "done"} /\ pc'[h] # "idle"
    BY <1>13 DEF JoinUnpend
<1>14. ASSUME JoinConfirm(h) PROVE pc[h] \notin {"idle", "done"} /\ pc'[h] # "idle"
    BY <1>14 DEF JoinConfirm
<1>15. ASSUME DisconnectCheck(h) PROVE pc[h] \notin {"idle", "done"} /\ pc'[h] # "idle"
    BY <1>15 DEF DisconnectCheck
<1>16. ASSUME Deactivate(h) PROVE pc[h] \notin {"idle", "done"} /\ pc'[h] # "idle"
    BY <1>16 DEF Deactivate
<1>17. ASSUME Leave(h) PROVE pc[h] \notin {"idle", "done"} /\ pc'[h] # "idle"
    BY <1>17 DEF Leave
<1>18. ASSUME LeaveAll(h) PROVE pc[h] \notin {"idle", "done"} /\ pc'[h] # "idle"
    BY <1>18 DEF LeaveAll
<1>19. ASSUME LeaveAllEnd(h) PROVE pc[h] \notin {"idle", "done"} /\ pc'[h] # "idle"
    BY <1>19 DEF LeaveAllEnd
<1>20. ASSUME CleanupProbe(h) PROVE pc[h] \notin {"idle", "done"} /\ pc'[h] # "idle"
    BY <1>20 DEF CleanupProbe
<1>21. ASSUME CleanupEnd(h) PROVE pc[h] \notin {"idle", "done"} /\ pc'[h] # "idle"
    BY <1>21 DEF CleanupEnd
<1>22. ASSUME MigrateRow(h) PROVE pc[h] \notin {"idle", "done"} /\ pc'[h] # "idle"
    BY <1>22 DEF MigrateRow
<1>23. ASSUME MigrateDrop(h) PROVE pc[h] \notin {"idle", "done"} /\ pc'[h] # "idle"
    BY <1>23 DEF MigrateDrop
<1>24. ASSUME MigratePending(h) PROVE pc[h] \notin {"idle", "done"} /\ pc'[h] # "idle"
    BY <1>24 DEF MigratePending
<1> QED BY <1>1, <1>2, <1>3, <1>4, <1>5, <1>6, <1>7, <1>8, <1>9, <1>10, <1>11, <1>12, <1>13,
           <1>14, <1>15, <1>16, <1>17, <1>18, <1>19, <1>20, <1>21, <1>22, <1>23, <1>24 DEF Step

\* Handlers that have not overlapped are one at a time.
Serial == overlap \/ \A g, h \in Busy : g = h

\* A handler that starts beside another one overlaps it.
LEMMA SerialStart ==
    ASSUME NEW h \in Handlers, \A g \in Handlers : g # h => pc'[g] = pc[g],
           overlap' = (overlap \/ Busy # {})
    PROVE  Serial'
<1>1. CASE overlap'
    BY <1>1 DEF Serial
<1>2. CASE ~overlap'
    <2>1. Busy = {}
        BY <1>2, Zenon
    <2>2. \A g \in Busy' : g = h
        BY <2>1 DEF Busy
    <2> QED BY <2>2 DEF Serial
<1> QED BY <1>1, <1>2

\* Every step keeps Serial.
LEMMA SerialNext == Shape /\ Serial /\ [Next]_vars => Serial'
<1> SUFFICES ASSUME Shape, Serial, [Next]_vars PROVE Serial'
    OBVIOUS
<1> USE DEF stores, telegram, control, calls, history
<1>1. CASE UNCHANGED <<pc, overlap>>
    BY <1>1 DEF Serial, Busy
<1>2. CASE UNCHANGED vars \/ Migrate \/ Terminated
    BY <1>1, <1>2 DEF vars, Migrate, Terminated
<1>3. ASSUME NEW s \in {"out", "member", "admin"}, Move(s) PROVE Serial'
    BY <1>1, <1>3 DEF Move
<1>4. ASSUME NEW h \in Handlers, Commanded(h) PROVE Serial'
    BY <1>4, CommandStarts, Started, SerialStart
<1>5. ASSUME NEW h \in Handlers, on_bot_added(h) PROVE Serial'
    BY <1>5, UpdateStarts, Started, SerialStart DEF Update, Points
<1>6. ASSUME NEW h \in Handlers, on_chat_migration(h) PROVE Serial'
    BY <1>6, MigrationStarts, Started, SerialStart DEF Chats, Points
<1>7. ASSUME NEW h \in Handlers, Step(h) PROVE Serial'
    <2>1. overlap' = overlap /\ \A g \in Handlers : g \in Busy' => g \in Busy
        BY <1>7, OthersRest, Running DEF Rests, Busy
    <2> QED BY <2>1 DEF Serial, Busy
<1> QED BY <1>2, <1>3, <1>4, <1>5, <1>6, <1>7 DEF Next, Commanded

\* The cache says connected only of active rows, the supergroup excepted that a
\* migration left an inactive one.
Agrees == \A c \in Chats : conn[c] = "yes" => row[c] = "active" \/ (stale /\ c = New)

\* The migration that has moved the row has yet to tell the cache.
Moved(h) == pc[h] = "move_pending" /\ bad[h] = {}

\* What a migration knows of the rows, and the one moment at which the cache is
\* behind.
CacheInv ==
    /\ \A h \in Handlers : pc[h] \in {"idle", "move"} => bad[h] = {}
    /\ ~overlap =>
        /\ \A h \in Handlers : pc[h] = "drop" => bad[h] = {} /\ (row[New] = "active" \/ stale)
        /\ \A h \in Handlers : Moved(h) => row[New] = "active" \/ stale
        /\ conn[New] = "yes" => row[New] = "active" \/ stale
        /\ conn[Old] = "yes" => row[Old] = "active" \/ \E h \in Handlers : Moved(h)

\* The ways in which row and cache of one chat are touched outside a migration.
Touches(c) ==
    \/ (\E k \in BOOLEAN : is_connected(c, k)) /\ row' = row
    \/ add_group(c) \/ deactivate_group(c) \/ UNCHANGED <<row, conn>>

\* All of them write the row before the cache, so they agree as before.
LEMMA TouchAgrees ==
    ASSUME Shape, Agrees, NEW c, Touches(c), stale' = stale
    PROVE  Agrees'
<1> USE DEF Shape, Agrees
<1>1. ASSUME NEW k \in BOOLEAN, is_connected(c, k), row' = row PROVE Agrees'
    BY <1>1 DEF is_connected
<1>2. CASE add_group(c)
    BY <1>2 DEF add_group
<1>3. CASE deactivate_group(c)
    BY <1>3 DEF deactivate_group
<1>4. CASE UNCHANGED <<row, conn>>
    BY <1>4
<1> QED BY <1>1, <1>2, <1>3, <1>4 DEF Touches

\* One handler at a time: while none of them migrates, cache and rows agree.
LEMMA AgreesNow ==
    ASSUME Shape, Serial, CacheInv, ~overlap, NEW h \in Busy, ~Moved(h)
    PROVE  Agrees
<1>1. \A g \in Handlers : ~Moved(g)
    BY DEF Serial, Busy, Moved
<1> QED BY <1>1 DEF CacheInv, Agrees, Chats

\* One step of a handler keeps CacheInv.
LEMMA CacheStep ==
    ASSUME Shape, Serial, CacheInv, NEW h \in Handlers, Step(h)
    PROVE  CacheInv'
<1> USE DEF stores, telegram, control, calls, history, Goto, End, Shape
<1>0. /\ h \in Busy /\ overlap' = overlap /\ pc'[h] # "idle" /\ pc'[h] # "move"
      /\ \A g \in Handlers : g # h => pc'[g] = pc[g] /\ bad'[g] = bad[g]
      /\ ~overlap => \A g \in Handlers : g # h => pc[g] \in {"idle", "done"}
    BY OthersRest, Running, MoveIsFirst DEF Rests, Busy, Serial
<1>1. ASSUME NEW c, Touches(c), pc[h] # "move_pending", pc'[h] \notin {"drop", "move_pending"}, stale' = stale
      PROVE  CacheInv'
    <2>1. ~overlap => Agrees'
        BY <1>0, <1>1, AgreesNow, TouchAgrees DEF Moved
    <2> QED BY <1>0, <1>1, <2>1, ChatAssumption DEF CacheInv, Agrees, Moved, Chats
<1>2. ASSUME UNCHANGED <<row, conn, stale>>, pc[h] # "move_pending", pc'[h] \notin {"drop", "move_pending"}
      PROVE  CacheInv'
    BY <1>1, <1>2 DEF Touches
<1>3. ASSUME NEW c \in todo[h], RemovedCall(h, c) PROVE CacheInv'
    <2>1. Touches(c[2])
        BY <1>3 DEF RemovedCall, Touches
    <2> QED BY <1>3, <2>1, <1>1 DEF RemovedCall
<1>4. ASSUME NEW c \in todo[h], LeaveOne(h, c) PROVE CacheInv'
    <2>1. Touches(c[2])
        BY <1>4 DEF LeaveOne, Touches
    <2> QED BY <1>4, <2>1, <1>1 DEF LeaveOne
<1>5. ASSUME NEW c \in todo[h], CleanupDeactivate(h, c) PROVE CacheInv'
    <2>1. Touches(c[2])
        BY <1>5 DEF CleanupDeactivate, Touches
    <2> QED BY <1>5, <2>1, <1>1 DEF CleanupDeactivate
<1>6. ASSUME RemovedEnd(h) PROVE CacheInv'
    BY <1>6, <1>2 DEF RemovedEnd
<1>7. ASSUME BotAdded(h) PROVE CacheInv'
    <2>1. Touches(chat[h])
        BY <1>7 DEF BotAdded, Touches
    <2> QED BY <1>7, <2>1, <1>1 DEF BotAdded
<1>8. ASSUME SendPrompt(h) PROVE CacheInv'
    BY <1>8, <1>2 DEF SendPrompt
<1>9. ASSUME StorePending(h) PROVE CacheInv'
    BY <1>9, <1>2 DEF StorePending
<1>10. ASSUME JoinPerms(h) PROVE CacheInv'
    BY <1>10, <1>2 DEF JoinPerms
<1>11. ASSUME JoinKnown(h) PROVE CacheInv'
    <2>1. Touches(chat[h])
        BY <1>11 DEF JoinKnown, Touches
    <2> QED BY <1>11, <2>1, <1>1 DEF JoinKnown
<1>12. ASSUME JoinCancel(h) PROVE CacheInv'
    BY <1>12, <1>2 DEF JoinCancel
<1>13. ASSUME ConnectGather(h) PROVE CacheInv'
    <2>1. Touches(chat[h])
        BY <1>13 DEF ConnectGather, Touches
    <2> QED BY <1>13, <2>1, <1>1 DEF ConnectGather
<1>14. ASSUME JoinAddGroup(h) PROVE CacheInv'
    <2>1. Touches(chat[h])
        BY <1>14 DEF JoinAddGroup, Touches
    <2> QED BY <1>14, <2>1, <1>1 DEF JoinAddGroup
<1>15. ASSUME JoinUnpend(h) PROVE CacheInv'
    BY <1>15, <1>2 DEF JoinUnpend
<1>16. ASSUME JoinConfirm(h) PROVE CacheInv'
    BY <1>16, <1>2 DEF JoinConfirm
<1>17. ASSUME DisconnectCheck(h) PROVE CacheInv'
    <2>1. Touches(chat[h])
        BY <1>17 DEF DisconnectCheck, Touches
    <2> QED BY <1>17, <2>1, <1>1 DEF DisconnectCheck
<1>18. ASSUME Deactivate(h) PROVE CacheInv'
    <2>1. Touches(chat[h])
        BY <1>18 DEF Deactivate, Touches
    <2> QED BY <1>18, <2>1, <1>1 DEF Deactivate
<1>19. ASSUME Leave(h) PROVE CacheInv'
    BY <1>19, <1>2 DEF Leave
<1>20. ASSUME LeaveAll(h) PROVE CacheInv'
    BY <1>20, <1>2 DEF LeaveAll
<1>21. ASSUME LeaveAllEnd(h) PROVE CacheInv'
    BY <1>21, <1>2 DEF LeaveAllEnd
<1>22. ASSUME CleanupProbe(h) PROVE CacheInv'
    BY <1>22, <1>2 DEF CleanupProbe
<1>23. ASSUME CleanupEnd(h) PROVE CacheInv'
    BY <1>23, <1>2 DEF CleanupEnd
<1>24. ASSUME MigrateRow(h) PROVE CacheInv'
    <2>1. pc[h] = "move" /\ bad[h] = {} /\ conn' = conn
        BY <1>24 DEF MigrateRow, CacheInv
    <2>2. CASE pc'[h] # "done"
        <3>1. stale' = (stale \/ (row[Old] # "none" /\ "inactive" = IF row[New] = "none" THEN row[Old] ELSE row[New]))
            BY <1>24, <2>2 DEF MigrateRow
        <3>2. (stale => stale') /\ (~overlap => Agrees)
            BY <1>0, <2>1, <3>1, AgreesNow DEF Moved
        <3>3. CASE row[Old] # "none" /\ row[New] # "none"
            <4>1. row' = row /\ pc'[h] = "drop" /\ bad'[h] = {}
                BY <1>24, <2>1, <2>2, <3>3 DEF MigrateRow
            <4>2. row[New] = "active" \/ stale'
                BY <3>1, <3>3 DEF Chats
            <4> QED BY <1>0, <2>1, <3>2, <4>1, <4>2, ChatAssumption DEF CacheInv, Agrees, Moved, Chats
        <3>4. CASE row[Old] # "none" /\ row[New] = "none"
            <4>1. row'[New] = row[Old] /\ Moved(h)'
                BY <1>24, <2>1, <2>2, <3>4, ChatAssumption DEF MigrateRow, Chats, Moved
            <4>2. row'[New] = "active" \/ stale'
                BY <3>1, <3>4, <4>1 DEF Chats
            <4> QED BY <1>0, <2>1, <4>1, <4>2 DEF CacheInv, Moved
        <3>5. CASE row[Old] = "none"
            <4>1. row' = row /\ pc'[h] = "move_pending"
                BY <1>24, <2>1, <2>2, <3>5 DEF MigrateRow
            <4>2. bad' = [bad EXCEPT ![h] = {<<"row", Old>>}]
                BY <1>24, <2>2, <3>5 DEF MigrateRow
            <4>3. <<"row", Old>> \in bad'[h]
                BY <4>2
            <4>4. bad'[h] # {}
                BY <4>3
            <4> QED BY <1>0, <2>1, <3>2, <4>1, <4>4, ChatAssumption DEF CacheInv, Agrees, Moved, Chats
        <3> QED BY <3>3, <3>4, <3>5
    <2>3. CASE pc'[h] = "done"
        <3>1. UNCHANGED <<row, stale>>
            BY <1>24, <2>3 DEF MigrateRow
        <3> QED BY <1>2, <2>1, <2>3, <3>1
    <2> QED BY <2>2, <2>3
<1>25. ASSUME MigrateDrop(h) PROVE CacheInv'
    <2>1. pc[h] = "drop" /\ UNCHANGED <<conn, bad, stale>>
        BY <1>25 DEF MigrateDrop
    <2>2. CASE pc'[h] = "move_pending" /\ row' = [row EXCEPT ![Old] = "none"]
        <3>1. ~overlap => (row'[New] = "active" \/ stale') /\ Moved(h)'
            BY <2>1, <2>2, ChatAssumption DEF CacheInv, Moved, Chats
        <3> QED BY <1>0, <2>1, <2>2, <3>1 DEF CacheInv, Moved
    <2>3. CASE pc'[h] = "done" /\ row' = row
        BY <1>2, <2>1, <2>3
    <2> QED BY <1>25, <2>2, <2>3 DEF MigrateDrop
<1>26. ASSUME MigratePending(h) PROVE CacheInv'
    <2>1. pc[h] = "move_pending" /\ UNCHANGED <<row, bad, stale>> /\ pc'[h] = "done"
        BY <1>26 DEF MigratePending
    <2>2. CASE bad[h] = {}
        <3>1. conn' = [conn EXCEPT ![Old] = "no", ![New] = "yes"]
            BY <1>26, <2>2 DEF MigratePending
        <3>2. conn'[Old] = "no"
            BY <3>1, ChatAssumption DEF Chats
        <3>3. ~overlap => row[New] = "active" \/ stale
            BY <2>1, <2>2 DEF CacheInv, Moved
        <3> QED BY <1>0, <2>1, <3>2, <3>3 DEF CacheInv, Moved
    <2>3. CASE bad[h] # {}
        <3>1. conn' = conn \/ conn' = [conn EXCEPT ![Old] = "no"]
            BY <1>26, <2>3 DEF MigratePending
        <3>2. \A c \in Chats : conn'[c] = "yes" => conn[c] = "yes"
            BY <3>1 DEF Chats
        <3>3. ~overlap => Agrees
            BY <1>0, <2>3, AgreesNow DEF Moved
        <3> QED BY <1>0, <2>1, <3>2, <3>3, ChatAssumption DEF CacheInv, Agrees, Moved, Chats
    <2> QED BY <2>2, <2>3
<1> QED BY <1>3, <1>4, <1>5, <1>6, <1>7, <1>8, <1>9, <1>10, <1>11, <1>12, <1>13, <1>14, <1>15,
           <1>16, <1>17, <1>18, <1>19, <1>20, <1>21, <1>22, <1>23, <1>24, <1>25, <1>26 DEF Step

\* Starting a handler keeps CacheInv: an idle handler owes the cache nothing.
LEMMA CacheStart ==
    ASSUME CacheInv, NEW h \in Handlers, pc[h] = "idle", UNCHANGED <<row, conn, bad, stale>>,
           pc'[h] \notin {"drop", "move_pending"}, overlap' = (overlap \/ Busy # {}),
           \A g \in Handlers : g # h => pc'[g] = pc[g]
    PROVE  CacheInv'
<1>1. \A g \in Handlers : Moved(g) => Moved(g)'
    BY DEF Moved
<1>2. \A g \in Handlers : Moved(g)' => Moved(g)
    BY DEF Moved
<1>3. \A g \in Handlers : pc'[g] \in {"idle", "move"} => bad'[g] = {}
    BY DEF CacheInv
<1>4. ~overlap' => ~overlap
    OBVIOUS
<1> QED BY <1>1, <1>2, <1>3, <1>4 DEF CacheInv

\* Every step keeps CacheInv.
LEMMA CacheNext == Shape /\ Serial /\ CacheInv /\ [Next]_vars => CacheInv'
<1> SUFFICES ASSUME Shape, Serial, CacheInv, [Next]_vars PROVE CacheInv'
    OBVIOUS
<1> USE DEF stores, telegram, control, calls, history
<1>1. CASE UNCHANGED <<row, conn, pc, bad, overlap, stale>>
    BY <1>1 DEF CacheInv, Moved
<1>2. CASE UNCHANGED vars \/ Migrate \/ Terminated
    BY <1>1, <1>2 DEF vars, Migrate, Terminated
<1>3. ASSUME NEW s \in {"out", "member", "admin"}, Move(s) PROVE CacheInv'
    BY <1>1, <1>3 DEF Move
<1>4. ASSUME NEW h \in Handlers, Commanded(h) PROVE CacheInv'
    BY <1>4, CommandStarts, Started, CacheStart
<1>5. ASSUME NEW h \in Handlers, on_bot_added(h) PROVE CacheInv'
    BY <1>5, UpdateStarts, Started, CacheStart DEF Update, Points
<1>6. ASSUME NEW h \in Handlers, on_chat_migration(h) PROVE CacheInv'
    BY <1>6, MigrationStarts, Started, CacheStart DEF Chats, Points
<1>7. ASSUME NEW h \in Handlers, Step(h) PROVE CacheInv'
    BY <1>7, CacheStep
<1> QED BY <1>2, <1>3, <1>4, <1>5, <1>6, <1>7 DEF Next, Commanded

\* For any operations and failures, one handler after the other: the cache calls a
\* group connected only while its row is active.  The one exception is the
\* supergroup of a migration that left it an inactive row, which migrate_group
\* marks as connected; the old chat's entry is right even then (is_connected,
\* add_group, deactivate_group, migrate_group).
THEOREM CacheIsNotPoisoned == Spec => []CacheNotPoisoned
<1>1. Init => Serial
    BY DEF Init, Serial, Busy
<1>2. Init => CacheInv
    BY DEF Init, CacheInv, Moved, Chats
<1>3. CacheInv => CacheNotPoisoned
    BY DEF CacheInv, CacheNotPoisoned, Busy, Moved, Chats
<1> QED BY ShapeInit, ShapeNext, SerialNext, CacheNext, <1>1, <1>2, <1>3, PTL DEF Spec

(***************************************************************************)
(* A confirmed group is connected                                           *)
(***************************************************************************)
\* How one step of a handler moves its control point.
Walks(h) ==
    /\ pc[h] = "removed" => pc'[h] = "removed" \/ outcome'[h] = "left"
    /\ pc'[h] # "done" => outcome'[h] = outcome[h]
    /\ pc'[h] \notin {"check", "rm", "all", "probe"}
    /\ pc'[h] = "deactivate" => pc[h] = "check"
    /\ pc'[h] = "leaving" => pc[h] \in {"all", "leaving"}
    /\ pc'[h] = "pruning" => pc[h] \in {"probe", "pruning"}
    /\ pc'[h] = "drop" => pc[h] = "move"

\* Every step of a handler walks.
LEMMA StepWalks ==
    ASSUME Shape, NEW h \in Handlers, Step(h)
    PROVE  Walks(h)
<1> USE DEF Shape, Walks, Goto, End
<1>1. ASSUME NEW c \in todo[h], RemovedCall(h, c) PROVE Walks(h)
    BY <1>1 DEF RemovedCall
<1>2. ASSUME NEW c \in todo[h], LeaveOne(h, c) PROVE Walks(h)
    BY <1>2 DEF LeaveOne
<1>3. ASSUME NEW c \in todo[h], CleanupDeactivate(h, c) PROVE Walks(h)
    BY <1>3 DEF CleanupDeactivate
<1>4. ASSUME RemovedEnd(h) PROVE Walks(h)
    BY <1>4 DEF RemovedEnd
<1>5. ASSUME BotAdded(h) PROVE Walks(h)
    BY <1>5 DEF BotAdded
<1>6. ASSUME SendPrompt(h) PROVE Walks(h)
    BY <1>6 DEF SendPrompt
<1>7. ASSUME StorePending(h) PROVE Walks(h)
    BY <1>7 DEF StorePending
<1>8. ASSUME JoinPerms(h) PROVE Walks(h)
    BY <1>8 DEF JoinPerms
<1>9. ASSUME JoinKnown(h) PROVE Walks(h)
    BY <1>9 DEF JoinKnown
<1>10. ASSUME JoinCancel(h) PROVE Walks(h)
    BY <1>10 DEF JoinCancel
<1>11. ASSUME ConnectGather(h) PROVE Walks(h)
    BY <1>11 DEF ConnectGather
<1>12. ASSUME JoinAddGroup(h) PROVE Walks(h)
    BY <1>12 DEF JoinAddGroup
<1>13. ASSUME JoinUnpend(h) PROVE Walks(h)
    BY <1>13 DEF JoinUnpend
<1>14. ASSUME JoinConfirm(h) PROVE Walks(h)
    BY <1>14 DEF JoinConfirm
<1>15. ASSUME DisconnectCheck(h) PROVE Walks(h)
    BY <1>15 DEF DisconnectCheck
<1>16. ASSUME Deactivate(h) PROVE Walks(h)
    BY <1>16 DEF Deactivate
<1>17. ASSUME Leave(h) PROVE Walks(h)
    BY <1>17 DEF Leave
<1>18. ASSUME LeaveAll(h) PROVE Walks(h)
    BY <1>18 DEF LeaveAll
<1>19. ASSUME LeaveAllEnd(h) PROVE Walks(h)
    BY <1>19 DEF LeaveAllEnd
<1>20. ASSUME CleanupProbe(h) PROVE Walks(h)
    BY <1>20 DEF CleanupProbe
<1>21. ASSUME CleanupEnd(h) PROVE Walks(h)
    BY <1>21 DEF CleanupEnd
<1>22. ASSUME MigrateRow(h) PROVE Walks(h)
    BY <1>22 DEF MigrateRow
<1>23. ASSUME MigrateDrop(h) PROVE Walks(h)
    BY <1>23 DEF MigrateDrop
<1>24. ASSUME MigratePending(h) PROVE Walks(h)
    BY <1>24 DEF MigratePending
<1> QED BY <1>1, <1>2, <1>3, <1>4, <1>5, <1>6, <1>7, <1>8, <1>9, <1>10, <1>11, <1>12, <1>13,
           <1>14, <1>15, <1>16, <1>17, <1>18, <1>19, <1>20, <1>21, <1>22, <1>23, <1>24 DEF Step

\* Who may be where: the points that take a group out of the federation belong to
\* the operations that do so, and a handler reports when it ends.
Path ==
    \A h \in Handlers :
        /\ pc[h] \in {"check", "deactivate"} => kind[h] = "disconnect"
        /\ pc[h] = "rm" => kind[h] = "rmtc"
        /\ pc[h] \in {"all", "leaving"} => kind[h] = "leaveall"
        /\ pc[h] \in {"probe", "pruning"} => kind[h] = "cleanup"
        /\ pc[h] # "done" => outcome[h] = "none"

\* Every step keeps Path.
LEMMA PathNext == Shape /\ Path /\ [Next]_vars => Path'
<1> SUFFICES ASSUME Shape, Path, [Next]_vars PROVE Path'
    OBVIOUS
<1> USE DEF stores, telegram, control, calls, history
<1>1. CASE UNCHANGED <<pc, kind, outcome>>
    BY <1>1 DEF Path
<1>2. CASE UNCHANGED vars \/ Migrate \/ Terminated
    BY <1>1, <1>2 DEF vars, Migrate, Terminated
<1>3. ASSUME NEW s \in {"out", "member", "admin"}, Move(s) PROVE Path'
    BY <1>1, <1>3 DEF Move
<1>4. ASSUME NEW h \in Handlers, Commanded(h) PROVE Path'
    BY <1>4, CommandStarts, Started DEF Path
<1>5. ASSUME NEW h \in Handlers, on_bot_added(h) PROVE Path'
    BY <1>5, UpdateStarts, Started DEF Path, Update, Points
<1>6. ASSUME NEW h \in Handlers, on_chat_migration(h) PROVE Path'
    BY <1>6, MigrationStarts, Started DEF Path, Chats, Points
<1>7. ASSUME NEW h \in Handlers, Step(h) PROVE Path'
    BY <1>7, OthersRest, Running, StepWalks DEF Path, Rests, Walks
<1> QED BY <1>2, <1>3, <1>4, <1>5, <1>6, <1>7 DEF Next, Commanded

\* Nobody has taken the group out of the federation, or begun to.
Undisturbed ==
    \A h \in Handlers :
        /\ pc[h] = "idle" \/ kind[h] \in {"join", "connect", "update", "migrate"}
        /\ outcome[h] # "left" /\ pc[h] # "removed"

\* What has been disturbed stays so.
LEMMA UndisturbedBefore == Shape /\ Path /\ [Next]_vars /\ Undisturbed' => Undisturbed
<1> SUFFICES ASSUME Shape, Path, [Next]_vars, Undisturbed' PROVE Undisturbed
    OBVIOUS
<1> USE DEF stores, telegram, control, calls, history
<1>1. CASE UNCHANGED <<pc, kind, outcome>>
    BY <1>1 DEF Undisturbed
<1>2. CASE UNCHANGED vars \/ Migrate \/ Terminated
    BY <1>1, <1>2 DEF vars, Migrate, Terminated
<1>3. ASSUME NEW s \in {"out", "member", "admin"}, Move(s) PROVE Undisturbed
    BY <1>1, <1>3 DEF Move
<1>4. ASSUME NEW h \in Handlers, Commanded(h) PROVE Undisturbed
    BY <1>4, CommandStarts, Started DEF Undisturbed
<1>5. ASSUME NEW h \in Handlers, on_bot_added(h) PROVE Undisturbed
    BY <1>5, UpdateStarts, Started DEF Undisturbed, Update, Points
<1>6. ASSUME NEW h \in Handlers, on_chat_migration(h) PROVE Undisturbed
    BY <1>6, MigrationStarts, Started DEF Undisturbed, Chats, Points
<1>7. ASSUME NEW h \in Handlers, Step(h) PROVE Undisturbed
    BY <1>7, OthersRest, Running, StepWalks DEF Path, Rests, Walks, Undisturbed
<1> QED BY <1>2, <1>3, <1>4, <1>5, <1>6, <1>7 DEF Next, Commanded

\* Migrations announced and not yet taken up, and those that may still write rows.
Announced == {i \in 1..Len(updates) : updates[i].is = "moved"}
Moving == {h \in Handlers : pc[h] \in {"move", "drop"}}

\* Telegram migrates a group once, so at most one handler migrates its rows.
OneMigration ==
    /\ \A i, j \in Announced : i = j
    /\ \A g, h \in Moving : g = h
    /\ Announced # {} => moved /\ Moving = {}
    /\ Moving # {} => moved

\* A change of membership announces no migration.
LEMMA BecomesAnnounces ==
    ASSUME Shape, NEW s \in {"out", "member", "admin"}, Becomes(s)
    PROVE  Announced' = Announced
<1>1. PICK u \in Update : updates' = Append(updates, u) /\ u.is = s
    BY BecomesQueues
<1>2. /\ Len(updates) \in Nat /\ Len(updates') = Len(updates) + 1
      /\ updates'[Len(updates) + 1] = u
      /\ \A i \in 1..Len(updates) : updates'[i] = updates[i]
    BY <1>1, QueueGrown
<1> QED BY <1>1, <1>2 DEF Announced

\* A step of a handler announces none either, and starts none.
LEMMA StepAnnounces ==
    ASSUME Shape, NEW h \in Handlers, Step(h)
    PROVE  Announced' = Announced /\ Moving' \subseteq Moving /\ moved' = moved
<1>1. updates' = updates \/ Becomes("out")
    BY OnlyLeavingTalks DEF TalksToTelegram
<1>2. Announced' = Announced
    BY <1>1, BecomesAnnounces DEF Announced
<1> QED BY <1>2, OthersRest, MoveIsFirst, StepWalks DEF Rests, Walks, Moving

\* An update taken from the queue is announced no more.
LEMMA TakenAnnounces ==
    ASSUME Shape, updates # << >>, updates' = Tail(updates)
    PROVE  \A i \in Announced' : i + 1 \in Announced
BY QueueTaken DEF Announced

\* Every step keeps OneMigration.
LEMMA OneMigrationNext == Shape /\ OneMigration /\ [Next]_vars => OneMigration'
<1> SUFFICES ASSUME Shape, OneMigration, [Next]_vars PROVE OneMigration'
    OBVIOUS
<1> USE DEF stores, telegram, control, calls, history
<1>1. ASSUME Announced' = Announced, Moving' \subseteq Moving, moved' = moved PROVE OneMigration'
    BY <1>1 DEF OneMigration
<1>2. CASE UNCHANGED vars \/ Terminated
    BY <1>1, <1>2 DEF vars, Terminated, Announced, Moving
<1>3. CASE Migrate
    <2> DEFINE u == [chat |-> New, was |-> "moved", is |-> "moved"]
    <2>1. /\ u \in Update /\ updates' = Append(updates, u)
          /\ ~moved /\ moved' /\ pc' = pc
        BY <1>3 DEF Migrate, Update, Status, Chats
    <2> HIDE DEF u
    <2>2. Announced = {} /\ Moving = {}
        BY <2>1 DEF OneMigration
    <2>3. Moving' = {}
        BY <2>1, <2>2 DEF Moving
    <2>4. \A i \in Announced' : i = Len(updates) + 1
        BY <2>1, <2>2, QueueGrown DEF Announced
    <2> QED BY <2>1, <2>3, <2>4 DEF OneMigration
<1>4. ASSUME NEW s \in {"out", "member", "admin"}, Move(s) PROVE OneMigration'
    BY <1>1, <1>4, BecomesAnnounces DEF Move, Moving
<1>5. ASSUME NEW h \in Handlers, Commanded(h) PROVE OneMigration'
    <2>1. updates' = updates /\ moved' = moved /\ Moving' \subseteq Moving
        BY <1>5, CommandStarts, Started DEF Moving
    <2> QED BY <1>1, <2>1 DEF Announced
<1>6. ASSUME NEW h \in Handlers, on_bot_added(h) PROVE OneMigration'
    <2>1. moved' = moved /\ Moving' \subseteq Moving
        BY <1>6, UpdateStarts, Started DEF Moving, Update, Points
    <2>2. \A i \in Announced' : i + 1 \in Announced
        BY <1>6, UpdateStarts, TakenAnnounces
    <2>3. \A i, j \in Announced' : i = j
        BY <2>2 DEF OneMigration, Announced
    <2> QED BY <2>1, <2>2, <2>3 DEF OneMigration
<1>7. ASSUME NEW h \in Handlers, on_chat_migration(h) PROVE OneMigration'
    <2>1. 1 \in Announced
        BY <1>7, MigrationStarts, QueueTaken DEF Announced
    <2>2. \A i \in Announced' : i + 1 \in Announced /\ i \in 1..Len(updates')
        BY <1>7, MigrationStarts, TakenAnnounces DEF Announced
    <2>3. Announced' = {}
        BY <2>1, <2>2 DEF OneMigration
    <2>4. moved /\ Moving = {}
        BY <2>1 DEF OneMigration
    <2>5. moved' = moved /\ \A g \in Moving' : g = h
        BY <1>7, <2>4, MigrationStarts, Started DEF Moving, Chats, Points
    <2> QED BY <2>3, <2>4, <2>5 DEF OneMigration
<1>8. ASSUME NEW h \in Handlers, Step(h) PROVE OneMigration'
    BY <1>1, <1>8, StepAnnounces
<1> QED BY <1>2, <1>3, <1>4, <1>5, <1>6, <1>7, <1>8 DEF Next, Commanded

\* While undisturbed: who was told, or is about to be, has an active record; a
\* migration that drops the old record has the new one active; and once a migration
\* has carried over a record that is not active, there is no other to come.
Connected ==
    /\ (told \/ \E h \in Handlers : pc[h] \in {"unpend", "confirm"}) => \E c \in Chats : row[c] = "active"
    /\ \A h \in Handlers : pc[h] = "drop" => row[New] = "active"
    /\ row[New] = "inactive" => moved /\ Moving = {} /\ Announced = {}
ConnInv == Undisturbed => Connected

\* A step that writes no record and leads to none of the points of Connected.
LEMMA ConnectedStays ==
    ASSUME Connected, row' = row, told' => told, moved => moved',
           Announced = {} => Announced' = {}, Moving' \subseteq Moving,
           \A h \in Handlers : pc'[h] \in {"unpend", "confirm", "drop"} => pc'[h] = pc[h]
    PROVE  Connected'
<1>1. \A h \in Handlers : pc'[h] = "drop" => row'[New] = "active"
    BY DEF Connected
<1>2. row'[New] = "inactive" => moved' /\ Moving' = {} /\ Announced' = {}
    BY DEF Connected
<1>3. (told' \/ \E h \in Handlers : pc'[h] \in {"unpend", "confirm"}) =>
          told \/ \E h \in Handlers : pc[h] \in {"unpend", "confirm"}
    OBVIOUS
<1>4. (told' \/ \E h \in Handlers : pc'[h] \in {"unpend", "confirm"}) => \E c \in Chats : row'[c] = "active"
    BY <1>3 DEF Connected
<1> QED BY <1>1, <1>2, <1>4 DEF Connected

\* One step of a handler, none of them disturbing, keeps Connected.
LEMMA ConnectedStep ==
    ASSUME Shape, Path, OneMigration, Connected, Undisturbed, Undisturbed', NEW h \in Handlers, Step(h)
    PROVE  Connected'
<1> USE DEF Shape, stores, telegram, control, calls, history, Goto, End
<1>0. /\ Announced' = Announced /\ Moving' \subseteq Moving /\ moved' = moved
      /\ \A g \in Handlers : g # h => pc'[g] = pc[g]
      /\ pc[h] \notin {"idle", "done"}
    BY StepAnnounces, OthersRest, Running DEF Rests
<1>1. ASSUME row' = row, told' => told, pc'[h] \in {"unpend", "confirm", "drop"} => pc'[h] = pc[h]
      PROVE  Connected'
    BY <1>0, <1>1, ConnectedStays
<1>2. ASSUME NEW c \in todo[h], RemovedCall(h, c) PROVE Connected'
    BY <1>2 DEF RemovedCall, Undisturbed
<1>3. ASSUME NEW c \in todo[h], LeaveOne(h, c) PROVE Connected'
    BY <1>3 DEF LeaveOne, Undisturbed, Path
<1>4. ASSUME NEW c \in todo[h], CleanupDeactivate(h, c) PROVE Connected'
    BY <1>4 DEF CleanupDeactivate, Undisturbed, Path
<1>5. ASSUME RemovedEnd(h) PROVE Connected'
    BY <1>5, <1>1 DEF RemovedEnd
<1>6. ASSUME BotAdded(h) PROVE Connected'
    BY <1>6, <1>1 DEF BotAdded
<1>7. ASSUME SendPrompt(h) PROVE Connected'
    BY <1>7, <1>1 DEF SendPrompt
<1>8. ASSUME StorePending(h) PROVE Connected'
    BY <1>8, <1>1 DEF StorePending
<1>9. ASSUME JoinPerms(h) PROVE Connected'
    BY <1>9, <1>1 DEF JoinPerms
<1>10. ASSUME JoinKnown(h) PROVE Connected'
    BY <1>10, <1>1 DEF JoinKnown
<1>11. ASSUME JoinCancel(h) PROVE Connected'
    BY <1>11, <1>1 DEF JoinCancel
<1>12. ASSUME ConnectGather(h) PROVE Connected'
    BY <1>12, <1>1 DEF ConnectGather
<1>13. ASSUME JoinAddGroup(h) PROVE Connected'
    <2>1. CASE pc'[h] = "unpend"
        <3>1. row' = [row EXCEPT ![chat[h]] = "active"] /\ told' = told
            BY <1>13, <2>1 DEF JoinAddGroup, add_group
        <3>2. row'[chat[h]] = "active" /\ \A c \in Chats : row'[c] \in {row[c], "active"}
            BY <3>1
        <3>3. chat[h] \in Chats /\ New \in Chats
            BY DEF Chats
        <3> QED BY <1>0, <2>1, <3>2, <3>3 DEF Connected
    <2>2. CASE pc'[h] = "done"
        <3>1. row' = row /\ told' = told
            BY <1>13, <2>2 DEF JoinAddGroup
        <3> QED BY <1>1, <2>2, <3>1
    <2> QED BY <1>13, <2>1, <2>2 DEF JoinAddGroup
<1>14. ASSUME JoinUnpend(h) PROVE Connected'
    <2>1. pc[h] = "unpend" /\ pc'[h] = "confirm" /\ UNCHANGED <<row, told>>
        BY <1>14 DEF JoinUnpend
    <2> QED BY <1>0, <2>1 DEF Connected
<1>15. ASSUME JoinConfirm(h) PROVE Connected'
    <2>1. pc[h] = "confirm" /\ pc'[h] = "done" /\ row' = row
        BY <1>15 DEF JoinConfirm
    <2> QED BY <1>0, <2>1 DEF Connected
<1>16. ASSUME DisconnectCheck(h) PROVE Connected'
    BY <1>16, <1>1 DEF DisconnectCheck
<1>17. ASSUME Deactivate(h) PROVE Connected'
    BY <1>17 DEF Deactivate, Path, Undisturbed
<1>18. ASSUME Leave(h) PROVE Connected'
    <2>1. pc'[h] = "done" /\ row' = row
        BY <1>18 DEF Leave
    <2>2. told' => told
        BY <1>18, Zenon DEF Leave, leave_chat, Becomes, StaysAs
    <2> QED BY <1>1, <2>1, <2>2
<1>19. ASSUME LeaveAll(h) PROVE Connected'
    BY <1>19, <1>1 DEF LeaveAll
<1>20. ASSUME LeaveAllEnd(h) PROVE Connected'
    BY <1>20, <1>1 DEF LeaveAllEnd
<1>21. ASSUME CleanupProbe(h) PROVE Connected'
    BY <1>21, <1>1 DEF CleanupProbe
<1>22. ASSUME CleanupEnd(h) PROVE Connected'
    BY <1>22, <1>1 DEF CleanupEnd
<1>23. ASSUME MigrateRow(h) PROVE Connected'
    <2>1. pc[h] = "move" /\ h \in Moving /\ told' = told
        BY <1>23 DEF MigrateRow, Moving
    <2>2. moved /\ Announced = {} /\ (\A g \in Moving : g = h) /\ row[New] # "inactive"
        BY <2>1 DEF OneMigration, Connected
    <2>3. CASE pc'[h] = "drop"
        <3>1. row[New] # "none" /\ row' = row
            BY <1>23, <2>3 DEF MigrateRow
        <3>2. row[New] = "active"
            BY <2>2, <3>1 DEF Chats
        <3> QED BY <1>0, <2>1, <2>3, <3>1, <3>2 DEF Connected
    <2>4. CASE pc'[h] # "drop" /\ row' = row
        <3>1. pc'[h] \in {"move_pending", "done"}
            BY <1>23, <2>4 DEF MigrateRow
        <3> QED BY <1>1, <2>1, <2>4, <3>1
    <2>5. CASE pc'[h] # "drop" /\ row' # row
        <3>1. /\ pc'[h] = "move_pending" /\ row[Old] # "none" /\ row[New] = "none"
              /\ row' = [row EXCEPT ![New] = row[Old], ![Old] = "none"]
            BY <1>23, <2>5 DEF MigrateRow
        <3>2. row'[New] = row[Old]
            BY <3>1, ChatAssumption DEF Chats
        <3>3. Moving' = {}
            BY <1>0, <2>2, <3>1 DEF Moving
        <3>4. (\E c \in Chats : row[c] = "active") => row'[New] = "active"
            BY <3>1, <3>2 DEF Chats
        <3>5. New \in Chats
            BY DEF Chats
        <3> QED BY <1>0, <2>1, <2>2, <3>1, <3>3, <3>4, <3>5 DEF Connected, Moving
    <2> QED BY <2>3, <2>4, <2>5
<1>24. ASSUME MigrateDrop(h) PROVE Connected'
    <2>1. pc[h] = "drop" /\ pc'[h] # "drop" /\ row[New] = "active" /\ row'[New] = "active"
        BY <1>24, ChatAssumption DEF MigrateDrop, Connected, Chats
    <2>2. New \in Chats
        BY DEF Chats
    <2> QED BY <1>0, <2>1, <2>2 DEF Connected
<1>25. ASSUME MigratePending(h) PROVE Connected'
    BY <1>25, <1>1 DEF MigratePending
<1> QED BY <1>2, <1>3, <1>4, <1>5, <1>6, <1>7, <1>8, <1>9, <1>10, <1>11, <1>12, <1>13, <1>14,
           <1>15, <1>16, <1>17, <1>18, <1>19, <1>20, <1>21, <1>22, <1>23, <1>24, <1>25 DEF Step

\* Every step keeps ConnInv.
LEMMA ConnNext == Shape /\ Path /\ OneMigration /\ ConnInv /\ [Next]_vars => ConnInv'
<1> SUFFICES ASSUME Shape, Path, OneMigration, ConnInv, [Next]_vars, Undisturbed' PROVE Connected'
    BY DEF ConnInv
<1> USE DEF stores, telegram, control, calls, history
<1>1. Undisturbed /\ Connected
    BY UndisturbedBefore DEF ConnInv
<1>2. CASE UNCHANGED vars \/ Terminated
    BY <1>1, <1>2 DEF vars, Terminated, Announced, Moving, Connected
<1>3. CASE Migrate
    <2>1. ~moved /\ UNCHANGED <<row, told, pc>>
        BY <1>3 DEF Migrate
    <2>2. row[New] # "inactive"
        BY <1>1, <2>1 DEF Connected
    <2> QED BY <1>1, <2>1, <2>2 DEF Connected
<1>4. ASSUME NEW s \in {"out", "member", "admin"}, Move(s) PROVE Connected'
    <2>1. UNCHANGED <<row, moved, pc>> /\ Announced' = Announced
        BY <1>4, BecomesAnnounces DEF Move
    <2>2. told' => told
        BY <1>4, Zenon DEF Move, Becomes
    <2> QED BY <1>1, <2>1, <2>2, ConnectedStays DEF Moving
<1>5. ASSUME NEW h \in Handlers, Commanded(h) PROVE Connected'
    <2>1. /\ UNCHANGED <<row, told, moved, updates>> /\ Moving' \subseteq Moving
          /\ \A g \in Handlers : pc'[g] \in {"unpend", "confirm", "drop"} => pc'[g] = pc[g]
        BY <1>5, CommandStarts, Started DEF Moving
    <2>2. Announced' = Announced
        BY <2>1 DEF Announced
    <2> QED BY <1>1, <2>1, <2>2, ConnectedStays
<1>6. ASSUME NEW h \in Handlers, on_bot_added(h) PROVE Connected'
    <2>1. /\ UNCHANGED <<row, told, moved>> /\ Moving' \subseteq Moving
          /\ \A g \in Handlers : pc'[g] \in {"unpend", "confirm", "drop"} => pc'[g] = pc[g]
        BY <1>6, UpdateStarts, Started DEF Moving, Update, Points
    <2>2. Announced = {} => Announced' = {}
        BY <1>6, UpdateStarts, TakenAnnounces
    <2> QED BY <1>1, <2>1, <2>2, ConnectedStays
<1>7. ASSUME NEW h \in Handlers, on_chat_migration(h) PROVE Connected'
    <2>1. 1 \in Announced
        BY <1>7, MigrationStarts, QueueTaken DEF Announced
    <2>2. row[New] # "inactive"
        BY <1>1, <2>1 DEF Connected
    <2>3. /\ UNCHANGED <<row, told>>
          /\ \A g \in Handlers : pc'[g] \in {"unpend", "confirm", "drop"} => pc'[g] = pc[g]
        BY <1>7, MigrationStarts, Started DEF Chats, Points
    <2> QED BY <1>1, <2>2, <2>3 DEF Connected
<1>8. ASSUME NEW h \in Handlers, Step(h) PROVE Connected'
    BY <1>1, <1>8, ConnectedStep
<1> QED BY <1>2, <1>3, <1>4, <1>5, <1>6, <1>7, <1>8 DEF Next, Commanded

\* For any number of handlers, interleaved in any way, and any failing calls: an
\* owner who was told "connected" has an active record under one of the group's two
\* ids until someone takes the group out, whenever the migration happens
\* (complete_join, cmd_tcconnect, on_join_decision, migrate_group).
THEOREM ConfirmedStaysConnected == Spec => []ConfirmedIsConnected
<1>1. Init => Path /\ OneMigration
    BY DEF Init, Path, OneMigration, Announced, Moving
<1>2. Init => ConnInv
    BY DEF Init, ConnInv, Connected, Chats
<1>3. ConnInv => ConfirmedIsConnected
    BY DEF ConnInv, Connected, ConfirmedIsConnected, Undisturbed, Busy
<1> QED BY ShapeInit, ShapeNext, PathNext, OneMigrationNext, ConnNext, <1>1, <1>2, <1>3, PTL DEF Spec
=============================================================================
