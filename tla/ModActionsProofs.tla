-------------------------- MODULE ModActionsProofs --------------------------
(***************************************************************************)
(* Proofs about ModActions, for any number of chats, handlers, commands and  *)
(* faults.                                                                  *)
(***************************************************************************)
EXTENDS ModActions, TLAPS

\* What the action's keys in user_data hold.
Keys == [req : Nat, proof : BOOLEAN, exec : BOOLEAN]

\* The types the arguments need.
Shape ==
    /\ ud \in Keys /\ asked \in Nat
    /\ limited \subseteq Chats /\ ran \in [Requests -> Nat]
    /\ pc \in [Handlers -> Points] /\ DOMAIN at = Handlers /\ DOMAIN met = Handlers
    /\ todo \in [Handlers -> SUBSET Chats] /\ failed \in [Handlers -> SUBSET Chats]
    /\ left \in [Handlers -> SUBSET Chats]

\* A stored request has not run, nor has one that was not made yet.
Unspent ==
    /\ ud.req <= asked
    /\ \A r \in Requests : ran[r] <= 1 /\ (r = ud.req \/ r > asked => ran[r] = 0)

\* Whoever is banned by a kick is about to be unbanned by it.
Lifting == cut \/ \A c \in banned : \E h \in Handlers : pc[h] = "kick_unban" /\ at[h] = c

\* Where a handler restricts chats or may come to do so under a written record.
Muting == {"mute_log", "mute_call", "sync_call"}

\* Without a record nobody restricts, and only chats an unmute gave up on are
\* restricted; a mute that found no record and met no other is alone; an unmute
\* that met no mute has freed the chats it has called, save those it left.
Recorded ==
    /\ ~record => limited \subseteq stuck /\ \A h \in Handlers : pc[h] \notin Muting \cup {"mute_undo"}
    /\ \A h \in Handlers : pc[h] \in {"mute_log", "mute_undo"} /\ ~met[h] =>
          limited \subseteq stuck /\ \A g \in Handlers \ {h} : pc[g] \notin Muting \cup {"mute_undo"}
    /\ \A h \in Handlers : pc[h] \in {"un_groups", "un_call"} /\ ~met[h] =>
          \A g \in Handlers : pc[g] \notin Muting
    /\ \A h \in Handlers : pc[h] = "un_call" /\ ~met[h] => limited \subseteq todo[h] \cup left[h]

Liftable == raced \/ Recorded

Inv == Shape /\ Unspent /\ Lifting /\ Liftable

\* Where a step may touch more than the conversation.
Sensitive == Muting \cup {"mute_undo", "un_groups", "un_call", "kick_unban"}

\* What the handlers of the conversation do to the variables above.
Talking(h) ==
    /\ pc[h] \notin Sensitive /\ \E l \in Points \ Sensitive : Goto(h, l)
    /\ at' = at \/ \E c : at' = [at EXCEPT ![h] = c]
    /\ met' = met \/ met' = [met EXCEPT ![h] = FALSE]
    /\ ud' \in Keys
    /\ \/ asked' = asked /\ ud'.req \in {0, ud.req}
       \/ asked' = asked + 1 /\ ud'.req = asked + 1
    /\ UNCHANGED <<store, todo, failed, left, stuck, ran, raced, cut>>

\* What the handlers make of the keys.
LEMMA KeysAre ==
    ASSUME ud \in Keys
    PROVE  /\ Empty \in Keys /\ Empty.req = 0
           /\ \A r \in Nat : [ud EXCEPT !.req = r] \in Keys /\ [ud EXCEPT !.req = r].req = r
           /\ \A b \in BOOLEAN :
                 /\ [ud EXCEPT !.proof = b] \in Keys /\ [ud EXCEPT !.proof = b].req = ud.req
                 /\ [ud EXCEPT !.exec = b] \in Keys /\ [ud EXCEPT !.exec = b].req = ud.req
BY DEF Keys, Empty

LEMMA InvInit == Init => Inv
BY DEF Init, Inv, Keys, Shape, Unspent, Lifting, Liftable, Recorded, Empty, Requests, Points, Muting

\* The updates and the steps of the conversation.
LEMMA ConversationTalks ==
    ASSUME Shape, NEW h \in Handlers,
           \/ Updates(h) \/ EntryStore(h) \/ MutePrompt(h) \/ KickPrompt(h) \/ ReasonEdit(h)
           \/ Stay(h) \/ DoneCheck(h) \/ _recheck_tapper(h) \/ EndConversation(h) \/ FlowEnd(h)
    PROVE  Talking(h)
<1> USE KeysAre DEF Shape, Talking, Sensitive, Muting, Points, history, store, Goto, _clear_user_data
<1>1. CASE execute_unmute(h) \/ verify_user(h) \/ _run_scheduled_sync(h)
    BY <1>1 DEF execute_unmute, verify_user, _run_scheduled_sync, OtherFrame
<1>2. ASSUME NEW c \in Chats, cmd_mute(h, c) \/ cmd_kick(h, c)
      PROVE  Talking(h)
    BY <1>2 DEF cmd_mute, cmd_kick, Open, Take
<1>3. ASSUME NEW c \in Chats,
             \/ _on_reason_text(h, c) \/ _on_skip_reason(h, c)
             \/ _on_reason_unexpected(h, c) \/ _on_proof_unexpected(h, c)
      PROVE  Talking(h)
    BY <1>3 DEF _on_reason_text, _on_skip_reason, _on_reason_unexpected, _on_proof_unexpected,
                Receive, Take
<1>4. ASSUME NEW c \in Chats, _on_skip_proof(h, c) \/ _on_done_proof(h, c) \/ _on_cancel(h, c)
      PROVE  Talking(h)
    <2>1. CASE _on_skip_proof(h, c)
        BY <2>1 DEF _on_skip_proof, Take
    <2>2. CASE _on_done_proof(h, c) \/ _on_cancel(h, c)
        BY <2>2 DEF _on_done_proof, _on_cancel, Take
    <2> QED BY <1>4, <2>1, <2>2
<1>5. CASE EntryStore(h)
    <2>1. \/ asked' = asked /\ ud' = ud
          \/ asked' = asked + 1 /\ ud' = [ud EXCEPT !.req = asked + 1] /\ asked + 1 \in Nat
        BY <1>5 DEF EntryStore
    <2>2. ud' \in Keys /\ \/ asked' = asked /\ ud'.req \in {0, ud.req}
                          \/ asked' = asked + 1 /\ ud'.req = asked + 1
        BY <2>1
    <2> QED BY <1>5, <2>2 DEF EntryStore, Return
<1>6. CASE MutePrompt(h) \/ KickPrompt(h) \/ ReasonEdit(h)
    <2>1. ud' \in Keys /\ ud'.req \in {0, ud.req}
        BY <1>6 DEF MutePrompt, KickPrompt, EntryPrompt, ReasonEdit
    <2> QED BY <1>6, <2>1 DEF MutePrompt, KickPrompt, EntryPrompt, ReasonEdit, Return
<1>7. CASE Stay(h) \/ DoneCheck(h) \/ EndConversation(h)
    BY <1>7 DEF Stay, DoneCheck, EndConversation, Return
<1>8. CASE _recheck_tapper(h)
    BY <1>8 DEF _recheck_tapper, Return
<1>9. CASE FlowEnd(h)
    BY <1>9 DEF FlowEnd, Return
<1> QED BY <1>1, <1>2, <1>3, <1>4, <1>5, <1>6, <1>7, <1>8, <1>9 DEF Updates

LEMMA TalkingKeeps ==
    ASSUME Inv, NEW h \in Handlers, Talking(h)
    PROVE  Inv'
<1> USE DEF Inv, Shape, Talking, store
<1>1. PICK l \in Points \ Sensitive : Goto(h, l)
    OBVIOUS
<1>2. \A g \in Handlers : pc'[g] \in Sensitive \/ pc[g] \in Sensitive =>
          g # h /\ pc'[g] = pc[g] /\ at'[g] = at[g] /\ met'[g] = met[g]
    BY <1>1 DEF Goto
<1>3. Shape'
    BY <1>1 DEF Goto
<1>4. Unspent'
    BY DEF Unspent, Keys, Requests
<1>5. Lifting'
    BY <1>2 DEF Lifting, Sensitive
<1>6. Liftable'
    BY <1>2 DEF Liftable, Recorded, Sensitive, Muting
<1> QED BY <1>3, <1>4, <1>5, <1>6

\* An executor starts, and with it the request is gone from the keys.
LEMMA TakingKeeps ==
    ASSUME Inv, NEW h \in Handlers, _exec_mute(h) \/ _exec_kick(h)
    PROVE  Inv'
<1> USE DEF Inv
<1>1. /\ pc[h] = "run" /\ Took(h) /\ \E l \in Points \ Sensitive : Goto(h, l)
      /\ UNCHANGED <<asked, record, limited, banned, cut, raced, at, met, left, stuck, todo, failed>>
    BY DEF _exec_mute, MuteFrame, _exec_kick, KickFrame, Points, Sensitive, Muting, Executing
<1>2. ud' \in Keys /\ ud'.req = 0
    BY KeysAre DEF _exec_mute, _exec_kick, _clear_user_data, Shape
<1>3. \A g \in Handlers : pc'[g] \in Sensitive \/ pc[g] \in Sensitive => g # h /\ pc'[g] = pc[g]
    BY <1>1 DEF Goto, Shape, Sensitive, Muting
<1>4. Shape'
    BY <1>1, <1>2 DEF Goto, Shape, Took, Requests, Keys
<1>5. Unspent'
    BY <1>1, <1>2 DEF Unspent, Took, Shape, Requests, Keys
<1>6. Lifting'
    BY <1>1, <1>3 DEF Lifting, Sensitive
<1>7. Liftable'
    BY <1>1, <1>3 DEF Liftable, Recorded, Sensitive, Muting
<1> QED BY <1>4, <1>5, <1>6, <1>7

\* The kick.
LEMMA KickKeeps ==
    ASSUME Inv, NEW h \in Handlers, KickPop(h) \/ log_kick(h) \/ KickBan(h) \/ KickUnban(h)
    PROVE  Inv'
<1> USE DEF Inv, Goto, KickFrame, Works, Fault
<1>1. /\ pc[h] \in {"kick_pop", "kick_log", "kick_ban", "kick_unban"}
      /\ \E l \in {"kick_log", "kick_ban", "kick_unban", "flow_end"} : Goto(h, l)
      /\ UNCHANGED <<asked, ran, record, limited, raced, at, met, left, stuck, todo, failed>>
    BY DEF KickPop, log_kick, KickBan, KickUnban
<1>2. ud' \in Keys /\ ud'.req = ud.req
    BY KeysAre DEF KickPop, log_kick, KickBan, KickUnban, Shape
<1>3. Shape'
    BY <1>1, <1>2 DEF Shape, Points, Executing
<1>4. Unspent'
    BY <1>1, <1>2 DEF Unspent, Shape
<1>5. Lifting'
    <2>1. CASE KickPop(h) \/ log_kick(h)
        BY <2>1 DEF Lifting, Shape, KickPop, log_kick
    <2>2. CASE KickBan(h)
        BY <2>2 DEF Lifting, Shape, KickBan
    <2>3. CASE KickUnban(h)
        BY <2>3 DEF Lifting, Shape, KickUnban
    <2> QED BY <2>1, <2>2, <2>3
<1>6. Liftable'
    BY <1>1 DEF Liftable, Recorded, Shape, Muting
<1> QED BY <1>3, <1>4, <1>5, <1>6

\* What the mute, the unmute and the replay leave alone.
LEMMA OthersKeep ==
    ASSUME Shape, Unspent, Lifting, NEW h \in Handlers, NEW l \in Points, pc[h] # "kick_unban",
           l # "kick_unban", pc' = [pc EXCEPT ![h] = l],
           UNCHANGED <<ud, asked, ran, banned, cut, at>>
    PROVE  Unspent' /\ Lifting'
BY DEF Shape, Unspent, Lifting

LEMMA Meeting ==
    ASSUME NEW h \in Handlers, Meets(h)
    PROVE  /\ DOMAIN met' = Handlers /\ (met'[h] <=> record)
           /\ \A g \in Handlers \ {h} :
                 met'[g] <=> met[g] \/ pc[g] \in {"un_groups", "un_call", "mute_log", "mute_undo"}
BY DEF Meets

LEMMA Clearing ==
    ASSUME NEW h \in Handlers, clear_active_mute(h)
    PROVE  /\ record' = FALSE
           /\ raced' <=> \/ raced \/ met[h]
                         \/ \E g \in Handlers \ {h} : pc[g] \in Muting \cup {"mute_undo"}
BY DEF clear_active_mute, Muting

\* The mute.
LEMMA MuteKeeps ==
    ASSUME Inv, NEW h \in Handlers,
           \/ MuteGroups(h) \/ set_active_mute(h) \/ log_mute(h) \/ MuteUndo(h)
           \/ \E c \in Chats : MuteCall(h, c)
    PROVE  Inv'
<1> USE DEF Inv, Goto, MuteFrame, Works, Fault
<1>1. /\ pc[h] \in {"mute_groups", "mute_set", "mute_log", "mute_undo", "mute_call"}
      /\ \E l \in {"mute_set", "mute_log", "mute_undo", "mute_call", "flow_end"} : Goto(h, l)
      /\ UNCHANGED <<ud, asked, ran, banned, cut, at>>
    BY DEF MuteGroups, set_active_mute, log_mute, MuteUndo, MuteCall
<1>2. Shape'
    <2>1. limited' \subseteq Chats /\ DOMAIN met' = Handlers
          /\ todo' \in [Handlers -> SUBSET Chats] /\ UNCHANGED <<failed, left>>
        BY Meeting DEF Shape, MuteGroups, set_active_mute, log_mute, MuteUndo, MuteCall
    <2> QED BY <1>1, <2>1 DEF Shape, Points, Executing
<1>3. Unspent' /\ Lifting'
    BY <1>1, OthersKeep DEF Points, Executing
<1>4. Liftable'
    <2> USE DEF Liftable, Recorded, Shape, Muting
    <2>1. CASE MuteGroups(h)
        BY <2>1 DEF MuteGroups
    <2>2. CASE set_active_mute(h)
        BY <2>2, Meeting DEF set_active_mute
    <2>3. CASE log_mute(h)
        BY <2>3 DEF log_mute
    <2>4. CASE MuteUndo(h)
        BY <2>4, Clearing DEF MuteUndo
    <2>5. ASSUME NEW c \in Chats, MuteCall(h, c) PROVE Liftable'
        BY <2>5 DEF MuteCall
    <2> QED BY <2>1, <2>2, <2>3, <2>4, <2>5
<1> QED BY <1>2, <1>3, <1>4

\* The unmute.
LEMMA UnmuteKeeps ==
    ASSUME Inv, NEW h \in Handlers,
           \/ UnmuteRead(h) \/ UnmuteGroups(h) \/ UnmuteEnd(h)
           \/ \E c \in Chats : UnmuteCall(h, c)
    PROVE  Inv'
<1> USE DEF Inv, Goto, OtherFrame, Works, Fault
<1>1. /\ pc[h] \in {"un_read", "un_groups", "un_call"}
      /\ \E l \in {"un_groups", "un_call", "idle"} : Goto(h, l)
      /\ UNCHANGED <<ud, asked, ran, banned, cut, at>>
    BY DEF UnmuteRead, UnmuteGroups, UnmuteEnd, UnmuteCall, Shape
<1>2. Shape'
    <2>1. limited' \subseteq Chats /\ DOMAIN met' = Handlers
          /\ todo' \in [Handlers -> SUBSET Chats] /\ failed' \in [Handlers -> SUBSET Chats]
          /\ left' \in [Handlers -> SUBSET Chats]
        BY DEF Shape, UnmuteRead, UnmuteGroups, UnmuteEnd, UnmuteCall
    <2> QED BY <1>1, <2>1 DEF Shape, Points
<1>3. Unspent' /\ Lifting'
    BY <1>1, OthersKeep DEF Points
<1>4. Liftable'
    <2> USE DEF Liftable, Recorded, Shape, Muting
    <2>1. CASE UnmuteRead(h)
        BY <2>1 DEF UnmuteRead
    <2>2. CASE UnmuteGroups(h)
        BY <2>2 DEF UnmuteGroups
    <2>3. CASE UnmuteEnd(h)
        BY <2>3, Clearing DEF UnmuteEnd
    <2>4. ASSUME NEW c \in Chats, UnmuteCall(h, c) PROVE Liftable'
        BY <2>4, SMTT(30) DEF UnmuteCall
    <2> QED BY <2>1, <2>2, <2>3, <2>4
<1> QED BY <1>2, <1>3, <1>4

\* The replay.
LEMMA SyncKeeps ==
    ASSUME Inv, NEW h \in Handlers,
           SyncRead(h) \/ SweepRead(h) \/ \E c \in Chats : _sync_mute_pair(h, c)
    PROVE  Inv'
<1> USE DEF Inv, Goto, OtherFrame, Works, Fault
<1>1. /\ pc[h] \in {"sync_read", "sweep_read", "sync_call"}
      /\ \E l \in {"sync_call", "idle"} : Goto(h, l)
      /\ UNCHANGED <<ud, asked, ran, banned, cut, at>>
    BY DEF SyncRead, SweepRead, _sync_mute_pair
<1>2. Shape'
    <2>1. limited' \subseteq Chats /\ DOMAIN met' = Handlers
          /\ todo' \in [Handlers -> SUBSET Chats] /\ UNCHANGED <<failed, left>>
        BY Meeting DEF Shape, SyncRead, SweepRead, _sync_mute_pair
    <2> QED BY <1>1, <2>1 DEF Shape, Points
<1>3. Unspent' /\ Lifting'
    BY <1>1, OthersKeep DEF Points
<1>4. Liftable'
    <2> USE DEF Liftable, Recorded, Shape, Muting
    <2>1. CASE SyncRead(h) \/ SweepRead(h)
        BY <2>1, Meeting DEF SyncRead, SweepRead
    <2>2. ASSUME NEW c \in Chats, _sync_mute_pair(h, c) PROVE Liftable'
        BY <2>2 DEF _sync_mute_pair
    <2> QED BY <2>1, <2>2
<1> QED BY <1>2, <1>3, <1>4

LEMMA InvNext == Inv /\ [Next]_vars => Inv'
<1> SUFFICES ASSUME Inv, [Next]_vars PROVE Inv'
    OBVIOUS
<1>1. CASE UNCHANGED vars
    BY <1>1 DEF vars, store, locals, history, Inv, Shape, Unspent, Lifting, Liftable, Recorded
<1>2. ASSUME NEW h \in Handlers, Updates(h) \/ Step(h) PROVE Inv'
    BY <1>2, ConversationTalks, TalkingKeeps, TakingKeeps, KickKeeps, MuteKeeps, UnmuteKeeps, SyncKeeps
    DEF Step, Inv
<1>3. ASSUME NEW c \in Chats, _on_proof(c) PROVE Inv'
    <2>1. ud' \in Keys /\ ud'.req = ud.req
        BY <1>3, KeysAre DEF _on_proof, Inv, Shape
    <2> QED
        BY <1>3, <2>1 DEF _on_proof, store, locals, history, Inv, Shape, Unspent, Lifting, Liftable, Recorded
<1>4. CASE Demoted
    BY <1>4 DEF Demoted, store, locals, history, Inv, Shape, Unspent, Lifting, Liftable, Recorded
<1>5. CASE Restart
    <2>1. Empty \in Keys /\ Empty.req = 0
        BY DEF Empty, Keys
    <2>2. Shape'
        BY <1>5, <2>1 DEF Restart, _clear_user_data, store, Inv, Shape, Points
    <2>3. Unspent'
        BY <1>5, <2>1 DEF Restart, _clear_user_data, Inv, Shape, Unspent, Requests
    <2>4. Lifting'
        BY <1>5 DEF Restart, store, Inv, Shape, Lifting
    <2>5. Liftable'
        BY <1>5 DEF Restart, store, Inv, Shape, Liftable, Recorded, Muting
    <2> QED BY <2>2, <2>3, <2>4, <2>5 DEF Inv
<1> QED BY <1>1, <1>2, <1>3, <1>4, <1>5 DEF Next, Terminated

\* However updates, cancels, restarts and faults interleave, no request is
\* executed twice (_exec_mute, _exec_kick).
THEOREM RequestsRunOnce == Spec => []ExecutedOnce
<1>1. Spec => []Inv
    BY InvInit, InvNext, PTL DEF Spec
<1>2. Inv => ExecutedOnce
    BY DEF Inv, Unspent, ExecutedOnce
<1> QED BY <1>1, <1>2, PTL

\* A kick leaves nobody banned unless its unban failed or the process stopped
\* before it (KickBan, KickUnban).
THEOREM KicksAreLifted == Spec => []KickIsNotABan
<1>1. Spec => []Inv
    BY InvInit, InvNext, PTL DEF Spec
<1>2. Inv => KickIsNotABan
    BY DEF Inv, Lifting, KickIsNotABan, Busy
<1> QED BY <1>1, <1>2, PTL

\* A chat that silences the target has a record for /tcunmute to find, unless a
\* record was deleted across another mute or replay, or the chat is one whose own
\* call failed or was refused in the unmute that deleted the record
\* (set_active_mute, MuteUndo, UnmuteCall, UnmuteEnd).
THEOREM MutesAreLiftable == Spec => []MuteIsLiftable
<1>1. Spec => []Inv
    BY InvInit, InvNext, PTL DEF Spec
<1>2. Inv => MuteIsLiftable
    BY DEF Inv, Liftable, Recorded, MuteIsLiftable
<1> QED BY <1>1, <1>2, PTL
=============================================================================
