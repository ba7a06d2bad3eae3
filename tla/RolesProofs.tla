---------------------------- MODULE RolesProofs ----------------------------
(***************************************************************************)
(* Proofs about Roles, for any users, requests and handlers, any number of   *)
(* them at once, and any number of failures and crashes.                    *)
(***************************************************************************)
EXTENDS Roles, TLAPS

\* The types the arguments need, and that a custom role is assigned only where
\* the wanted role is one.
Shape ==
    /\ admins \subseteq Users /\ sub \in [Users -> {"none"} \cup SubRoles]
    /\ status \in [Requests -> {"free", "pending", "approved", "rejected"}]
    /\ about \in [Requests -> Users]
    /\ pc \in [Handlers -> Points] /\ kind \in [Handlers -> AllKinds]
    /\ tgt \in [Handlers -> Users] /\ who \in [Handlers -> Users]
    /\ req \in [Handlers -> Requests \cup {0}]
    /\ dels \in [Handlers -> SUBSET {"admins", "roles"}]
    /\ faults \in 0..MaxFaults
    /\ DOMAIN outcome = Handlers /\ DOMAIN want = Handlers /\ DOMAIN seen = Handlers
    /\ DOMAIN broken = Handlers /\ DOMAIN regrant = Handlers
    /\ \A h \in Handlers :
         /\ pc[h] = "pro_role" => want[h] \in SubRoles \cup {"admin", "none"}
         /\ pc[h] = "pro_sub" => want[h] \in SubRoles

\* Between the two writes of set_owner the new owner's row is there, and only
\* one set_owner is between them.
Owned ==
    raced \/
    (/\ owners # {}
     /\ \A h \in Handlers : pc[h] = "own_delete" =>
           tgt[h] \in owners /\ \A g \in Handlers : pc[g] = "own_delete" => g = h)

\* A decision works on the row its card belongs to, approves it after the Admin
\* row and shows what is stored.
DecPoints == {"dec_read", "dec_add", "dec_approve", "dec_clean", "dec_reject"}
Stored ==
    \A h \in Handlers :
        /\ pc[h] \in DecPoints =>
             req[h] \in Requests /\ status[req[h]] # "free" /\ about[req[h]] = tgt[h]
        /\ pc[h] = "dec_approve" => tgt[h] \in made
        /\ pc[h] = "dec_clean" => status[req[h]] = "approved"
        /\ outcome[h] \in Verdicts =>
             pc[h] = "done" /\ req[h] \in Requests /\ status[req[h]] = outcome[h]

\* While its target gets no new role, what a removal has deleted stays deleted,
\* and whoever an entry set out to demote is not the owner.
Cleared ==
    /\ boot # "up" => Busy = {}
    /\ \A h \in Handlers : ~regrant[h] =>
        /\ pc[h] = "removing" /\ ~broken[h] =>
             /\ "admins" \notin dels[h] => tgt[h] \notin admins
             /\ "roles" \notin dels[h] => sub[tgt[h]] = "none"
        /\ h \in Busy /\ kind[h] = "auto" => ~is_owner(tgt[h])
    /\ \A h \in Handlers : pc[h] = "auto_reread" => kind[h] = "auto"

\* One handler after the other and no failure: the two rows of a user meet only
\* where the handler at work is about to clear the second.
Alone ==
    /\ boot = "up" /\ \A g, h \in Busy : g = h
    /\ \A h \in Handlers : ~broken[h] /\ (dels[h] # {} => pc[h] = "removing")

Paired ==
    \A u \in admins : sub[u] = "none" \/ \E h \in Handlers :
        tgt[h] = u /\ pc[h] \in {"pro_clean", "dec_approve", "dec_clean"}

Transferring(h) ==
    \/ pc[h] \in {"own_check", "own_replace", "own_delete", "own_keep"}
    \/ pc[h] = "removing" /\ kind[h] = "transfer"

Ready(h) ==
    /\ pc[h] \in {"pro_admin", "pro_clean"} => sub[tgt[h]] = "none" \/ seen[h] \in SubRoles
    /\ pc[h] = "pro_sub" => tgt[h] \notin admins /\ ~is_owner(tgt[h])
    /\ pc[h] \in {"dec_add", "dec_approve", "dec_reject"} => status[req[h]] = "pending"
    /\ pc[h] = "removing" /\ "roles" \notin dels[h] => sub[tgt[h]] = "none"
    /\ pc[h] \in {"own_replace", "own_delete"} => sub[tgt[h]] = "none"
    /\ Transferring(h) => sub[who[h]] = "none"

OwnerBare ==
    (\E h \in Handlers : pc[h] = "own_delete") \/ \A u \in Users : is_owner(u) => sub[u] = "none"

Calm == Alone /\ Paired /\ (\A h \in Handlers : Ready(h)) /\ OwnerBare

Sequential == overlap \/ faults < MaxFaults \/ Calm

(***************************************************************************)
(* What the operators do                                                    *)
(***************************************************************************)
\* Whoever a moderation entry sets out to demote is not the owner.
LEMMA OwnerIsRefused ==
    ASSUME NEW e, NEW x, ~refuse_message("ban", classify(e, x))
    PROVE  ~is_owner(x)
BY DEF refuse_message, classify, get_effective_role

\* Nobody without a role has a row, except the owner.
LEMMA RoleIsRow ==
    ASSUME NEW u, get_effective_role(u) \notin SubRoles \cup {"admin"}, ~is_owner(u),
           sub[u] \in {"none"} \cup SubRoles
    PROVE  u \notin admins /\ sub[u] = "none"
BY DEF get_effective_role, SubRoles

\* A grant is noted by every handler at work on its target.
LEMMA GrantedIs ==
    ASSUME NEW u, Granted(u)
    PROVE  /\ DOMAIN regrant' = Handlers
           /\ \A h \in Handlers : regrant'[h] <=> regrant[h] \/ (h \in Busy /\ tgt[h] = u)
BY DEF Granted

LEMMA CrownedIs ==
    ASSUME Crowned
    PROVE  /\ DOMAIN regrant' = Handlers
           /\ \A h \in Handlers : regrant'[h] <=>
                 regrant[h] \/ (h \in Busy /\ ~is_owner(tgt[h]) /\ Lowest(tgt[h], owners'))
BY DEF Crowned

\* How a handler starts.
Launch(h, k, e, x, w, l) ==
    /\ boot = "up" /\ pc[h] = "idle" /\ (overlap' <=> overlap \/ Busy # {})
    /\ kind' = [kind EXCEPT ![h] = k] /\ pc' = [pc EXCEPT ![h] = l]
    /\ who' = [who EXCEPT ![h] = e] /\ tgt' = [tgt EXCEPT ![h] = x]
    /\ want' = [want EXCEPT ![h] = w]
    /\ l = "pro_role" => w \in SubRoles \cup {"admin", "none"}
    /\ l = "own_check" => is_owner(e)
    /\ k = "auto" => ~is_owner(x)
    /\ IF l = "dec_read"
       THEN \E r \in Requests : req' = [req EXCEPT ![h] = r] /\ status[r] # "free" /\ about[r] = x
       ELSE req' = req
    /\ UNCHANGED <<stores, world, seen, removal, outcome, regrant, made, raced>>

Entries == {"pro_role", "req_check", "dec_read", "dem_role", "own_check"}
Launched(h) ==
    \E k \in AllKinds, e \in Users, x \in Users, l \in Entries : \E w : Launch(h, k, e, x, w, l)

LEMMA DispatchIs ==
    ASSUME Shape, NEW h \in Handlers, Dispatch(h)
    PROVE  Launched(h)
<1> USE DEF Start
<1>1. ASSUME NEW e \in Users, NEW x \in Users, NEW r \in SubRoles \cup {"admin", "none"},
             cmd_promote(h, e, x, r) \/ on_promote_role_btn(h, e, x, r)
      PROVE  Launched(h)
    <2>1. \E k \in {"promote", "button"} : Launch(h, k, e, x, r, "pro_role")
        BY <1>1 DEF cmd_promote, on_promote_role_btn, Launch
    <2> QED BY <2>1 DEF Launched, AllKinds, Entries
<1>2. ASSUME NEW e \in Users, cmd_promote_request(h, e) PROVE Launched(h)
    <2>1. Launch(h, "request", e, e, "admin", "req_check")
        BY <1>2 DEF cmd_promote_request, Launch
    <2> QED BY <2>1 DEF Launched, AllKinds, Entries
<1>3. ASSUME NEW e \in Users, NEW r \in Requests, NEW v \in {"approved", "rejected"},
             on_promo_decision(h, e, r, v)
      PROVE  Launched(h)
    <2>1. Launch(h, "decide", e, about[r], v, "dec_read")
        BY <1>3 DEF on_promo_decision, Launch
    <2>2. about[r] \in Users
        BY DEF Shape
    <2> QED BY <2>1, <2>2 DEF Launched, AllKinds, Entries
<1>4. ASSUME NEW e \in Users, NEW x \in Users,
             cmd_demote(h, e, x) \/ on_demote_confirm(h, e, x) \/ StartRedemote(h, e, x)
      PROVE  Launched(h)
    <2>1. \E k \in {"ask", "demote", "redemote"} : Launch(h, k, e, x, "none", "dem_role")
        BY <1>4 DEF cmd_demote, on_demote_confirm, StartRedemote, Launch
    <2> QED BY <2>1 DEF Launched, AllKinds, Entries
<1>5. ASSUME NEW e \in Users, NEW x \in Users, cmd_transfer(h, e, x) PROVE Launched(h)
    <2>1. Launch(h, "transfer", e, x, "founder", "own_check")
        BY <1>5 DEF cmd_transfer, Launch
    <2> QED BY <2>1 DEF Launched, AllKinds, Entries
<1>6. ASSUME NEW e \in Users, NEW x \in Users, StartAuto(h, e, x) PROVE Launched(h)
    <2>1. Launch(h, "auto", e, x, get_effective_role(x), "dem_role")
        BY <1>6, OwnerIsRefused DEF StartAuto, Launch
    <2> QED BY <2>1 DEF Launched, AllKinds, Entries
<1> QED BY <1>1, <1>2, <1>3, <1>4, <1>5, <1>6 DEF Dispatch

LEMMA ShapeInit == Init => Shape
BY UserAssumption, BoundAssumption
DEF Init, Shape, SubRoles, Points, AllKinds

LEMMA ShapeStep ==
    ASSUME Shape, NEW h \in Handlers, Dispatch(h) \/ Step(h)
    PROVE  Shape'
<1> USE BoundAssumption
    DEF Shape, Points, Goto, End, Works, Fault, world, stores, control, removal, history
<1>1. CASE Dispatch(h)
    <2>1. Launched(h)
        BY <1>1, DispatchIs
    <2>2. PICK k \in AllKinds, e \in Users, x \in Users, l \in Entries : \E w : Launch(h, k, e, x, w, l)
        BY <2>1 DEF Launched
    <2> QED BY <2>2 DEF Launch, Entries
<1>2. CASE OfferRoles(h) \/ DemotePrompt(h)
    BY <1>2 DEF OfferRoles, DemotePrompt
<1>3. CASE PromoteRole(h)
    BY <1>3 DEF PromoteRole
<1>4. CASE AssignAdmin(h) \/ AssignCleanup(h)
    BY <1>4, GrantedIs DEF AssignAdmin, AssignCleanup, add_admin, remove_role
<1>5. CASE AssignSubrole(h)
    BY <1>5, GrantedIs DEF AssignSubrole, set_role
<1>6. CASE RequestCheck(h) \/ RequestRead(h) \/ DecisionRead(h)
    BY <1>6 DEF RequestCheck, RequestRead, DecisionRead
<1>7. CASE enqueue(h)
    BY <1>7 DEF enqueue
<1>8. CASE DecisionAdd(h) \/ DecisionCleanup(h)
    BY <1>8, GrantedIs DEF DecisionAdd, DecisionCleanup, add_admin, remove_role
<1>9. CASE DecisionResolve(h)
    BY <1>9 DEF DecisionResolve, resolve
<1>10. CASE DemoteRole(h) \/ redemote_before_fanout(h)
    BY <1>10 DEF DemoteRole, redemote_before_fanout, Remove, Stay
<1>11. ASSUME NEW c \in {"admins", "roles"}, DeleteRow(h, c) PROVE Shape'
    BY <1>11 DEF DeleteRow
<1>12. CASE Removed(h) \/ AutoReread(h) \/ TransferCleared(h)
    BY <1>12 DEF Removed, AutoReread, TransferCleared
<1>13. CASE TransferCheck(h)
    BY <1>13 DEF TransferCheck, Remove, Stay
<1>14. CASE TransferReplace(h) \/ TransferDelete(h)
    BY <1>14, CrownedIs DEF TransferReplace, TransferDelete
<1>15. CASE TransferKeep(h)
    BY <1>15, GrantedIs DEF TransferKeep, add_admin
<1> QED
    BY <1>1, <1>2, <1>3, <1>4, <1>5, <1>6, <1>7, <1>8, <1>9, <1>10, <1>11, <1>12, <1>13, <1>14, <1>15
    DEF Step, Work

LEMMA ShapeNext == Shape /\ [Next]_vars => Shape'
<1> SUFFICES ASSUME Shape, [Next]_vars PROVE Shape'
    OBVIOUS
<1> USE BoundAssumption DEF Shape, world, stores, control, removal, history
<1>1. CASE UNCHANGED vars
    BY <1>1 DEF vars
<1>2. ASSUME NEW h \in Handlers, Dispatch(h) \/ Step(h) PROVE Shape'
    BY <1>2, ShapeStep
<1>3. CASE Crash
    BY <1>3 DEF Crash, Points
<1>4. CASE ensure_initial_owner
    BY <1>4 DEF ensure_initial_owner
<1> QED BY <1>1, <1>2, <1>3, <1>4 DEF Next, Terminated

(***************************************************************************)
(* The owner                                                                *)
(***************************************************************************)
LEMMA OwnedInit == Init => Owned
BY UserAssumption DEF Init, Owned

\* Steps outside set_owner.
LEMMA OwnedKept ==
    ASSUME Shape, Owned, NEW h \in Handlers, pc[h] # "own_delete", UNCHANGED <<owners, raced>>,
           \A g \in Handlers : pc'[g] = "own_delete" => pc[g] = "own_delete",
           \A g \in Handlers \ {h} : tgt'[g] = tgt[g]
    PROVE  Owned'
BY DEF Owned, Shape

LEMMA OwnedStep ==
    ASSUME Shape, Owned, NEW h \in Handlers, Dispatch(h) \/ Step(h)
    PROVE  Owned'
<1> USE DEF Goto, End, stores, control, removal, history
<1>1. CASE Dispatch(h)
    <2>1. PICK k \in AllKinds, e \in Users, x \in Users, l \in Entries : \E w : Launch(h, k, e, x, w, l)
        BY <1>1, DispatchIs DEF Launched
    <2> QED BY <2>1, OwnedKept DEF Launch, Entries, Shape
<1>2. CASE TransferReplace(h)
    <2>1. CASE UNCHANGED <<owners, raced>> /\ pc' = [pc EXCEPT ![h] = "done"]
        BY <1>2, <2>1, OwnedKept DEF TransferReplace, Shape
    <2>2. CASE /\ tgt[h] \in owners' /\ pc' = [pc EXCEPT ![h] = "own_delete"]
               /\ (raced' <=> raced \/ \E g \in Handlers : pc[g] = "own_delete")
        BY <1>2, <2>2 DEF TransferReplace, Owned, Shape
    <2> QED BY <1>2, <2>1, <2>2 DEF TransferReplace
<1>3. CASE TransferDelete(h)
    BY <1>3 DEF TransferDelete, Owned, Shape
<1>4. CASE /\ ~TransferReplace(h) /\ ~TransferDelete(h) /\ Step(h)
    <2> USE <1>4
    <2>1. CASE OfferRoles(h) \/ DemotePrompt(h) \/ PromoteRole(h)
        BY <2>1, OwnedKept DEF OfferRoles, DemotePrompt, PromoteRole, Shape
    <2>2. CASE AssignAdmin(h) \/ AssignCleanup(h) \/ AssignSubrole(h)
        BY <2>2, OwnedKept DEF AssignAdmin, AssignCleanup, AssignSubrole, add_admin, remove_role, set_role, Shape
    <2>3. CASE RequestCheck(h) \/ RequestRead(h) \/ enqueue(h) \/ DecisionRead(h)
        BY <2>3, OwnedKept DEF RequestCheck, RequestRead, enqueue, DecisionRead, Shape
    <2>4. CASE DecisionAdd(h) \/ DecisionResolve(h) \/ DecisionCleanup(h)
        BY <2>4, OwnedKept DEF DecisionAdd, DecisionResolve, DecisionCleanup, add_admin, resolve, remove_role, Shape
    <2>5. CASE DemoteRole(h) \/ redemote_before_fanout(h) \/ TransferCheck(h)
        BY <2>5, OwnedKept DEF DemoteRole, redemote_before_fanout, TransferCheck, Remove, Stay, Shape
    <2>6. ASSUME NEW c \in {"admins", "roles"}, DeleteRow(h, c) PROVE Owned'
        BY <2>6 DEF DeleteRow, Owned
    <2>7. CASE Removed(h) \/ AutoReread(h) \/ TransferCleared(h) \/ TransferKeep(h)
        BY <2>7, OwnedKept DEF Removed, AutoReread, TransferCleared, TransferKeep, add_admin, Shape
    <2> QED BY <2>1, <2>2, <2>3, <2>4, <2>5, <2>6, <2>7 DEF Step, Work
<1> QED BY <1>1, <1>2, <1>3, <1>4

LEMMA OwnedNext == Shape /\ Owned /\ [Next]_vars => Owned'
<1> SUFFICES ASSUME Shape, Owned, [Next]_vars PROVE Owned'
    OBVIOUS
<1> USE DEF Owned, stores, control, history
<1>1. CASE UNCHANGED vars
    BY <1>1 DEF vars
<1>2. ASSUME NEW h \in Handlers, Dispatch(h) \/ Step(h) PROVE Owned'
    BY <1>2, OwnedStep
<1>3. CASE Crash
    BY <1>3 DEF Crash, Busy, Shape
<1>4. CASE ensure_initial_owner
    BY <1>4 DEF ensure_initial_owner
<1> QED BY <1>1, <1>2, <1>3, <1>4 DEF Next, Terminated

\* The federation keeps an owner row through every crash, failed delete and
\* left-over row, unless two set_owner calls overlap (users_roles.set_owner).
THEOREM OwnerStays == Spec => []OwnerNeverVanishes
<1>1. Spec => [](Shape /\ Owned)
    BY ShapeInit, ShapeNext, OwnedInit, OwnedNext, PTL DEF Spec
<1>2. Owned => OwnerNeverVanishes
    BY DEF Owned, OwnerNeverVanishes
<1> QED BY <1>1, <1>2, PTL

(***************************************************************************)
(* The queue                                                                *)
(***************************************************************************)
LEMMA StoredInit == Init => Stored
BY DEF Init, Stored, DecPoints, Verdicts

\* Steps that decide nothing: a request may be filed, rows written.
Undecided(h) ==
    /\ pc[h] # "done" \/ UNCHANGED <<pc, outcome>>
    /\ \A g \in Handlers \ {h} : pc'[g] = pc[g] /\ outcome'[g] = outcome[g]
    /\ outcome'[h] = outcome[h] \/ outcome'[h] \notin Verdicts
    /\ pc'[h] = pc[h] \/ pc'[h] \notin DecPoints
    /\ made \subseteq made'
    /\ \A r \in Requests : status[r] = "free" => status'[r] \in {"free", "pending"}
    /\ \A r \in Requests : status[r] # "free" => status'[r] = status[r] /\ about'[r] = about[r]

LEMMA StoredKept ==
    ASSUME Shape, Stored, NEW h \in Handlers, Undecided(h), UNCHANGED <<tgt, req>>
    PROVE  Stored'
BY DEF Stored, Undecided, Shape, DecPoints, Verdicts

\* Which steps those are.
LEMMA UndecidedSteps ==
    ASSUME Shape, NEW h \in Handlers, Step(h),
           ~DecisionRead(h), ~DecisionAdd(h), ~DecisionResolve(h), ~DecisionCleanup(h)
    PROVE  Undecided(h) /\ UNCHANGED <<tgt, req>>
<1> USE DEF Undecided, Shape, DecPoints, Verdicts, Goto, End, stores, control, removal, history
<1>1. CASE OfferRoles(h) \/ DemotePrompt(h) \/ PromoteRole(h)
    BY <1>1 DEF OfferRoles, DemotePrompt, PromoteRole
<1>2. CASE AssignAdmin(h) \/ AssignCleanup(h) \/ AssignSubrole(h)
    BY <1>2 DEF AssignAdmin, AssignCleanup, AssignSubrole, add_admin, remove_role, set_role
<1>3. CASE RequestCheck(h) \/ RequestRead(h)
    BY <1>3 DEF RequestCheck, RequestRead
<1>4. CASE enqueue(h)
    BY <1>4 DEF enqueue
<1>5. CASE DemoteRole(h) \/ redemote_before_fanout(h) \/ TransferCheck(h)
    BY <1>5 DEF DemoteRole, redemote_before_fanout, TransferCheck, Remove, Stay
<1>6. ASSUME NEW c \in {"admins", "roles"}, DeleteRow(h, c)
      PROVE  Undecided(h) /\ UNCHANGED <<tgt, req>>
    BY <1>6 DEF DeleteRow
<1>7. CASE Removed(h) \/ AutoReread(h) \/ TransferCleared(h)
    BY <1>7 DEF Removed, AutoReread, TransferCleared
<1>8. CASE TransferReplace(h) \/ TransferDelete(h) \/ TransferKeep(h)
    BY <1>8 DEF TransferReplace, TransferDelete, TransferKeep, add_admin
<1> QED BY <1>1, <1>2, <1>3, <1>4, <1>5, <1>6, <1>7, <1>8 DEF Step, Work

LEMMA StoredStep ==
    ASSUME Shape, Stored, NEW h \in Handlers, Dispatch(h) \/ Step(h)
    PROVE  Stored'
<1> USE DEF Goto, End, stores, control, removal, history
<1>1. CASE Dispatch(h)
    <2>1. PICK k \in AllKinds, e \in Users, x \in Users, l \in Entries : \E w : Launch(h, k, e, x, w, l)
        BY <1>1, DispatchIs DEF Launched
    <2> QED BY <2>1 DEF Launch, Entries, Shape, Stored, DecPoints, Verdicts
<1>2. CASE DecisionRead(h)
    BY <1>2 DEF DecisionRead, Stored, Shape, DecPoints, Verdicts
<1>3. CASE DecisionAdd(h)
    BY <1>3 DEF DecisionAdd, add_admin, Stored, Shape, DecPoints, Verdicts
<1>4. CASE DecisionResolve(h)
    BY <1>4 DEF DecisionResolve, resolve, Stored, Shape, DecPoints, Verdicts
<1>5. CASE DecisionCleanup(h)
    BY <1>5 DEF DecisionCleanup, remove_role, Stored, Shape, DecPoints, Verdicts
<1> QED BY <1>1, <1>2, <1>3, <1>4, <1>5, UndecidedSteps, StoredKept

LEMMA StoredNext == Shape /\ Stored /\ [Next]_vars => Stored'
<1> SUFFICES ASSUME Shape, Stored, [Next]_vars PROVE Stored'
    OBVIOUS
<1> USE DEF Stored, stores, control, history
<1>1. CASE UNCHANGED vars
    BY <1>1 DEF vars
<1>2. ASSUME NEW h \in Handlers, Dispatch(h) \/ Step(h) PROVE Stored'
    BY <1>2, StoredStep
<1>3. CASE Crash
    BY <1>3 DEF Crash, Busy, Shape, DecPoints, Verdicts
<1>4. CASE ensure_initial_owner
    BY <1>4 DEF ensure_initial_owner
<1> QED BY <1>1, <1>2, <1>3, <1>4 DEF Next, Terminated

\* What leaves the three parts of the mapping alone, or only adds to the third.
LEMMA SameShown ==
    ASSUME \A g \in Handlers : \/ req'[g] = req[g] /\ outcome'[g] = outcome[g]
                               \/ outcome[g] \notin Verdicts /\ outcome'[g] \notin Verdicts
    PROVE  Shown' = Shown
<1>1. ASSUME NEW r \in Requests
      PROVE  {outcome'[h] : h \in {g \in Handlers : req'[g] = r}} \cap Verdicts
             = {outcome[h] : h \in {g \in Handlers : req[g] = r}} \cap Verdicts
    OBVIOUS
<1> QED BY <1>1 DEF Shown

LEMMA SameChosen ==
    ASSUME \A r \in Requests : status[r] \in Verdicts \/ status'[r] \in Verdicts => status'[r] = status[r]
    PROVE  Chosen' = Chosen
BY DEF Chosen

LEMMA MoreEarned ==
    ASSUME made \subseteq made',
           \A r \in Requests : status[r] # "free" => status'[r] # "free" /\ about'[r] = about[r]
    PROVE  Earned \subseteq Earned' /\ Earned' \in SUBSET Requests
BY DEF Earned

\* Steps that decide nothing bring about effects at most.
LEMMA UndecidedEarns ==
    ASSUME Shape, Stored, NEW h \in Handlers, Undecided(h),
           \A g \in Handlers : req'[g] = req[g] \/ pc[g] = "idle"
    PROVE  Queue!Earn
<1>1. Shown' = Shown
    <2>1. \A g \in Handlers : \/ req'[g] = req[g] /\ outcome'[g] = outcome[g]
                              \/ outcome[g] \notin Verdicts /\ outcome'[g] \notin Verdicts
        BY DEF Undecided, Stored
    <2> QED BY <2>1, SameShown
<1>2. Chosen' = Chosen
    BY SameChosen DEF Undecided, Shape, Verdicts
<1>3. Earned \subseteq Earned' /\ Earned' \in SUBSET Requests
    BY MoreEarned DEF Undecided, Shape
<1> QED BY <1>1, <1>2, <1>3 DEF Queue!Earn

LEMMA QueueInit == Init => Queue!Init
<1> SUFFICES ASSUME Init PROVE Queue!Init
    OBVIOUS
<1>1. Chosen = [r \in Requests |-> "open"]
    BY DEF Init, Chosen, Verdicts
<1>2. \A r \in Requests : {outcome[h] : h \in {g \in Handlers : req[g] = r}} \cap Verdicts = {}
    BY DEF Init, Verdicts
<1>3. Shown = [r \in Requests |-> {}]
    BY <1>2 DEF Shown
<1> QED BY <1>1, <1>3 DEF Queue!Init, Earned

\* Only the winner of resolve decides, on a row whose effect is there, and only
\* what is stored is shown.
LEMMA ResolveDecides ==
    ASSUME Shape, Stored, NEW h \in Handlers, DecisionResolve(h)
    PROVE  [Queue!Next]_<<Chosen, Shown, Earned>>
<1> USE DEF Goto, End, stores, control, history
<1>1. CASE status' = status
    <2>1. Shown' = Shown
        <3>1. \A g \in Handlers : \/ req'[g] = req[g] /\ outcome'[g] = outcome[g]
                                  \/ outcome[g] \notin Verdicts /\ outcome'[g] \notin Verdicts
            BY <1>1 DEF DecisionResolve, resolve, Stored, Shape, Verdicts, DecPoints
        <3> QED BY <3>1, SameShown
    <2>2. Chosen' = Chosen /\ Earned' = Earned
        BY <1>1 DEF DecisionResolve, resolve, Chosen, Earned
    <2> QED BY <2>1, <2>2
<1>2. CASE status' # status
    <2> DEFINE r == req[h]
               v == status'[r]
    <2>1. /\ r \in Requests /\ status[r] = "pending" /\ v \in Verdicts
          /\ status' = [status EXCEPT ![r] = v] /\ UNCHANGED <<about, made, req>>
          /\ v = "approved" => tgt[h] \in made /\ outcome' = outcome
          /\ v = "rejected" => outcome' = [outcome EXCEPT ![h] = "rejected"]
        BY <1>2 DEF DecisionResolve, resolve, Stored, Shape, Verdicts, DecPoints
    <2> HIDE DEF v
    <2>2. Chosen[r] = "open" /\ Chosen' = [Chosen EXCEPT ![r] = v]
        BY <2>1 DEF Chosen, Verdicts, Shape
    <2>3. Earned' = Earned /\ (v = "approved" => r \in Earned)
        BY <2>1 DEF Earned, Shape, Stored, DecPoints, DecisionResolve, Verdicts
    <2>4. Shown' \in {Shown, [Shown EXCEPT ![r] = {v}]}
        <3>1. CASE v = "approved"
            <4>1. Shown' = Shown
                BY <2>1, <3>1, SameShown
            <4> QED BY <4>1
        <3>2. CASE v = "rejected"
            <4>1. \A g \in Handlers : req[g] = r => outcome[g] \notin Verdicts
                BY <2>1 DEF Stored, Verdicts
            <4>2. ASSUME NEW q \in Requests
                  PROVE  {outcome'[f] : f \in {g \in Handlers : req'[g] = q}} \cap Verdicts
                         = IF q = r THEN {v}
                           ELSE {outcome[f] : f \in {g \in Handlers : req[g] = q}} \cap Verdicts
                BY <2>1, <3>2, <4>1 DEF Shape, Verdicts
            <4>3. Shown' = [Shown EXCEPT ![r] = {v}]
                BY <2>1, <4>2 DEF Shown
            <4> QED BY <4>3
        <3> QED BY <2>1, <3>1, <3>2 DEF Verdicts
    <2>5. Queue!Decide(r, v)
        BY <2>2, <2>3, <2>4 DEF Queue!Decide
    <2> QED BY <2>1, <2>5 DEF Queue!Next
<1> QED BY <1>1, <1>2

LEMMA CleanupShows ==
    ASSUME Shape, Stored, NEW h \in Handlers, DecisionCleanup(h)
    PROVE  Queue!Next
<1> DEFINE r == req[h]
<1>1. /\ r \in Requests /\ status[r] = "approved"
      /\ UNCHANGED <<status, about, made, req>> /\ outcome' = [outcome EXCEPT ![h] = "approved"]
    BY DEF DecisionCleanup, End, remove_role, stores, control, history, Stored, DecPoints
<1>2. Chosen[r] = "approved" /\ Chosen' = Chosen /\ Earned' = Earned
    BY <1>1 DEF Chosen, Earned, Verdicts
<1>3. ASSUME NEW q \in Requests
      PROVE  {outcome'[f] : f \in {g \in Handlers : req'[g] = q}} \cap Verdicts
             = ({outcome[f] : f \in {g \in Handlers : req[g] = q}} \cap Verdicts)
               \cup (IF q = r THEN {"approved"} ELSE {})
    BY <1>1 DEF Shape, Verdicts, Stored, DecisionCleanup
<1>4. Shown' = [Shown EXCEPT ![r] = @ \cup {"approved"}]
    BY <1>1, <1>3 DEF Shown
<1>5. Queue!Show(r)
    BY <1>2, <1>4 DEF Queue!Show
<1> QED BY <1>1, <1>5 DEF Queue!Next

LEMMA QueueNext ==
    Shape /\ Stored /\ [Next]_vars => [Queue!Next]_<<Chosen, Shown, Earned>>
<1> SUFFICES ASSUME Shape, Stored, [Next]_vars PROVE [Queue!Next]_<<Chosen, Shown, Earned>>
    OBVIOUS
<1> USE DEF stores, control, history
<1>1. CASE UNCHANGED vars
    BY <1>1 DEF vars, Chosen, Shown, Earned
<1>2. ASSUME NEW h \in Handlers, Dispatch(h) PROVE Queue!Next
    <2>1. PICK k \in AllKinds, e \in Users, x \in Users, l \in Entries : \E w : Launch(h, k, e, x, w, l)
        BY <1>2, DispatchIs DEF Launched
    <2>2. Chosen' = Chosen /\ Earned' = Earned
        BY <2>1 DEF Launch, Chosen, Earned
    <2>3. \A g \in Handlers : \/ req'[g] = req[g] /\ outcome'[g] = outcome[g]
                              \/ outcome[g] \notin Verdicts /\ outcome'[g] \notin Verdicts
        BY <2>1 DEF Launch, Shape, Stored
    <2>4. Shown' = Shown
        BY <2>3, SameShown
    <2> QED BY <2>2, <2>4 DEF Queue!Next, Queue!Earn, Earned
<1>3. ASSUME NEW h \in Handlers, DecisionRead(h) \/ DecisionAdd(h)
      PROVE  Queue!Next
    <2>1. \A g \in Handlers : \/ req'[g] = req[g] /\ outcome'[g] = outcome[g]
                              \/ outcome[g] \notin Verdicts /\ outcome'[g] \notin Verdicts
        BY <1>3 DEF DecisionRead, DecisionAdd, add_admin, Goto, End, Shape, Stored, Verdicts
    <2>2. made \subseteq made' /\ UNCHANGED <<status, about>>
        BY <1>3 DEF DecisionRead, DecisionAdd, add_admin
    <2>3. Shown' = Shown
        BY <2>1, SameShown
    <2>4. Chosen' = Chosen /\ Earned \subseteq Earned' /\ Earned' \in SUBSET Requests
        BY <2>2 DEF Chosen, Earned
    <2> QED BY <2>3, <2>4 DEF Queue!Next, Queue!Earn
<1>4. ASSUME NEW h \in Handlers, Step(h),
             ~DecisionRead(h), ~DecisionAdd(h), ~DecisionResolve(h), ~DecisionCleanup(h)
      PROVE  Queue!Next
    BY <1>4, UndecidedSteps, UndecidedEarns DEF Queue!Next
<1>5. CASE Crash
    <2>1. \A g \in Handlers : \/ req'[g] = req[g] /\ outcome'[g] = outcome[g]
                              \/ outcome[g] \notin Verdicts /\ outcome'[g] \notin Verdicts
        BY <1>5 DEF Crash, Busy, Shape, Stored, Verdicts
    <2>2. Shown' = Shown
        BY <2>1, SameShown
    <2> QED BY <1>5, <2>2 DEF Crash, Chosen, Earned
<1>6. CASE ensure_initial_owner
    BY <1>6 DEF ensure_initial_owner, Chosen, Shown, Earned
<1> QED
    BY <1>1, <1>2, <1>3, <1>4, <1>5, <1>6, ResolveDecides, CleanupShows DEF Next, Terminated

\* The queue of promotion requests implements Decision: one final verdict per
\* request, no card that shows another, no approval before the Admin row
\* (on_promo_decision, queues_db.resolve).
THEOREM QueueImplementsDecision == Spec => QueueDecides
<1>1. Spec => [](Shape /\ Stored)
    BY ShapeInit, ShapeNext, StoredInit, StoredNext, PTL DEF Spec
<1> QED BY <1>1, QueueInit, QueueNext, PTL DEF Spec, QueueDecides, Queue!Spec

(***************************************************************************)
(* Demotion                                                                 *)
(***************************************************************************)
LEMMA ClearedInit == Init => Cleared
BY DEF Init, Cleared, Busy

\* Steps that grant nothing and leave the owner alone; h itself enters no
\* removal and no second look.
LEMMA ClearedKept ==
    ASSUME Shape, Cleared, NEW h \in Handlers, boot' = boot, pc[h] \notin {"idle", "done"},
           UNCHANGED <<owners, kind, tgt>>, admins' \subseteq admins,
           \A u \in Users : sub'[u] \in {sub[u], "none"},
           \A g \in Handlers \ {h} : pc'[g] = pc[g] /\ dels'[g] = dels[g] /\ broken'[g] = broken[g],
           \A g \in Handlers : regrant[g] => regrant'[g],
           pc'[h] \notin {"removing", "auto_reread"}
    PROVE  Cleared'
BY DEF Cleared, Shape, Busy, is_owner, Lowest

\* The same for the steps that grant a role to u.
LEMMA GrantKept ==
    ASSUME Shape, Cleared, NEW h \in Handlers, NEW u \in Users, Granted(u), boot' = boot,
           UNCHANGED <<owners, kind, tgt, dels, broken>>, pc[h] \notin {"idle", "done", "removing"},
           admins' \subseteq admins \cup {u},
           \A x \in Users \ {u} : sub'[x] = sub[x],
           \E l \in Points \ {"removing", "auto_reread"} : pc' = [pc EXCEPT ![h] = l]
    PROVE  Cleared'
<1>1. \A g \in Handlers : regrant'[g] <=> regrant[g] \/ (g \in Busy /\ tgt[g] = u)
    BY GrantedIs
<1>2. \A g \in Handlers : pc'[g] = "removing" => g # h /\ pc[g] = "removing" /\ g \in Busy
    BY DEF Shape, Busy
<1>3. \A g \in Busy' : g \in Busy
    BY DEF Shape, Busy
<1> QED BY <1>1, <1>2, <1>3 DEF Cleared, Shape, Busy, is_owner, Lowest

LEMMA ClearedStep ==
    ASSUME Shape, Cleared, NEW h \in Handlers, Dispatch(h) \/ Step(h)
    PROVE  Cleared'
<1> USE DEF Goto, End, Works, Fault, world, stores, control, removal, history
<1>1. CASE Dispatch(h)
    <2>1. PICK k \in AllKinds, e \in Users, x \in Users, l \in Entries : \E w : Launch(h, k, e, x, w, l)
        BY <1>1, DispatchIs DEF Launched
    <2> QED BY <2>1 DEF Launch, Entries, Shape, Cleared, Busy, is_owner
<1>2. CASE OfferRoles(h) \/ DemotePrompt(h) \/ PromoteRole(h)
    BY <1>2, ClearedKept DEF OfferRoles, DemotePrompt, PromoteRole, Shape
<1>3. CASE AssignAdmin(h)
    BY <1>3, ClearedKept, GrantKept DEF AssignAdmin, add_admin, Shape, Points
<1>4. CASE AssignCleanup(h) \/ DecisionCleanup(h)
    BY <1>4, ClearedKept DEF AssignCleanup, DecisionCleanup, remove_role, Shape
<1>5. CASE AssignSubrole(h)
    BY <1>5, ClearedKept, GrantKept DEF AssignSubrole, set_role, Shape, Points
<1>6. CASE RequestCheck(h) \/ RequestRead(h) \/ enqueue(h) \/ DecisionRead(h)
    BY <1>6, ClearedKept DEF RequestCheck, RequestRead, enqueue, DecisionRead, Shape
<1>7. CASE DecisionAdd(h)
    BY <1>7, ClearedKept, GrantKept DEF DecisionAdd, add_admin, Shape, Points
<1>8. CASE DecisionResolve(h)
    BY <1>8, ClearedKept DEF DecisionResolve, resolve, Shape
<1>9. CASE DemoteRole(h) \/ redemote_before_fanout(h) \/ TransferCheck(h)
    BY <1>9 DEF DemoteRole, redemote_before_fanout, TransferCheck, Remove, Stay,
                Cleared, Shape, Busy, is_owner, Lowest
<1>10. ASSUME NEW c \in {"admins", "roles"}, DeleteRow(h, c) PROVE Cleared'
    BY <1>10 DEF DeleteRow, Cleared, Shape, Busy, is_owner, Lowest
<1>11. CASE Removed(h)
    BY <1>11 DEF Removed, Cleared, Shape, Busy, is_owner, Lowest
<1>12. CASE AutoReread(h) \/ TransferCleared(h)
    BY <1>12, ClearedKept DEF AutoReread, TransferCleared, Shape
<1>13. CASE TransferReplace(h) \/ TransferDelete(h)
    BY <1>13, CrownedIs DEF TransferReplace, TransferDelete, Cleared, Shape, Busy, is_owner
<1>14. CASE TransferKeep(h)
    BY <1>14, ClearedKept, GrantKept DEF TransferKeep, add_admin, Shape, Points
<1> QED
    BY <1>1, <1>2, <1>3, <1>4, <1>5, <1>6, <1>7, <1>8, <1>9, <1>10, <1>11, <1>12, <1>13, <1>14
    DEF Step, Work

LEMMA ClearedNext == Shape /\ Cleared /\ [Next]_vars => Cleared'
<1> SUFFICES ASSUME Shape, Cleared, [Next]_vars PROVE Cleared'
    OBVIOUS
<1> USE DEF Cleared, stores, control, history, removal, world, Busy, is_owner, Lowest
<1>1. CASE UNCHANGED vars
    BY <1>1 DEF vars
<1>2. ASSUME NEW h \in Handlers, Dispatch(h) \/ Step(h) PROVE Cleared'
    BY <1>2, ClearedStep
<1>3. CASE Crash
    BY <1>3 DEF Crash, Shape
<1>4. CASE ensure_initial_owner
    BY <1>4 DEF ensure_initial_owner, Shape
<1> QED BY <1>1, <1>2, <1>3, <1>4 DEF Next, Terminated

\* A demotion reports success, and an entry proceeds, in these two steps.
Success == {"demoted", "proceed", "redemoted"}
LEMMA SuccessIs ==
    ASSUME Shape, NEW h \in Handlers, Next, outcome[h] = "none", outcome'[h] \in Success
    PROVE  Removed(h) \/ AutoReread(h)
<1> USE DEF Success
<1>1. ASSUME NEW g \in Handlers, Dispatch(g) PROVE FALSE
    <2>1. PICK k \in AllKinds, e \in Users, x \in Users, l \in Entries : \E w : Launch(g, k, e, x, w, l)
        BY <1>1, DispatchIs DEF Launched
    <2> QED BY <2>1 DEF Launch
<1>2. ASSUME NEW g \in Handlers, Step(g), ~Removed(g), ~AutoReread(g) PROVE FALSE
    <2> USE <1>2 DEF Goto, End, Shape
    <2>1. CASE OfferRoles(g) \/ DemotePrompt(g) \/ PromoteRole(g)
        BY <2>1 DEF OfferRoles, DemotePrompt, PromoteRole
    <2>2. CASE AssignAdmin(g) \/ AssignCleanup(g) \/ AssignSubrole(g)
        BY <2>2 DEF AssignAdmin, AssignCleanup, AssignSubrole
    <2>3. CASE RequestCheck(g) \/ RequestRead(g) \/ enqueue(g)
        BY <2>3 DEF RequestCheck, RequestRead, enqueue
    <2>4. CASE DecisionRead(g) \/ DecisionAdd(g) \/ DecisionResolve(g) \/ DecisionCleanup(g)
        BY <2>4 DEF DecisionRead, DecisionAdd, DecisionResolve, DecisionCleanup, resolve
    <2>5. CASE DemoteRole(g) \/ redemote_before_fanout(g) \/ TransferCheck(g)
        BY <2>5 DEF DemoteRole, redemote_before_fanout, TransferCheck, Remove, Stay
    <2>6. ASSUME NEW c \in {"admins", "roles"}, DeleteRow(g, c) PROVE FALSE
        BY <2>6 DEF DeleteRow
    <2>7. CASE TransferCleared(g) \/ TransferReplace(g) \/ TransferDelete(g) \/ TransferKeep(g)
        BY <2>7 DEF TransferCleared, TransferReplace, TransferDelete, TransferKeep
    <2> QED BY <2>1, <2>2, <2>3, <2>4, <2>5, <2>6, <2>7 DEF Step, Work
<1>3. ASSUME NEW g \in Handlers, Removed(g) \/ AutoReread(g) PROVE g = h
    BY <1>3 DEF Removed, AutoReread, Goto, End, Shape
<1>4. ~Crash /\ ~ensure_initial_owner /\ ~Terminated
    BY DEF Crash, ensure_initial_owner, Terminated, vars, Shape
<1> QED BY <1>1, <1>2, <1>3, <1>4 DEF Next

\* A demotion that is reported done, and an auto-demotion that lets a ban, kick
\* or mute proceed, leaves no row of the target, unless a role was granted
\* meanwhile (Demote.remove_role, auto_demote_or_abort).
THEOREM DemotionsAreComplete == Spec => DemotionIsComplete
<1>1. Spec => [](Shape /\ Cleared)
    BY ShapeInit, ShapeNext, ClearedInit, ClearedNext, PTL DEF Spec
<1>2. Shape /\ Cleared /\ [Next]_vars =>
        [\A h \in Handlers :
           (outcome[h] = "none" /\ outcome'[h] \in {"demoted", "proceed", "redemoted"} /\ ~regrant[h])
           => tgt[h] \notin admins' /\ sub'[tgt[h]] = "none"]_vars
    <2> SUFFICES ASSUME Shape, Cleared, Next, NEW h \in Handlers, outcome[h] = "none",
                        outcome'[h] \in Success, ~regrant[h]
                 PROVE  tgt[h] \notin admins' /\ sub'[tgt[h]] = "none"
        BY DEF Success
    <2>1. CASE Removed(h)
        BY <2>1 DEF Removed, Goto, End, Success, Cleared, Shape, stores
    <2>2. CASE AutoReread(h)
        <3>1. UNCHANGED <<admins, sub>> /\ get_effective_role(tgt[h]) \notin SubRoles \cup {"admin"}
            BY <2>2 DEF AutoReread, End, Success, Shape, stores
        <3>2. ~is_owner(tgt[h]) /\ sub[tgt[h]] \in {"none"} \cup SubRoles
            BY <2>2 DEF AutoReread, Cleared, Shape, Busy
        <3> QED BY <3>1, <3>2, RoleIsRow
    <2> QED BY <2>1, <2>2, SuccessIs
<1> QED BY <1>1, <1>2, PTL DEF Spec, DemotionIsComplete

(***************************************************************************)
(* One handler after the other                                              *)
(***************************************************************************)
LEMMA SequentialInit == Init => Sequential
<1> SUFFICES ASSUME Init PROVE Calm
    BY DEF Sequential
<1>1. Alone
    BY DEF Init, Alone, Busy
<1>2. Paired /\ OwnerBare
    BY DEF Init, Paired, OwnerBare, is_owner, Lowest
<1>3. \A h \in Handlers : Ready(h)
    BY DEF Init, Ready, Transferring
<1> QED BY <1>1, <1>2, <1>3 DEF Calm

\* Faults are only used up, and an overlap is remembered.
LEMMA Worsens ==
    ASSUME Shape, [Next]_vars
    PROVE  (overlap => overlap') /\ faults' <= faults
<1> DEFINE Worse == (overlap => overlap') /\ faults' <= faults
<1>0. faults \in Nat
    BY BoundAssumption DEF Shape
<1> USE <1>0 DEF Works, Fault, world, history, add_admin, remove_role, set_role, resolve
<1>1. CASE UNCHANGED vars
    BY <1>1 DEF vars
<1>2. ASSUME NEW h \in Handlers, Dispatch(h) PROVE Worse
    <2>1. PICK k \in AllKinds, e \in Users, x \in Users, l \in Entries : \E w : Launch(h, k, e, x, w, l)
        BY <1>2, DispatchIs DEF Launched
    <2> QED BY <2>1 DEF Launch
<1>3. ASSUME NEW h \in Handlers, Step(h) PROVE Worse
    <2>1. CASE OfferRoles(h) \/ DemotePrompt(h) \/ PromoteRole(h)
        BY <2>1 DEF OfferRoles, DemotePrompt, PromoteRole
    <2>2. CASE AssignAdmin(h) \/ AssignCleanup(h) \/ AssignSubrole(h)
        BY <2>2 DEF AssignAdmin, AssignCleanup, AssignSubrole
    <2>3. CASE RequestCheck(h) \/ RequestRead(h) \/ enqueue(h) \/ DecisionRead(h)
        BY <2>3 DEF RequestCheck, RequestRead, enqueue, DecisionRead
    <2>4. CASE DecisionAdd(h) \/ DecisionResolve(h) \/ DecisionCleanup(h)
        BY <2>4 DEF DecisionAdd, DecisionResolve, DecisionCleanup
    <2>5. CASE DemoteRole(h) \/ redemote_before_fanout(h) \/ TransferCheck(h)
        BY <2>5 DEF DemoteRole, redemote_before_fanout, TransferCheck
    <2>6. ASSUME NEW c \in {"admins", "roles"}, DeleteRow(h, c)
          PROVE  Worse
        BY <2>6 DEF DeleteRow
    <2>7. CASE Removed(h) \/ AutoReread(h) \/ TransferCleared(h)
        BY <2>7 DEF Removed, AutoReread, TransferCleared
    <2>8. CASE TransferReplace(h) \/ TransferDelete(h) \/ TransferKeep(h)
        BY <2>8 DEF TransferReplace, TransferDelete, TransferKeep
    <2> QED BY <1>3, <2>1, <2>2, <2>3, <2>4, <2>5, <2>6, <2>7, <2>8 DEF Step, Work
<1>4. CASE Crash \/ ensure_initial_owner
    BY <1>4 DEF Crash, ensure_initial_owner
<1> QED BY <1>1, <1>2, <1>3, <1>4 DEF Next, Terminated

\* A handler starts when no other is at work.
LEMMA CalmStart ==
    ASSUME Shape, Calm, Busy = {}, NEW h \in Handlers, Launched(h)
    PROVE  Calm'
<1>1. PICK k \in AllKinds, e \in Users, x \in Users, l \in Entries : \E w : Launch(h, k, e, x, w, l)
    BY DEF Launched
<1> USE DEF Launch, stores, removal, world
<1>2. \A g \in Handlers : pc[g] \in {"idle", "done"} /\ (g # h => pc'[g] = pc[g])
    BY <1>1 DEF Busy, Shape
<1>3. pc'[h] = l /\ who'[h] = e /\ kind'[h] = k /\ UNCHANGED <<owners, admins, sub, dels, broken, boot>>
    BY <1>1 DEF Shape
<1>4. Alone'
    BY <1>2, <1>3 DEF Alone, Busy, Calm
<1>5. Paired'
    BY <1>2, <1>3 DEF Paired, Calm
<1>6. ASSUME NEW g \in Handlers PROVE Ready(g)'
    <2>1. CASE g # h
        BY <2>1, <1>2 DEF Ready, Transferring
    <2>2. CASE g = h
        <3>1. l = "own_check" => sub[e] = "none"
            BY <1>1, <1>2 DEF Calm, OwnerBare
        <3> QED BY <2>2, <1>3, <3>1 DEF Ready, Transferring, Entries
    <2> QED BY <2>1, <2>2
<1>7. OwnerBare'
    BY <1>2, <1>3 DEF OwnerBare, Calm, is_owner
<1> QED BY <1>4, <1>5, <1>6, <1>7 DEF Calm

\* The handler at work moves on and the others rest.
Moves(h) ==
    /\ pc[h] \notin {"idle", "done"} /\ boot' = boot
    /\ \A g \in Handlers \ {h} : pc'[g] = pc[g] /\ dels'[g] = dels[g] /\ broken'[g] = broken[g]
    /\ ~broken'[h] /\ (dels'[h] # {} => pc'[h] = "removing")

LEMMA CalmMove ==
    ASSUME Shape, Calm, NEW h \in Handlers, Moves(h), Ready(h)', Paired', OwnerBare'
    PROVE  Calm'
<1>1. \A g \in Handlers \ {h} : pc[g] \in {"idle", "done"} /\ pc'[g] = pc[g]
    BY DEF Calm, Alone, Moves, Busy
<1>2. Alone'
    BY <1>1 DEF Calm, Alone, Moves, Busy
<1>3. \A g \in Handlers : Ready(g)'
    BY <1>1 DEF Ready, Transferring
<1> QED BY <1>2, <1>3 DEF Calm

\* Steps that leave the rows alone.
LEMMA CalmRead ==
    ASSUME Shape, Calm, NEW h \in Handlers, Moves(h), Ready(h)',
           UNCHANGED <<owners, admins, sub, tgt>>,
           pc[h] \notin {"pro_clean", "dec_clean", "own_delete"},
           pc[h] = "dec_approve" => pc'[h] = "dec_clean"
    PROVE  Calm'
<1>1. Paired'
    BY DEF Calm, Paired, Moves
<1>2. OwnerBare'
    BY DEF Calm, OwnerBare, Moves, is_owner
<1> QED BY <1>1, <1>2, CalmMove

LEMMA CalmStep ==
    ASSUME Shape, Calm, NEW h \in Handlers, Step(h), faults' = faults
    PROVE  Calm'
<1> USE DEF Goto, End, Works, world, stores, control, removal, history
<1>0. faults \in Nat /\ faults # faults - 1 /\ ~Fault
    BY BoundAssumption DEF Shape, Fault
<1>a. sub[tgt[h]] \in {"none"} \cup SubRoles
    BY DEF Shape
<1>b. boot = "up" /\ ~broken[h] /\ Ready(h) /\ (dels[h] # {} => pc[h] = "removing")
    BY DEF Calm, Alone
<1>1. CASE OfferRoles(h) \/ DemotePrompt(h)
    <2>1. Moves(h) /\ pc'[h] = "done"
        BY <1>0, <1>b, <1>1 DEF OfferRoles, DemotePrompt, Moves, Shape
    <2> QED BY <2>1, <1>1, CalmRead DEF OfferRoles, DemotePrompt, Ready, Transferring
<1>2. CASE PromoteRole(h)
    <2>1. Moves(h) /\ UNCHANGED <<owners, admins, sub, tgt>> /\ pc[h] = "pro_role"
        BY <1>0, <1>b, <1>2 DEF PromoteRole, Moves, Shape
    <2>2. pc'[h] = "pro_sub" => tgt[h] \notin admins /\ ~is_owner(tgt[h])
        BY <1>0, <1>2 DEF PromoteRole, Shape, SubRoles, role_rank, get_effective_role
    <2>3. pc'[h] = "pro_admin" => sub[tgt[h]] = "none" \/ seen'[h] \in SubRoles
        BY <1>0, <1>a, <1>2 DEF PromoteRole, Shape, role_rank, get_effective_role
    <2>4. pc'[h] \in {"done", "pro_sub", "pro_admin", "req_read"}
        BY <1>0, <1>2 DEF PromoteRole, Shape
    <2>5. Ready(h)'
        BY <2>1, <2>2, <2>3, <2>4 DEF Ready, Transferring, is_owner
    <2> QED BY <2>1, <2>5, CalmRead
<1>3. CASE AssignAdmin(h)
    <2>1. Moves(h) /\ pc[h] = "pro_admin" /\ pc'[h] = "pro_clean" /\ admins' = admins \cup {tgt[h]}
          /\ UNCHANGED <<owners, sub, tgt, seen>>
        BY <1>0, <1>b, <1>3 DEF AssignAdmin, add_admin, Moves, Shape
    <2>2. Ready(h)'
        BY <2>1, <1>b DEF Ready, Transferring
    <2>3. Paired' /\ OwnerBare'
        BY <2>1 DEF Calm, Paired, OwnerBare, Moves, is_owner
    <2> QED BY <2>1, <2>2, <2>3, CalmMove
<1>4. CASE AssignCleanup(h) \/ DecisionCleanup(h)
    <2>1. Moves(h) /\ pc[h] \in {"pro_clean", "dec_clean"} /\ pc'[h] = "done"
          /\ UNCHANGED <<owners, admins, tgt>> /\ sub' \in {sub, [sub EXCEPT ![tgt[h]] = "none"]}
          /\ sub'[tgt[h]] = "none"
        BY <1>0, <1>b, <1>4 DEF AssignCleanup, DecisionCleanup, remove_role, Moves, Shape, Ready
    <2>2. Ready(h)'
        BY <2>1 DEF Ready, Transferring
    <2>3. \A u \in Users : sub'[u] = sub[u] \/ sub'[u] = "none"
        BY <2>1 DEF Shape
    <2>4. Paired'
        BY <2>1, <2>3 DEF Calm, Paired, Moves, Shape
    <2>5. OwnerBare'
        BY <2>1, <2>3 DEF Calm, OwnerBare, Moves, is_owner
    <2> QED BY <2>1, <2>2, <2>4, <2>5, CalmMove
<1>5. CASE AssignSubrole(h)
    <2>1. Moves(h) /\ pc[h] = "pro_sub" /\ pc'[h] = "done" /\ UNCHANGED <<owners, admins, tgt>>
          /\ \A u \in Users \ {tgt[h]} : sub'[u] = sub[u]
        BY <1>0, <1>b, <1>5 DEF AssignSubrole, set_role, Moves, Shape
    <2>2. Ready(h)'
        BY <2>1 DEF Ready, Transferring
    <2>3. tgt[h] \notin admins /\ ~is_owner(tgt[h])
        BY <2>1, <1>b DEF Ready
    <2>4. \A u \in admins : sub[u] = "none" \/ u \notin Users
        BY <2>1 DEF Calm, Alone, Paired, Busy
    <2>5. Paired'
        BY <2>1, <2>3, <2>4 DEF Calm, Paired, Moves, Shape
    <2>6. OwnerBare'
        BY <2>1, <2>3 DEF Calm, OwnerBare, Moves, is_owner
    <2> QED BY <2>1, <2>2, <2>5, <2>6, CalmMove
<1>6. CASE RequestCheck(h) \/ RequestRead(h) \/ DecisionRead(h)
    <2>1. Moves(h) /\ UNCHANGED <<owners, admins, sub, tgt, status, req>>
          /\ pc[h] \in {"req_check", "req_read", "dec_read"}
          /\ pc'[h] \in {"done", "req_read", "req_insert", "dec_add", "dec_reject"}
          /\ (pc'[h] \in {"dec_add", "dec_reject"} => status[req[h]] = "pending")
        BY <1>0, <1>b, <1>6 DEF RequestCheck, RequestRead, DecisionRead, Moves, Shape
    <2> QED BY <2>1, CalmRead DEF Ready, Transferring
<1>7. CASE enqueue(h)
    <2>1. Moves(h) /\ pc[h] = "req_insert" /\ pc'[h] = "done" /\ UNCHANGED <<owners, admins, sub, tgt>>
        BY <1>0, <1>b, <1>7 DEF enqueue, Moves, Shape
    <2> QED BY <2>1, CalmRead DEF Ready, Transferring
<1>8. CASE DecisionAdd(h)
    <2>1. Moves(h) /\ pc[h] = "dec_add" /\ pc'[h] = "dec_approve" /\ admins' = admins \cup {tgt[h]}
          /\ UNCHANGED <<owners, sub, tgt, status, req>>
        BY <1>0, <1>b, <1>8 DEF DecisionAdd, add_admin, Moves, Shape
    <2>2. Ready(h)'
        BY <2>1, <1>b DEF Ready, Transferring
    <2>3. Paired' /\ OwnerBare'
        BY <2>1 DEF Calm, Paired, OwnerBare, Moves, is_owner
    <2> QED BY <2>1, <2>2, <2>3, CalmMove
<1>9. CASE DecisionResolve(h)
    <2>1. Moves(h) /\ UNCHANGED <<owners, admins, sub, tgt>>
          /\ \/ pc[h] = "dec_approve" /\ pc'[h] = "dec_clean"
             \/ pc[h] = "dec_reject" /\ pc'[h] = "done"
        BY <1>0, <1>b, <1>9 DEF DecisionResolve, resolve, Moves, Shape, Ready
    <2> QED BY <2>1, CalmRead DEF Ready, Transferring
<1>10. CASE DemoteRole(h) \/ redemote_before_fanout(h)
    <2>1. Moves(h) /\ UNCHANGED <<owners, admins, sub, tgt>> /\ pc[h] = "dem_role" /\ kind'[h] # "transfer"
          /\ \/ pc'[h] = "done"
             \/ pc'[h] = "removing" /\ "roles" \in dels'[h]
        BY <1>0, <1>b, <1>10 DEF DemoteRole, redemote_before_fanout, Remove, Stay, Moves, Shape
    <2> QED BY <2>1, CalmRead DEF Ready, Transferring
<1>11. ASSUME NEW c \in {"admins", "roles"}, DeleteRow(h, c) PROVE Calm'
    <2>1. Moves(h) /\ pc[h] = "removing" /\ pc'[h] = "removing" /\ admins' \subseteq admins
          /\ UNCHANGED <<owners, tgt, who, kind>> /\ (\A u \in Users : sub'[u] = sub[u] \/ sub'[u] = "none")
          /\ ("roles" \notin dels'[h] => sub'[tgt[h]] = "none")
        BY <1>0, <1>b, <1>11 DEF DeleteRow, Moves, Shape, Ready
    <2>2. Ready(h)'
        BY <2>1, <1>b DEF Ready, Transferring, Shape
    <2>3. \A u \in admins : sub[u] = "none"
        BY <2>1 DEF Calm, Alone, Paired, Busy
    <2>4. Paired'
        BY <1>0, <1>11, <2>1, <2>3 DEF DeleteRow, Paired, Shape
    <2>5. OwnerBare'
        BY <2>1 DEF Calm, OwnerBare, Moves, is_owner
    <2> QED BY <2>1, <2>2, <2>4, <2>5, CalmMove
<1>12. CASE Removed(h) \/ AutoReread(h)
    <2>1. Moves(h) /\ UNCHANGED <<owners, admins, sub, tgt>> /\ pc[h] \in {"removing", "auto_reread"}
          /\ pc'[h] \in {"done", "auto_reread"}
        BY <1>0, <1>b, <1>12 DEF Removed, AutoReread, Moves, Shape
    <2> QED BY <2>1, CalmRead DEF Ready, Transferring
<1>13. CASE TransferCheck(h)
    <2>1. Moves(h) /\ UNCHANGED <<owners, admins, sub, tgt, who>> /\ pc[h] = "own_check"
          /\ \/ pc'[h] = "done"
             \/ pc'[h] = "own_replace" /\ get_effective_role(tgt[h]) = "none"
             \/ pc'[h] = "removing" /\ "roles" \in dels'[h]
        BY <1>0, <1>b, <1>13 DEF TransferCheck, Remove, Stay, Moves, Shape
    <2>2. get_effective_role(tgt[h]) = "none" => sub[tgt[h]] = "none"
        BY DEF get_effective_role
    <2>3. Ready(h)'
        BY <2>1, <2>2, <1>b DEF Ready, Transferring
    <2> QED BY <2>1, <2>3, CalmRead
<1>14. CASE TransferCleared(h)
    <2>1. Moves(h) /\ UNCHANGED <<owners, admins, sub, tgt, who>> /\ pc'[h] = "own_replace"
          /\ pc[h] = "removing" /\ kind[h] = "transfer" /\ dels[h] = {}
        BY <1>0, <1>b, <1>14 DEF TransferCleared, Moves, Shape
    <2>2. Ready(h)'
        BY <2>1, <1>b DEF Ready, Transferring
    <2> QED BY <2>1, <2>2, CalmRead
<1>15. CASE TransferReplace(h)
    <2>1. /\ UNCHANGED <<admins, sub, tgt, who, dels, broken, boot>> /\ pc[h] = "own_replace"
          /\ \/ pc' = [pc EXCEPT ![h] = "own_delete"]
             \/ pc' = [pc EXCEPT ![h] = "done"] /\ UNCHANGED owners
        BY <1>0, <1>15 DEF TransferReplace
    <2>2. /\ \A g \in Handlers \ {h} : pc'[g] = pc[g]
          /\ pc'[h] = "own_delete" \/ (pc'[h] = "done" /\ UNCHANGED owners)
        BY <2>1 DEF Shape
    <2>3. Moves(h)
        BY <1>b, <2>1, <2>2 DEF Moves
    <2>4. Ready(h)'
        BY <2>1, <2>2, <1>b DEF Ready, Transferring
    <2>5. Paired' /\ OwnerBare'
        BY <2>1, <2>2, <2>3 DEF Calm, Paired, OwnerBare, Moves, is_owner
    <2> QED BY <2>3, <2>4, <2>5, CalmMove
<1>16. CASE TransferDelete(h)
    <2>1. Moves(h) /\ UNCHANGED <<admins, sub, tgt, who>> /\ pc[h] = "own_delete" /\ pc'[h] = "own_keep"
          /\ owners' \subseteq {tgt[h]}
        BY <1>0, <1>b, <1>16 DEF TransferDelete, Moves, Shape
    <2>2. Ready(h)'
        BY <2>1, <1>b DEF Ready, Transferring
    <2>3. Paired'
        BY <2>1 DEF Calm, Paired, Moves
    <2>4. OwnerBare'
        BY <2>1, <1>b DEF OwnerBare, Ready, is_owner, Lowest
    <2> QED BY <2>1, <2>2, <2>3, <2>4, CalmMove
<1>17. CASE TransferKeep(h)
    <2>1. Moves(h) /\ UNCHANGED <<owners, sub, tgt>> /\ pc[h] = "own_keep" /\ pc'[h] = "done"
          /\ admins' = admins \cup {who[h]}
        BY <1>0, <1>b, <1>17 DEF TransferKeep, add_admin, Moves, Shape
    <2>2. Ready(h)'
        BY <2>1 DEF Ready, Transferring
    <2>3. Paired'
        BY <2>1, <1>b DEF Calm, Paired, Moves, Ready, Transferring
    <2>4. OwnerBare'
        BY <2>1 DEF Calm, OwnerBare, Moves, is_owner
    <2> QED BY <2>1, <2>2, <2>3, <2>4, CalmMove
<1> QED
    BY <1>1, <1>2, <1>3, <1>4, <1>5, <1>6, <1>7, <1>8, <1>9, <1>10, <1>11, <1>12, <1>13, <1>14,
       <1>15, <1>16, <1>17
    DEF Step, Work

LEMMA SequentialNext == Shape /\ Sequential /\ [Next]_vars => Sequential'
<1> SUFFICES ASSUME Shape, Sequential, [Next]_vars, ~overlap', ~(faults' < MaxFaults)
             PROVE  Calm'
    BY DEF Sequential
<1>1. ~overlap /\ faults = MaxFaults /\ faults' = faults
    BY Worsens, ShapeNext, BoundAssumption DEF Shape
<1>2. Calm
    BY <1>1, BoundAssumption DEF Sequential
<1>3. CASE UNCHANGED vars
    BY <1>2, <1>3
    DEF vars, stores, world, control, removal, history, Calm, Alone, Paired, Ready, Transferring, OwnerBare,
        Busy, is_owner
<1>4. ASSUME NEW h \in Handlers, Dispatch(h) PROVE Calm'
    <2>1. Launched(h)
        BY <1>4, DispatchIs
    <2>2. Busy = {}
        BY <2>1 DEF Launched, Launch
    <2> QED BY <1>2, <2>1, <2>2, CalmStart
<1>5. ASSUME NEW h \in Handlers, Step(h) PROVE Calm'
    BY <1>1, <1>2, <1>5, CalmStep
<1>6. CASE Crash
    BY <1>1, <1>6, BoundAssumption DEF Crash
<1>7. CASE ensure_initial_owner
    BY <1>2, <1>7 DEF ensure_initial_owner, Calm, Alone
<1> QED BY <1>3, <1>4, <1>5, <1>6, <1>7 DEF Next, Terminated

\* Handlers that run one after the other without a failure leave nobody with an
\* Admin row and a custom role row at once (_assign_admin, on_promo_decision).
THEOREM NoRoleIsHidden == Spec => []NoHiddenRole
<1>1. Spec => [](Shape /\ Sequential)
    BY ShapeInit, ShapeNext, SequentialInit, SequentialNext, PTL DEF Spec
<1>2. Shape /\ Sequential => NoHiddenRole
    BY BoundAssumption DEF Shape, Sequential, Calm, Paired, NoHiddenRole, Busy
<1> QED BY <1>1, <1>2, PTL
============================================================================
