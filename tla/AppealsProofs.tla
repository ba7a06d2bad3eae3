--------------------------- MODULE AppealsProofs ---------------------------
(***************************************************************************)
(* Proofs about Appeals, for any number of handlers, cards and failures and *)
(* any windows.                                                             *)
(***************************************************************************)
EXTENDS Appeals, TLAPS

\* The types the argument needs.
Shape == card \in [Cards -> Faces] /\ pc \in [Handlers -> Points]

\* Between its database write and its card edit, a verdict is committed.  The
\* write is never undone: no step activates the ban again or forgets a
\* rejection.
Committed ==
    \A h \in Handlers :
        /\ pc[h] \in {"app_clear", "app_card"} => ~active
        /\ pc[h] \in {"rej_card", "rej_clear"} => rejected

Inv == Shape /\ Committed /\ VerdictIsCommitted

LEMMA InvInit == Init => Inv
BY DEF Init, Inv, Shape, Committed, VerdictIsCommitted, Faces, Points

\* Steps that edit no card and enter no committed section.
LEMMA ReadingKeeps ==
    ASSUME Inv, NEW h \in Handlers, NEW l \in Points, Goto(h, l),
           l \notin {"app_clear", "app_card", "rej_card", "rej_clear"},
           UNCHANGED <<active, rejected, card>>
    PROVE  Inv'
BY DEF Inv, Shape, Committed, VerdictIsCommitted, Goto

LEMMA StepKeeps ==
    ASSUME Inv, NEW h \in Handlers, Dispatch(h) \/ Step(h)
    PROVE  Inv'
<1> USE DEF Done, Stay, Finish, ban, tap, Points
<1>1. CASE Dispatch(h)
    BY <1>1, ReadingKeeps DEF Dispatch, OpenLink, Submit, Cancel, Tap, Arrive
<1>2. CASE StartRead(h) \/ StartClear(h) \/ StartKeys(h) \/ StartSend(h) \/ Abandon(h)
    BY <1>2, ReadingKeeps DEF StartRead, StartClear, StartKeys, StartSend, Abandon
<1>3. CASE SubRead(h) \/ SubClear(h) \/ SubClaim(h) \/ SubEnd(h)
    BY <1>3, ReadingKeeps DEF SubRead, SubClear, SubClaim, SubEnd
<1>4. CASE DecRead(h) \/ AppGroups(h)
    BY <1>4, ReadingKeeps DEF DecRead, AppGroups
<1> USE DEF Inv, Shape, Committed, VerdictIsCommitted, Goto, Faces
<1>5. CASE SubPost(h)
    BY <1>5 DEF SubPost
<1>6. CASE SubDelete(h)
    BY <1>6 DEF SubDelete
<1>7. CASE DecStale(h) \/ DecCard(h)
    BY <1>7 DEF DecStale, DecCard
<1>8. CASE AppDeact(h)
    BY <1>8 DEF AppDeact
<1>9. CASE AppClear(h)
    BY <1>9 DEF AppClear
<1>10. CASE AppCard(h)
    BY <1>10 DEF AppCard
<1>11. CASE RejSet(h)
    BY <1>11 DEF RejSet
<1>12. CASE RejCard(h)
    BY <1>12 DEF RejCard
<1>13. CASE RejClear(h)
    BY <1>13 DEF RejClear
<1> QED
    BY <1>1, <1>2, <1>3, <1>4, <1>5, <1>6, <1>7, <1>8, <1>9, <1>10, <1>11, <1>12, <1>13
    DEF Step

LEMMA InvNext == Inv /\ [Next]_vars => Inv'
<1> SUFFICES ASSUME Inv, [Next]_vars PROVE Inv'
    OBVIOUS
<1> USE DEF Inv, Shape, Committed, VerdictIsCommitted, ban
<1>1. CASE UNCHANGED vars
    BY <1>1 DEF vars
<1>2. ASSUME NEW h \in Handlers, Dispatch(h) \/ Step(h) PROVE Inv'
    BY <1>2, StepKeeps
<1>3. CASE ManualUnban
    BY <1>3 DEF ManualUnban
<1>4. CASE Tick
    BY <1>4 DEF Tick
<1> QED BY <1>1, <1>2, <1>3, <1>4 DEF Next

\* A review card never shows a verdict the database does not hold, for any
\* number of reviewers, submissions and failing calls.
THEOREM VerdictsAreCommitted == Spec => []VerdictIsCommitted
<1>1. Spec => []Inv
    BY InvInit, InvNext, PTL DEF Spec
<1> QED BY <1>1, PTL DEF Inv

(***************************************************************************)
(* The reviewer lock                                                        *)
(***************************************************************************)
\* What the check established still holds at the write: no time passes under a
\* handler, a cleared marker is no review, and a claim marks the deciders.
LockInv ==
    \A h \in Handlers \ crossed :
        pc[h] \in Deciding => owner[h] \/ review = 0 \/ reviewAge >= LockWindow

\* The variables the lock's argument reads.
LockShape ==
    /\ pc \in [Handlers -> Points] /\ owner \in [Handlers -> BOOLEAN]
    /\ reviewAge \in Nat

LEMMA LockInit == Init => LockShape /\ LockInv
BY DEF Init, LockShape, LockInv, Points, Deciding

\* A handler that does not start deciding keeps the others' verdicts valid as
\* long as it leaves the review alone, clears it, or claims a new one.
LEMMA LockKept ==
    ASSUME LockShape, LockInv, NEW h \in Handlers, NEW l \in Points \ Deciding, Goto(h, l),
           UNCHANGED owner,
           \/ UNCHANGED <<review, reviewAge, crossed>>
           \/ review' = 0 /\ reviewAge' = 0 /\ crossed' = crossed
           \/ reviewAge' = 0 /\ crossed' = crossed \cup {g \in Handlers : pc[g] \in Deciding}
    PROVE  LockShape' /\ LockInv'
BY DEF LockShape, LockInv, Goto

LEMMA LockStep ==
    ASSUME LockShape, LockInv, NEW h \in Handlers, Dispatch(h) \/ Step(h)
    PROVE  LockShape' /\ LockInv'
<1> USE DEF Done, Stay, Finish, ban, tap, notes, Points, Deciding
<1>1. CASE OpenLink(h) \/ Submit(h) \/ Cancel(h)
    BY <1>1, LockKept DEF OpenLink, Submit, Cancel, Arrive
<1>2. ASSUME NEW c \in Cards, NEW v \in {"approve", "reject"}, Tap(h, c, v)
      PROVE  LockShape' /\ LockInv'
    BY <1>2 DEF Tap, Arrive, Goto, LockShape, LockInv
<1>3. CASE StartRead(h) \/ StartClear(h) \/ StartKeys(h) \/ StartSend(h) \/ Abandon(h)
    BY <1>3, LockKept DEF StartRead, StartClear, StartKeys, StartSend, Abandon, clear_stale, clear_review
<1>4. CASE SubRead(h) \/ SubClear(h) \/ SubPost(h) \/ SubDelete(h) \/ SubEnd(h)
    BY <1>4, LockKept DEF SubRead, SubClear, SubPost, SubDelete, SubEnd, clear_stale, clear_review
<1>5. CASE SubClaim(h)
    BY <1>5, LockKept DEF SubClaim, set_review_if_absent
<1>6. CASE DecRead(h)
    BY <1>6, WindowAssumption DEF DecRead, reviewer_locked_out, Goto, LockShape, LockInv
<1>7. CASE DecStale(h) \/ DecCard(h)
    BY <1>7, LockKept DEF DecStale, DecCard, clear_review
<1>8. CASE AppGroups(h)
    BY <1>8 DEF AppGroups, Goto, LockShape, LockInv
<1>9. CASE AppDeact(h) \/ AppClear(h) \/ AppCard(h)
    BY <1>9, LockKept DEF AppDeact, AppClear, AppCard, clear_review
<1>10. CASE RejSet(h) \/ RejCard(h) \/ RejClear(h)
    BY <1>10, LockKept DEF RejSet, RejCard, RejClear, clear_review
<1> QED
    BY <1>1, <1>2, <1>3, <1>4, <1>5, <1>6, <1>7, <1>8, <1>9, <1>10 DEF Dispatch, Step

LEMMA LockNext == LockShape /\ LockInv /\ [Next]_vars => LockShape' /\ LockInv'
<1> SUFFICES ASSUME LockShape, LockInv, [Next]_vars PROVE LockShape' /\ LockInv'
    OBVIOUS
<1> USE DEF LockShape, LockInv, ban, tap, notes
<1>1. CASE UNCHANGED vars
    BY <1>1 DEF vars
<1>2. ASSUME NEW h \in Handlers, Dispatch(h) \/ Step(h) PROVE LockShape' /\ LockInv'
    BY <1>2, LockStep
<1>3. CASE ManualUnban
    BY <1>3 DEF ManualUnban
<1>4. CASE Tick
    BY <1>4 DEF Tick, Busy, Deciding, Older
<1> QED BY <1>1, <1>2, <1>3, <1>4 DEF Next

\* No reviewer but the banning admin writes a verdict within the lock window,
\* however far the write is from the check, unless a new review was claimed in
\* between (on_decision, reviewer_locked_out).
THEOREM LockHolds == Spec => LockRespected
<1>1. Spec => [](LockShape /\ LockInv)
    BY LockInit, LockNext, PTL DEF Spec
<1>2. LockInv =>
        [\A h \in Handlers \ crossed :
            pc[h] \in {"app_deact", "rej_set"} /\ pc'[h] \in {"app_clear", "rej_card"}
               => owner[h] \/ review = 0 \/ reviewAge >= LockWindow]_vars
    BY DEF LockInv, Deciding
<1> QED BY <1>1, <1>2, PTL DEF LockRespected

(***************************************************************************)
(* The pending review and its card                                          *)
(***************************************************************************)
\* The variables the cards' argument reads.
CardShape ==
    /\ review \in Cards \cup {0} /\ card \in [Cards -> Faces] /\ faults \in 0..MaxFaults
    /\ pc \in [Handlers -> Points] /\ mine \in [Handlers -> Cards \cup {0}]

\* No verdict or unban is undone, so what follows may stop at one.
Settled == ~active \/ rejected

\* Between posting a card and knowing what became of its claim.
Posted == {"sub_claim", "sub_delete"}

\* A posted card belongs to one submission and is not the pending review yet;
\* it has its buttons when it is claimed, so the pending review has them too.
OwnCard ==
    /\ \A h \in Handlers : pc[h] \in Posted =>
          /\ mine[h] \in Cards /\ mine[h] # review /\ card[mine[h]] # "none"
          /\ \A g \in Handlers \ {h} : pc[g] \in Posted => mine[g] # mine[h]
    /\ \A h \in Handlers : pc[h] = "sub_claim" => card[mine[h]] = "live" \/ Settled
    /\ review # 0 => card[review] # "none" /\ (card[review] = "live" \/ Settled)

\* Every card with buttons has a reason.
Accounted ==
    \/ Settled \/ faults < MaxFaults
    \/ \A c \in Cards : card[c] = "live" =>
          \/ review = c \/ c \in expired
          \/ \E h \in Handlers : pc[h] \in Posted /\ mine[h] = c

\* The card of a lifted ban is only resolved once it is lifted.
Resolving == \A h \in Handlers : pc[h] \in {"dec_stale", "dec_card"} => ~active

CardInv == CardShape /\ Committed /\ Resolving /\ OwnCard /\ Accounted

LEMMA ZeroIsNoCard == 0 \notin Cards
BY DEF Cards

LEMMA CardInit == Init => CardInv
BY WindowAssumption
DEF Init, CardInv, CardShape, Committed, Resolving, OwnCard, Accounted, Settled, Posted, Faces, Points

\* Steps that edit no card, claim no review and enter none of the sections the
\* invariant speaks of; a review may be cleared, and is then noted as expired.
LEMMA CardKept ==
    ASSUME CardInv, NEW h \in Handlers, NEW l \in Points, Goto(h, l), pc[h] \notin Posted,
           l \notin Posted \cup {"app_clear", "app_card", "rej_card", "rej_clear",
                                 "dec_stale", "dec_card"},
           UNCHANGED <<active, rejected, card>>, Works \/ Fault,
           mine' = mine \/ \E c \in Cards : mine' = [mine EXCEPT ![h] = c],
           \/ UNCHANGED <<review, expired>>
           \/ review' = 0 /\ expired' = expired \cup ({review} \ {0})
    PROVE  CardInv'
<1> USE DEF CardInv, Goto, Works, Fault
<1>1. CardShape'
    BY WindowAssumption DEF CardShape
<1>2. Committed' /\ Resolving'
    BY DEF Committed, Resolving, CardShape
<1>3. \A g \in Handlers : pc'[g] \in Posted => g # h /\ pc[g] = pc'[g] /\ mine'[g] = mine[g]
    BY DEF CardShape
<1>4. \A g \in Handlers : pc[g] \in Posted => pc'[g] = pc[g] /\ mine'[g] = mine[g]
    BY DEF CardShape
<1>5. OwnCard'
    BY <1>3, ZeroIsNoCard DEF OwnCard, CardShape, Settled, Posted
<1>6. Accounted'
    <2>1. faults < MaxFaults => faults' < MaxFaults
        BY WindowAssumption DEF CardShape
    <2> QED BY <1>4, <2>1 DEF Accounted, CardShape, Settled
<1> QED BY <1>1, <1>2, <1>5, <1>6

LEMMA CardStep ==
    ASSUME CardInv, NEW h \in Handlers, Dispatch(h) \/ Step(h)
    PROVE  CardInv'
<1> USE DEF Done, Stay, Finish, ban, tap, conv, notes, Points, Posted
<1>1. CASE Dispatch(h)
    <2>1. CASE OpenLink(h) \/ Submit(h) \/ Cancel(h)
        BY <2>1, CardKept DEF OpenLink, Submit, Cancel, Arrive, Works
    <2>2. ASSUME NEW c \in Cards, NEW v \in {"approve", "reject"}, Tap(h, c, v)
          PROVE  CardInv'
        BY <2>2, CardKept DEF Tap, Arrive, Works
    <2> QED BY <1>1, <2>1, <2>2 DEF Dispatch
<1>2. CASE StartRead(h) \/ StartKeys(h) \/ StartSend(h) \/ Abandon(h)
    BY <1>2, CardKept DEF StartRead, StartKeys, StartSend, Abandon, Works
<1>3. CASE StartClear(h) \/ SubClear(h)
    BY <1>3, CardKept DEF StartClear, SubClear, clear_stale, clear_review
<1>4. CASE SubRead(h) \/ SubEnd(h) \/ AppGroups(h)
    BY <1>4, CardKept DEF SubRead, SubEnd, AppGroups, Works
<1> USE WindowAssumption, ZeroIsNoCard DEF CardInv, CardShape, Goto, Works, Fault, Faces
<1>5. CASE SubPost(h)
    BY <1>5 DEF SubPost, Committed, Resolving, OwnCard, Accounted, Settled
<1>6. CASE SubClaim(h)
    BY <1>6 DEF SubClaim, set_review_if_absent, Committed, Resolving, OwnCard, Accounted, Settled
<1>7. CASE SubDelete(h)
    BY <1>7 DEF SubDelete, Committed, Resolving, OwnCard, Accounted, Settled
<1>8. CASE DecRead(h)
    BY <1>8 DEF DecRead, Committed, Resolving, OwnCard, Accounted, Settled
<1>9. CASE DecStale(h) \/ DecCard(h)
    BY <1>9 DEF DecStale, DecCard, clear_review, Committed, Resolving, OwnCard, Accounted, Settled
<1>10. CASE AppDeact(h)
    BY <1>10 DEF AppDeact, Committed, Resolving, OwnCard, Accounted, Settled
<1>11. CASE AppClear(h) \/ AppCard(h)
    BY <1>11 DEF AppClear, AppCard, clear_review, Committed, Resolving, OwnCard, Accounted, Settled
<1>12. CASE RejSet(h)
    BY <1>12 DEF RejSet, Committed, Resolving, OwnCard, Accounted, Settled
<1>13. CASE RejCard(h) \/ RejClear(h)
    BY <1>13 DEF RejCard, RejClear, clear_review, Committed, Resolving, OwnCard, Accounted, Settled
<1> QED
    BY <1>1, <1>2, <1>3, <1>4, <1>5, <1>6, <1>7, <1>8, <1>9, <1>10, <1>11, <1>12, <1>13
    DEF Step

LEMMA CardNext == CardInv /\ [Next]_vars => CardInv'
<1> SUFFICES ASSUME CardInv, [Next]_vars PROVE CardInv'
    OBVIOUS
<1> USE DEF CardInv, CardShape, Committed, Resolving, OwnCard, Accounted, Settled, ban, tap, notes
<1>1. CASE UNCHANGED vars
    BY <1>1 DEF vars
<1>2. ASSUME NEW h \in Handlers, Dispatch(h) \/ Step(h) PROVE CardInv'
    BY <1>2, CardStep
<1>3. CASE ManualUnban
    BY <1>3 DEF ManualUnban
<1>4. CASE Tick
    BY <1>4 DEF Tick
<1> QED BY <1>1, <1>2, <1>3, <1>4 DEF Next

\* A pending review of an undecided ban keeps its buttons, whatever calls failed
\* on the way (on_decision, _on_message).
THEOREM PendingCardsAreLive == Spec => []PendingCardIsLive
<1>1. Spec => []CardInv
    BY CardInit, CardNext, PTL DEF Spec
<1>2. CardInv => PendingCardIsLive
    BY DEF CardInv, OwnCard, PendingCardIsLive, Settled
<1> QED BY <1>1, <1>2, PTL

\* Without failing calls no card but the pending review's keeps its buttons,
\* however many submissions raced (SubClaim, SubDelete).
THEOREM LiveCardsArePending == Spec => []LiveCardIsPending
<1>1. Spec => []CardInv
    BY CardInit, CardNext, PTL DEF Spec
<1>2. CardInv => LiveCardIsPending
    BY WindowAssumption
    DEF CardInv, CardShape, Accounted, LiveCardIsPending, Settled, Busy, Posted
<1> QED BY <1>1, <1>2, PTL
=============================================================================
