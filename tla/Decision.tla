------------------------------ MODULE Decision ------------------------------
(***************************************************************************)
(* What a queue of decisions promises, whoever decides and however often:    *)
(* every item gets one verdict for good, nobody is ever shown another, and a *)
(* positive verdict comes after its effect.  Roles implements it for         *)
(* promotion requests (QueueDecides).                                        *)
(***************************************************************************)
CONSTANTS
    Items,      \* what is decided on
    Verdicts,   \* the possible answers
    Yes,        \* the one that has an effect
    Open        \* not decided yet

VARIABLES
    chosen,     \* per item: its verdict, or Open
    shown,      \* per item: the verdicts that somebody was shown
    earned      \* the items whose effect has been there

Init ==
    /\ chosen = [i \in Items |-> Open]
    /\ shown = [i \in Items |-> {}]
    /\ earned \in SUBSET Items

\* The effect of some items is brought about.
Earn == earned' \in SUBSET Items /\ earned \subseteq earned' /\ UNCHANGED <<chosen, shown>>

\* The item is decided; whoever decided it may be told in the same breath.
Decide(i, v) ==
    /\ chosen[i] = Open /\ (v = Yes => i \in earned)
    /\ chosen' = [chosen EXCEPT ![i] = v]
    /\ shown' \in {shown, [shown EXCEPT ![i] = {v}]}
    /\ UNCHANGED earned

\* The verdict is shown.
Show(i) ==
    /\ chosen[i] # Open /\ shown' = [shown EXCEPT ![i] = @ \cup {chosen[i]}]
    /\ UNCHANGED <<chosen, earned>>

Next == Earn \/ \E i \in Items : Show(i) \/ \E v \in Verdicts : Decide(i, v)

Spec == Init /\ [][Next]_<<chosen, shown, earned>>
=============================================================================
