---------------------------- MODULE MessageFate ----------------------------
(***************************************************************************)
(* What becomes of a message sent to the platform: it waits, and then it   *)
(* is acted upon, stored or lost, once and for all. Several messages may   *)
(* be decided at once, as when a process dies that holds a whole batch.    *)
(***************************************************************************)
CONSTANT Msgs
VARIABLE fate

Decided == {"acted", "stored", "lost"}
Fate == {"unsent", "waiting"} \cup Decided

May(old, new) ==
    \/ old = new
    \/ old = "unsent" /\ new = "waiting"
    \/ old = "waiting" /\ new \in Decided

Init == fate = [m \in Msgs |-> "unsent"]

Next ==
    /\ fate' \in [Msgs -> Fate]
    /\ \A m \in Msgs : May(fate[m], fate'[m])

Spec == Init /\ [][Next]_fate
=============================================================================
