-------------------------- MODULE MCSignalTickets --------------------------
(* Model values for checking SignalTickets. The one-poll runs give one user *)
(* two phones; the overlapping ones give two users a phone each.            *)
EXTENDS SignalTickets

CONSTANTS a, b, u, v, p1, p2, d1

MCPhones == {a, b}
OneOwner == [ph \in MCPhones |-> u]
TwoOwners == (a :> u) @@ (b :> v)
OnePoll == {p1}
TwoPolls == {p1, p2}
OneRequest == {d1}

Says(ph, kinds) == [phone : {ph}, kind : kinds, seq : {0}]
DoneFirst == [phone |-> a, kind |-> "done", seq |-> 1]

MessagesOneOwner ==
    Says(a, {"task", "approve", "cancel", "text"}) \cup {DoneFirst}
        \cup Says(b, {"task", "approve"})

MessagesTwoOwners ==
    Says(a, {"task", "approve", "cancel"}) \cup {DoneFirst} \cup Says(b, {"task", "approve"})
=============================================================================
