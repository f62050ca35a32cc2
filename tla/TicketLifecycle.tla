-------------------------- MODULE TicketLifecycle --------------------------
(***************************************************************************)
(* The life of a ticket as its user sees it: it waits for a confirmation,  *)
(* is opened or cancelled once and for all, and is then done or open until *)
(* the dashboard deletes it. A deletion is not final, because an update    *)
(* that loaded the ticket before puts it back.                             *)
(***************************************************************************)
CONSTANT Ids
VARIABLE status

Become(t, new) == status' = [status EXCEPT ![t] = new]

Create(t)    == status[t] = "none" /\ Become(t, "pending_confirm")
Confirm(t)   == status[t] = "pending_confirm" /\ Become(t, "open")
Cancel(t)    == status[t] = "pending_confirm" /\ Become(t, "cancelled")
Finish(t)    == status[t] = "open" /\ Become(t, "done")
Reopen(t)    == status[t] = "done" /\ Become(t, "open")
Delete(t)    == status[t] \in {"open", "done"} /\ Become(t, "deleted")
PutBack(t)   == status[t] = "deleted" /\ \E new \in {"open", "done"} : Become(t, new)

Init == status = [t \in Ids |-> "none"]

Next ==
    \E t \in Ids :
        \/ Create(t)
        \/ Confirm(t)
        \/ Cancel(t)
        \/ Finish(t)
        \/ Reopen(t)
        \/ Delete(t)
        \/ PutBack(t)

Spec == Init /\ [][Next]_status
=============================================================================
