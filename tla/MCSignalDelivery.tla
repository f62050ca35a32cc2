------------------------- MODULE MCSignalDelivery -------------------------
(* Model values for checking SignalDelivery: a message of every kind that   *)
(* either program treats in a way of its own, from two senders.             *)
EXTENDS SignalDelivery

CONSTANTS command, help, approval, file, note, sync, s, t, p1, p2

MCMsgs == {command, help, approval, file, note, sync}
MCKinds == (command :> "command") @@ (help :> "help") @@ (approval :> "approval")
               @@ (file :> "file") @@ (note :> "note") @@ (sync :> "sync")
MCSenders == [m \in MCMsgs |-> IF m \in {command, approval, note} THEN s ELSE t]
MCFiles == [m \in MCMsgs |-> IF m = file THEN 2 ELSE 1]
MCPolls == {p1, p2}
=============================================================================
