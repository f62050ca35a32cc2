--------------------------- MODULE PushSubscriptions ---------------------------
(***************************************************************************)
(* Web-push subscriptions of one user's browsers. A browser renews its     *)
(* subscription, with new keys, and posts it to the portal, which hands    *)
(* it on to the API; the post may fail, be tried again, be overtaken.      *)
(* sendToUser reads the rows, sends to all of them and afterwards deletes, *)
(* by endpoint, those for which the push service answered 410 Gone.        *)
(***************************************************************************)
EXTENDS FiniteSets, Naturals

CONSTANTS
    Endpoints,   \* addresses at the push service
    Sends,       \* bound: sends
    MaxRenewals  \* bound: how often an endpoint is registered with other keys

ASSUME PushAssumption == MaxRenewals \in Nat

VARIABLES
    rows,      \* the endpoints in the table, with the keys each row has; 0 is no row
    valid,     \* the keys each browser has now; 0 when it has no subscription
    renewals,
    posts,     \* registrations on their way through the portal: endpoint and keys
    send,      \* of each send: its step, the rows it still sends to, those found gone
    saved, pushMet  \* not in the program: the keys the API saved last for each endpoint,
                    \* 0 if none; endpoints saved while a send held them for gone

pushVars == <<rows, valid, renewals, posts, send, saved, pushMet>>

PushTypeOK ==
    /\ rows \in [Endpoints -> 0 .. MaxRenewals] /\ valid \in [Endpoints -> 0 .. MaxRenewals]
    /\ renewals \in 0 .. MaxRenewals /\ posts \subseteq Endpoints \X (1 .. MaxRenewals)
    /\ send \in [Sends -> [at : {"idle", "send", "delete", "ended"},
                           to : SUBSET Endpoints, gone : SUBSET Endpoints]]
    /\ saved \in [Endpoints -> 0 .. MaxRenewals] /\ pushMet \subseteq Endpoints

PushInit ==
    /\ rows = [e \in Endpoints |-> 0] /\ valid = rows /\ renewals = 0
    /\ send = [s \in Sends |-> [at |-> "idle", to |-> {}, gone |-> {}]]
    /\ posts = {} /\ saved = rows /\ pushMet = {}

\* The browser subscribes, with new keys, and posts the subscription.
Renew(e) ==
    /\ renewals < MaxRenewals
    /\ renewals' = renewals + 1
    /\ valid' = [valid EXCEPT ![e] = renewals + 1]
    /\ posts' = posts \cup {<<e, renewals + 1>>}
    /\ UNCHANGED <<rows, send, saved, pushMet>>

\* It posts the subscription it has once more.
PostAgain(e) ==
    /\ valid[e] # 0
    /\ posts' = posts \cup {<<e, valid[e]>>}
    /\ UNCHANGED <<rows, valid, renewals, send, saved, pushMet>>

\* The user withdraws the permission; nobody tells the API.
Unsubscribe(e) ==
    /\ valid[e] # 0
    /\ valid' = [valid EXCEPT ![e] = 0]
    /\ UNCHANGED <<rows, renewals, posts, send, saved, pushMet>>

\* The portal's post reaches the API, not always in the order of the browser's; one row
\* per endpoint.
saveSubscription(e, keys) ==
    /\ <<e, keys>> \in posts
    /\ posts' = posts \ {<<e, keys>>}
    /\ rows' = [rows EXCEPT ![e] = keys]
    /\ saved' = [saved EXCEPT ![e] = keys]
    /\ pushMet' = IF \E s \in Sends : e \in send[s].gone THEN pushMet \cup {e} ELSE pushMet
    /\ UNCHANGED <<valid, renewals, send>>

\* The portal, the way to the API or the statement fails; it is lost unless the browser posts again.
PostFails(e, keys) ==
    /\ <<e, keys>> \in posts
    /\ posts' = posts \ {<<e, keys>>}
    /\ UNCHANGED <<rows, valid, renewals, send, saved, pushMet>>

sendToUser(s) ==
    /\ send[s].at = "idle"
    /\ send' = [send EXCEPT ![s].at = "send", ![s].to = {e \in Endpoints : rows[e] # 0}]
    /\ UNCHANGED <<rows, valid, renewals, posts, saved, pushMet>>

\* A variant that takes every failure for a subscription that is gone.
PushAnswer_AnyFailure(s, e) ==
    /\ send[s].at = "send" /\ e \in send[s].to
    /\ \E gone \in BOOLEAN :
           send' = [send EXCEPT ![s].to = @ \ {e},
                                ![s].gone = IF gone THEN @ \cup {e} ELSE @]
    /\ UNCHANGED <<rows, valid, renewals, posts, saved, pushMet>>

\* The push service answers for one endpoint: 410 if the browser has no subscription,
\* or anything else, another failure included, which has no consequence.
PushAnswer(s, e) ==
    /\ send[s].at = "send" /\ e \in send[s].to
    /\ \E gone \in {FALSE, valid[e] = 0} :
           send' = [send EXCEPT ![s].to = @ \ {e},
                                ![s].gone = IF gone THEN @ \cup {e} ELSE @]
    /\ UNCHANGED <<rows, valid, renewals, posts, saved, pushMet>>

\* All have answered; the rows of those gone are deleted one by one.
CleanUp(s) ==
    /\ send[s].at = "send" /\ send[s].to = {}
    /\ send' = [send EXCEPT ![s].at = IF send[s].gone = {} THEN "ended" ELSE "delete"]
    /\ UNCHANGED <<rows, valid, renewals, posts, saved, pushMet>>

Delete(s, e) ==
    /\ send[s].at = "delete" /\ e \in send[s].gone
    /\ rows' = [rows EXCEPT ![e] = 0]
    /\ send' = [send EXCEPT ![s].gone = @ \ {e},
                            ![s].at = IF send[s].gone = {e} THEN "ended" ELSE @]
    /\ UNCHANGED <<valid, renewals, posts, saved, pushMet>>

PushNext ==
    \/ \E e \in Endpoints : Renew(e) \/ PostAgain(e) \/ Unsubscribe(e)
    \/ \E e \in Endpoints, keys \in 1 .. MaxRenewals :
           saveSubscription(e, keys) \/ PostFails(e, keys)
    \/ \E s \in Sends : sendToUser(s) \/ CleanUp(s)
    \/ \E s \in Sends, e \in Endpoints : PushAnswer(s, e) \/ Delete(s, e)

PushSpec == PushInit /\ [][PushNext]_pushVars

\* A browser is reached with its current keys once the API has saved them, whatever the
\* push service answered to earlier sends and whatever became of earlier registrations.
\* Not so if an older registration was saved after it, and not if it was saved while a
\* send held the endpoint for gone: the deletion by endpoint may then take the new row.
SubscriberKept ==
    \A e \in Endpoints \ pushMet : valid[e] # 0 /\ saved[e] = valid[e] => rows[e] = valid[e]

=============================================================================
