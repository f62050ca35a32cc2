-------------------------------- MODULE Finance --------------------------------
(***************************************************************************)
(* Transactions of one owner: found in mail every fifteen minutes, or      *)
(* entered by hand, then approved or rejected in the portal. Approving a   *)
(* recurring one creates its subscription.                                 *)
(***************************************************************************)
EXTENDS Naturals, FiniteSets

CONSTANTS
    Bills,      \* mails that look like bills
    FinScans,   \* scans of the mailbox that may be under way at once
    Updates,    \* bound: requests that update a transaction
    MaxTx       \* bound: transactions

TxIds == 1 .. MaxTx
Manual == "manual"
None == "none"

\* A mail is neither the mark of an entry by hand nor no mail.
ASSUME FinanceAssumption == MaxTx \in Nat /\ {Manual, None} \cap Bills = {}

VARIABLES
    txs,        \* of each transaction ever inserted: mail (or Manual), type and status
    subs,       \* of each transaction: its subscriptions that approvals made (2: or more)
    own,        \* the transactions for which the user entered a subscription, or several
    finScan,    \* of each scan: the mails it has still to look at and where it is
    update,     \* of each request: where it is, its transaction, the status it sets
    hadSub, finMet    \* not in the program: transactions that ever had a subscription;
                      \* "scan" when two scans met, "update" when two updates of one did

financeVars == <<txs, subs, own, finScan, update, hadSub, finMet>>

Rows == [mail : Bills \cup {Manual}, type : {"eenmalig", "abonnement"},
         status : {"pending", "approved", "rejected", "deleted"}]

FinanceTypeOK ==
    /\ \E n \in 0 .. MaxTx : txs \in [1 .. n -> Rows]
    /\ subs \in [TxIds -> 0 .. 2] /\ own \subseteq TxIds
    /\ finScan \in [FinScans -> [todo : SUBSET Bills, mail : Bills \cup {None}]]
    /\ update \in [Updates -> [at : {"idle", "look", "create", "write", "ended"},
                               tx : 0 .. MaxTx, to : {"approved", "rejected"}]]
    /\ hadSub \subseteq TxIds /\ finMet \subseteq {"scan", "update"}

Live(id) == id \in DOMAIN txs /\ txs[id].status # "deleted"

\* A request before it begins or after it has ended.
NoUpdate(at) == [at |-> at, tx |-> 0, to |-> "approved"]

FinanceInit ==
    /\ txs = <<>> /\ subs = [id \in TxIds |-> 0] /\ own = {}
    /\ finScan = [p \in FinScans |-> [todo |-> {}, mail |-> None]]
    /\ update = [r \in Updates |-> NoUpdate("idle")]
    /\ hadSub = {} /\ finMet = {}

Insert(row) ==
    LET id == Cardinality(DOMAIN txs) + 1
    IN  /\ id \in TxIds
        /\ txs' = [i \in 1 .. id |-> IF i = id THEN row ELSE txs[i]]

-----------------------------------------------------------------------------
(* FinanceMailPollerService.scanUser *)

\* The newest fifty mails; the timer does not ask whether the last scan has ended.
Scan(p) ==
    /\ finScan[p].todo = {} /\ finScan[p].mail = None
    /\ finScan' = [finScan EXCEPT ![p].todo = Bills]
    /\ finMet' = IF \E q \in FinScans : finScan[q].todo # {} \/ finScan[q].mail # None
                 THEN finMet \cup {"scan"} ELSE finMet
    /\ UNCHANGED <<txs, subs, own, update, hadSub>>

\* A mail without a transaction is read and given to the language model.
LookUpMail(p, b) ==
    /\ finScan[p].mail = None /\ b \in finScan[p].todo
    /\ finScan' = [finScan EXCEPT
           ![p].todo = @ \ {b},
           ![p].mail = IF \E id \in DOMAIN txs : Live(id) /\ txs[id].mail = b THEN None ELSE b]
    /\ UNCHANGED <<txs, subs, own, update, hadSub, finMet>>

\* What the model makes of it is inserted; or the mail is no bill, or cannot be read.
Extract(p) ==
    /\ finScan[p].mail # None
    /\ \/ \E t \in {"eenmalig", "abonnement"} :
              Insert([mail |-> finScan[p].mail, type |-> t, status |-> "pending"])
       \/ UNCHANGED txs
    /\ finScan' = [finScan EXCEPT ![p].mail = None]
    /\ UNCHANGED <<subs, own, update, hadSub, finMet>>

\* The database does not answer: the rest of the mailbox waits for the next scan.
ScanFails(p) ==
    /\ finScan[p].todo # {}
    /\ finScan' = [finScan EXCEPT ![p] = [todo |-> {}, mail |-> None]]
    /\ UNCHANGED <<txs, subs, own, update, hadSub, finMet>>

-----------------------------------------------------------------------------
(* FinanceService *)

\* One entered by hand is approved from the start and makes no subscription.
createTransaction(t) ==
    /\ Insert([mail |-> Manual, type |-> t, status |-> "approved"])
    /\ UNCHANGED <<subs, own, finScan, update, hadSub, finMet>>

deleteTransaction(id) ==
    /\ Live(id)
    /\ txs' = [txs EXCEPT ![id].status = "deleted"]
    /\ UNCHANGED <<subs, own, finScan, update, hadSub, finMet>>

\* The user enters a subscription with the number of a transaction, live or not.
createSubscription(id) ==
    /\ id \in DOMAIN txs
    /\ own' = own \cup {id} /\ hadSub' = hadSub \cup {id}
    /\ UNCHANGED <<txs, subs, finScan, update, finMet>>

\* One an approval made, or one he entered, the last of them or not.
deleteSubscription(id) ==
    /\ \/ subs[id] > 0 /\ subs' = [subs EXCEPT ![id] = @ - 1] /\ UNCHANGED own
       \/ id \in own /\ own' \in {own, own \ {id}} /\ UNCHANGED subs
    /\ UNCHANGED <<txs, finScan, update, hadSub, finMet>>

\* updateTransaction loads the row; an approval of a recurring one looks for its
\* subscription.
LoadTransaction(r, id, to) ==
    /\ update[r].at = "idle" /\ Live(id)
    /\ update' = [update EXCEPT ![r] =
           [at |-> IF to = "approved" /\ txs[id].type = "abonnement" THEN "look" ELSE "write",
            tx |-> id, to |-> to]]
    /\ finMet' = IF \E q \in Updates : update[q].at \notin {"idle", "ended"} /\ update[q].tx = id
                 THEN finMet \cup {"update"} ELSE finMet
    /\ UNCHANGED <<txs, subs, own, finScan, hadSub>>

\* A variant that makes a subscription without looking for one.
FindSubscription_Never(r) ==
    /\ update[r].at = "look"
    /\ update' = [update EXCEPT ![r].at = "create"]
    /\ UNCHANGED <<txs, subs, own, finScan, hadSub, finMet>>

\* Any subscription with the transaction's number will do, one the user entered too.
FindSubscription(r) ==
    /\ update[r].at = "look"
    /\ update' = [update EXCEPT
           ![r].at = IF subs[update[r].tx] > 0 \/ update[r].tx \in own THEN "write" ELSE "create"]
    /\ UNCHANGED <<txs, subs, own, finScan, hadSub, finMet>>

SaveSubscription(r) ==
    LET id == update[r].tx
    IN  /\ update[r].at = "create"
        /\ subs' = [subs EXCEPT ![id] = IF @ < 2 THEN @ + 1 ELSE @]
        /\ hadSub' = hadSub \cup {id}
        /\ update' = [update EXCEPT ![r].at = "write"]
        /\ UNCHANGED <<txs, own, finScan, finMet>>

\* The status is written if the row is still there.
WriteTransaction(r) ==
    LET id == update[r].tx
    IN  /\ update[r].at = "write"
        /\ txs' = IF Live(id) THEN [txs EXCEPT ![id].status = update[r].to] ELSE txs
        /\ update' = [update EXCEPT ![r] = NoUpdate("ended")]
        /\ UNCHANGED <<subs, own, finScan, hadSub, finMet>>

\* A statement fails, and the request with it.
UpdateFails(r) ==
    /\ update[r].at \notin {"idle", "ended"}
    /\ update' = [update EXCEPT ![r] = NoUpdate("ended")]
    /\ UNCHANGED <<txs, subs, own, finScan, hadSub, finMet>>

FinanceNext ==
    \/ \E p \in FinScans : Scan(p) \/ Extract(p) \/ ScanFails(p)
    \/ \E p \in FinScans, b \in Bills : LookUpMail(p, b)
    \/ \E t \in {"eenmalig", "abonnement"} : createTransaction(t)
    \/ \E id \in TxIds : deleteTransaction(id) \/ createSubscription(id) \/ deleteSubscription(id)
    \/ \E r \in Updates, id \in TxIds, to \in {"approved", "rejected"} : LoadTransaction(r, id, to)
    \/ \E r \in Updates :
           FindSubscription(r) \/ SaveSubscription(r) \/ WriteTransaction(r) \/ UpdateFails(r)

FinanceSpec == FinanceInit /\ [][FinanceNext]_financeVars

-----------------------------------------------------------------------------
\* Money is counted once, as far as the program counts it: a mail has one transaction
\* unless two scans met, and approvals make a transaction one subscription unless two
\* updates of it met, whatever failed and was tried again.  The user may enter more of
\* his own, for which nobody looks.  A recurring bill approved has had a subscription.
CountedOnce ==
    /\ "scan" \notin finMet =>
           \A i, j \in DOMAIN txs : Live(i) /\ Live(j) /\ txs[i].mail = txs[j].mail
                                        /\ txs[i].mail # Manual => i = j
    /\ "update" \notin finMet => \A id \in TxIds : subs[id] <= 1
    /\ \A id \in DOMAIN txs : txs[id].status = "approved" /\ txs[id].type = "abonnement"
                                  /\ txs[id].mail # Manual => id \in hadSub

=============================================================================
