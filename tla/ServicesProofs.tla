---------------------------- MODULE ServicesProofs ----------------------------
(***************************************************************************)
(* What is proved of Finance, PushSubscriptions, DocumentTags and          *)
(* ProactiveHints, each for its own specification: an inductive invariant  *)
(* and the property that the run of MCServices checks.  At the end: what   *)
(* holds of each part, the portal's three included, holds where all of     *)
(* them run side by side.                                                  *)
(***************************************************************************)
EXTENDS MCServices, PortalProofs, FiniteSetTheorems, SequenceTheorems, TLAPS

-----------------------------------------------------------------------------
(* PushSubscriptions *)

\* A send that holds an endpoint for gone is right about it, unless the API has saved the
\* browser's subscription meanwhile; one not yet saved has no row that could be lost.
GoneIsGone ==
    \A s \in Sends, e \in Endpoints \ pushMet :
        e \in send[s].gone => valid[e] = 0 \/ saved[e] # valid[e]

\* No keys are anywhere that no browser has had.
KeysKnown ==
    /\ \A e \in Endpoints : saved[e] <= renewals
    /\ \A e \in Endpoints, keys \in 1 .. MaxRenewals : <<e, keys>> \in posts => keys <= renewals
    /\ \A e \in Endpoints : valid[e] <= renewals

PushInv == PushTypeOK /\ KeysKnown /\ GoneIsGone /\ SubscriberKept

LEMMA PushStart == PushInit => PushInv
BY PushAssumption DEF PushInit, PushInv, PushTypeOK, KeysKnown, GoneIsGone, SubscriberKept

LEMMA PushStep == PushInv /\ [PushNext]_pushVars => PushInv'
<1> SUFFICES ASSUME PushInv, [PushNext]_pushVars
             PROVE  PushInv'
  OBVIOUS
<1> USE PushAssumption DEF PushInv, PushTypeOK
<1>1. ASSUME NEW e \in Endpoints, Renew(e)
      PROVE  PushInv'
  <2>1. PushTypeOK'
    <3>1. renewals + 1 \in 1 .. MaxRenewals /\ renewals' = renewals + 1
      BY <1>1 DEF Renew
    <3>2. <<e, renewals + 1>> \in Endpoints \X (1 .. MaxRenewals)
      BY <3>1
    <3> QED
      BY <1>1, <3>1, <3>2 DEF Renew
  <2>2. KeysKnown'
    BY <1>1 DEF Renew, KeysKnown
  <2>3. \A f \in Endpoints : saved'[f] # valid'[f] \/ (valid'[f] = valid[f] /\ saved'[f] = saved[f])
    BY <1>1 DEF Renew, KeysKnown
  <2>4. GoneIsGone' /\ SubscriberKept'
    BY <1>1, <2>3 DEF Renew, GoneIsGone, SubscriberKept
  <2> QED
    BY <2>1, <2>2, <2>4
<1>2. ASSUME NEW e \in Endpoints, PostAgain(e)
      PROVE  PushInv'
  <2>1. valid[e] \in 1 .. MaxRenewals /\ valid[e] <= renewals
    BY <1>2 DEF PostAgain, KeysKnown
  <2>2. PushTypeOK' /\ KeysKnown'
    BY <1>2, <2>1 DEF PostAgain, KeysKnown
  <2> QED
    BY <1>2, <2>2 DEF PostAgain, GoneIsGone, SubscriberKept
<1>8. ASSUME NEW e \in Endpoints, Unsubscribe(e)
      PROVE  PushInv'
  BY <1>8 DEF Unsubscribe, KeysKnown, GoneIsGone, SubscriberKept
<1>9. ASSUME NEW e \in Endpoints, NEW keys \in 1 .. MaxRenewals, saveSubscription(e, keys)
      PROVE  PushInv'
  <2>1. PushTypeOK' /\ KeysKnown'
    BY <1>9 DEF saveSubscription, KeysKnown
  <2>2. /\ \A f \in Endpoints \ {e} : saved'[f] = saved[f] /\ rows'[f] = rows[f]
        /\ saved'[e] = keys /\ rows'[e] = keys
    BY <1>9 DEF saveSubscription
  <2>3. pushMet \subseteq pushMet' /\ \A s \in Sends : e \in send[s].gone => e \in pushMet'
    BY <1>9 DEF saveSubscription
  <2>4. GoneIsGone'
    BY <1>9, <2>2, <2>3 DEF saveSubscription, GoneIsGone
  <2>5. SubscriberKept'
    BY <1>9, <2>2, <2>3 DEF saveSubscription, SubscriberKept
  <2> QED
    BY <2>1, <2>4, <2>5
<1>10. ASSUME NEW e \in Endpoints, NEW keys \in 1 .. MaxRenewals, PostFails(e, keys)
       PROVE  PushInv'
  BY <1>10 DEF PostFails, KeysKnown, GoneIsGone, SubscriberKept
<1>3. ASSUME NEW s \in Sends, sendToUser(s)
      PROVE  PushInv'
  BY <1>3 DEF sendToUser, KeysKnown, GoneIsGone, SubscriberKept
<1>4. ASSUME NEW s \in Sends, CleanUp(s)
      PROVE  PushInv'
  BY <1>4 DEF CleanUp, KeysKnown, GoneIsGone, SubscriberKept
<1>5. ASSUME NEW s \in Sends, NEW e \in Endpoints, PushAnswer(s, e)
      PROVE  PushInv'
  <2>1. PICK gone \in {FALSE, valid[e] = 0} :
            send' = [send EXCEPT ![s].to = @ \ {e},
                                 ![s].gone = IF gone THEN @ \cup {e} ELSE @]
    BY <1>5 DEF PushAnswer
  <2>2. \A r \in Sends : send'[r].gone \subseteq send[r].gone \cup {f \in {e} : valid[e] = 0}
    BY <2>1
  <2>3. /\ send[s].at = "send"
        /\ send[s].to \ {e} \in SUBSET Endpoints
        /\ send[s].gone \cup {e} \in SUBSET Endpoints
    BY <1>5 DEF PushAnswer
  <2>4. send' \in [Sends -> [at : {"idle", "send", "delete", "ended"},
                             to : SUBSET Endpoints, gone : SUBSET Endpoints]]
    <3>1. CASE gone
      <4>1. send' = [send EXCEPT ![s].to = @ \ {e}, ![s].gone = @ \cup {e}]
        BY <2>1, <3>1
      <4> QED
        BY <2>3, <4>1
    <3>2. CASE ~gone
      <4>1. send' = [send EXCEPT ![s].to = @ \ {e}, ![s].gone = @]
        BY <2>1, <3>2
      <4> QED
        BY <2>3, <4>1
    <3> QED
      BY <3>1, <3>2
  <2>5. PushTypeOK'
    BY <1>5, <2>4 DEF PushAnswer
  <2> QED
    BY <1>5, <2>2, <2>5 DEF PushAnswer, KeysKnown, GoneIsGone, SubscriberKept
<1>6. ASSUME NEW s \in Sends, NEW e \in Endpoints, Delete(s, e)
      PROVE  PushInv'
  <2>1. PushTypeOK'
    <3>1. send[s].gone \ {e} \in SUBSET Endpoints
      OBVIOUS
    <3>2. send' \in [Sends -> [at : {"idle", "send", "delete", "ended"},
                               to : SUBSET Endpoints, gone : SUBSET Endpoints]]
      <4> DEFINE last == send[s].gone = {e}
      <4>0. send' = [send EXCEPT ![s].gone = @ \ {e},
                                 ![s].at = IF last THEN "ended" ELSE @]
        BY <1>6 DEF Delete
      <4> HIDE DEF last
      <4>1. CASE last
        <5>1. send' = [send EXCEPT ![s].gone = @ \ {e}, ![s].at = "ended"]
          BY <4>0, <4>1
        <5> QED
          BY <3>1, <5>1 DEF PushInv, PushTypeOK
      <4>2. CASE ~last
        <5>1. send' = [send EXCEPT ![s].gone = @ \ {e}, ![s].at = @]
          BY <4>0, <4>2
        <5> QED
          BY <3>1, <5>1 DEF PushInv, PushTypeOK
      <4> QED
        BY <4>1, <4>2
    <3>3. rows' \in [Endpoints -> 0 .. MaxRenewals]
      BY <1>6 DEF Delete
    <3> QED
      BY <1>6, <3>2, <3>3 DEF Delete
  <2>2. GoneIsGone'
    BY <1>6 DEF Delete, GoneIsGone
  <2>3. SubscriberKept'
    BY <1>6 DEF Delete, GoneIsGone, SubscriberKept
  <2>4. KeysKnown'
    BY <1>6 DEF Delete, KeysKnown
  <2> QED
    BY <2>1, <2>2, <2>3, <2>4
<1>7. CASE UNCHANGED pushVars
  BY <1>7 DEF pushVars, KeysKnown, GoneIsGone, SubscriberKept
<1> QED
  BY <1>1, <1>2, <1>3, <1>4, <1>5, <1>6, <1>7, <1>8, <1>9, <1>10 DEF PushNext

\* Sends, registrations and withdrawals may overlap as they like.
THEOREM PushInvariance == PushSpec => []PushInv
BY PushStart, PushStep, PTL DEF PushSpec

\* A browser is reached with its current keys once the API has saved them, whatever
\* became of earlier registrations, unless they were saved while a send held the endpoint
\* for gone: no clean-up of sendToUser takes the row of another.
THEOREM NoneForgotten == PushSpec => []SubscriberKept
<1>1. PushInv => SubscriberKept
  BY DEF PushInv
<1> QED
  BY <1>1, PushInvariance, PTL

-----------------------------------------------------------------------------
(* Finance *)

\* A scan under way, an update under way.
Scanning(p) == finScan[p].todo # {} \/ finScan[p].mail # None
Updating(r) == update[r].at \notin {"idle", "ended"}

\* As long as no two scans have met there is one at most, and the mail it extracts from
\* has no transaction.
OneScan ==
    "scan" \notin finMet =>
        \A p \in FinScans : Scanning(p) =>
            /\ \A q \in FinScans : Scanning(q) => q = p
            /\ \A id \in DOMAIN txs : Live(id) => txs[id].mail # finScan[p].mail

OneBooking ==
    "scan" \notin finMet =>
        \A i, j \in DOMAIN txs : Live(i) /\ Live(j) /\ txs[i].mail = txs[j].mail
                                     /\ txs[i].mail # Manual => i = j

\* As long as no two updates of one transaction have met there is one at most, and when
\* it makes a subscription no approval has made one.
OneUpdate ==
    "update" \notin finMet =>
        \A r \in Updates : Updating(r) =>
            /\ \A q \in Updates : Updating(q) /\ update[q].tx = update[r].tx => q = r
            /\ update[r].at = "create" => subs[update[r].tx] = 0

OneSubscription == "update" \notin finMet => \A id \in TxIds : subs[id] <= 1

\* An update is one of a transaction, and has seen to the subscription when it writes.
SeenTo ==
    \A r \in Updates : Updating(r) =>
        /\ update[r].tx \in DOMAIN txs
        /\ update[r].at = "write" /\ update[r].to = "approved"
               /\ txs[update[r].tx].type = "abonnement" => update[r].tx \in hadSub

Recorded == \A id \in TxIds : subs[id] > 0 \/ id \in own => id \in hadSub

Subscribed ==
    \A id \in DOMAIN txs : txs[id].status = "approved" /\ txs[id].type = "abonnement"
                               /\ txs[id].mail # Manual => id \in hadSub

FinanceInv ==
    /\ FinanceTypeOK /\ OneScan /\ OneBooking /\ OneUpdate /\ OneSubscription
    /\ SeenTo /\ Recorded /\ Subscribed

ScanRecord == [todo : SUBSET Bills, mail : Bills \cup {None}]
UpdateSteps == {"idle", "look", "create", "write", "ended"}
UpdateRecord == [at : UpdateSteps, tx : 0 .. MaxTx, to : {"approved", "rejected"}]

LEMMA FinanceFacts ==
    ASSUME FinanceTypeOK
    PROVE  /\ finScan \in [FinScans -> ScanRecord] /\ update \in [Updates -> UpdateRecord]
           /\ \A p \in FinScans : /\ finScan[p].todo \in SUBSET Bills
                                  /\ finScan[p].mail \in Bills \cup {None}
           /\ \A r \in Updates : /\ update[r].at \in UpdateSteps /\ update[r].tx \in 0 .. MaxTx
                                 /\ update[r].to \in {"approved", "rejected"}
BY DEF FinanceTypeOK, ScanRecord, UpdateRecord, UpdateSteps

\* The rows are those of the numbers up to some number.
LEMMA TxFacts ==
    ASSUME FinanceTypeOK
    PROVE  /\ DOMAIN txs \subseteq TxIds
           /\ \A id \in DOMAIN txs : /\ txs[id] \in Rows /\ txs[id].mail \in Bills \cup {Manual}
                                     /\ txs[id].type \in {"eenmalig", "abonnement"}
                                     /\ txs[id].status \in
                                            {"pending", "approved", "rejected", "deleted"}
<1>1. PICK n \in 0 .. MaxTx : txs \in [1 .. n -> Rows]
  BY DEF FinanceTypeOK
<1>2. DOMAIN txs = 1 .. n /\ 1 .. n \subseteq TxIds
  BY <1>1, FinanceAssumption DEF TxIds
<1>3. \A id \in DOMAIN txs : txs[id] \in Rows
  BY <1>1
<1> QED
  BY <1>2, <1>3 DEF Rows

\* A row inserted has a new number and leaves the others as they are.
LEMMA Inserted ==
    ASSUME FinanceTypeOK, NEW row \in Rows, Insert(row)
    PROVE  \E id \in TxIds \ DOMAIN txs :
               /\ \E n \in 0 .. MaxTx : txs' \in [1 .. n -> Rows]
               /\ DOMAIN txs' = DOMAIN txs \cup {id} /\ txs'[id] = row
               /\ \A i \in DOMAIN txs : txs'[i] = txs[i]
<1>1. PICK n \in 0 .. MaxTx : txs \in [1 .. n -> Rows]
  BY DEF FinanceTypeOK
<1>2. Cardinality(DOMAIN txs) = n
  <2>1. n \in Nat /\ DOMAIN txs = 1 .. n
    BY <1>1, FinanceAssumption
  <2>2. Cardinality(1 .. n) = n
    BY <2>1, FS_Interval
  <2> QED
    BY <2>1, <2>2
<1>3. PICK id \in TxIds : id = n + 1 /\ txs' = [i \in 1 .. id |-> IF i = id THEN row ELSE txs[i]]
  BY <1>2 DEF Insert
<1>4. n \in Nat /\ id \in 0 .. MaxTx /\ 1 .. id = (1 .. n) \cup {id} /\ id \notin 1 .. n
  BY <1>1, <1>3, FinanceAssumption DEF TxIds
<1>5. DOMAIN txs = 1 .. n
  BY <1>1
<1>6. txs' \in [1 .. id -> Rows]
  BY <1>1, <1>3, <1>4
<1>7. DOMAIN txs' = DOMAIN txs \cup {id} /\ txs'[id] = row /\ \A i \in DOMAIN txs : txs'[i] = txs[i]
  BY <1>3, <1>4, <1>5
<1> QED
  BY <1>3, <1>4, <1>5, <1>6, <1>7

\* A row's status is set, and nothing else of the rows.
LEMMA StatusSet ==
    ASSUME FinanceTypeOK, NEW id \in DOMAIN txs,
           NEW st \in {"pending", "approved", "rejected", "deleted"},
           txs' = [txs EXCEPT ![id].status = st]
    PROVE  /\ \E n \in 0 .. MaxTx : txs' \in [1 .. n -> Rows]
           /\ DOMAIN txs' = DOMAIN txs /\ txs'[id].status = st
           /\ \A i \in DOMAIN txs : /\ txs'[i].mail = txs[i].mail /\ txs'[i].type = txs[i].type
                                    /\ i # id => txs'[i].status = txs[i].status
<1>1. PICK n \in 0 .. MaxTx : txs \in [1 .. n -> Rows]
  BY DEF FinanceTypeOK
<1>2. txs' \in [1 .. n -> Rows]
  BY <1>1 DEF Rows
<1>3. \A i \in DOMAIN txs : txs[i] \in Rows
  BY <1>1
<1> QED
  BY <1>1, <1>2, <1>3 DEF Rows

LEMMA FinanceStart == FinanceInit => FinanceInv
<1> SUFFICES ASSUME FinanceInit PROVE FinanceInv
  OBVIOUS
<1>1. txs = <<>> /\ DOMAIN txs = {} /\ 1 .. 0 = {}
  BY DEF FinanceInit
<1>2. \E n \in 0 .. MaxTx : txs \in [1 .. n -> Rows]
  <2>1. 0 \in 0 .. MaxTx
    BY FinanceAssumption
  <2>2. txs \in [1 .. 0 -> Rows]
    BY <1>1
  <2> QED
    BY <2>1, <2>2
<1>3. FinanceTypeOK
  BY <1>2, FinanceAssumption DEF FinanceInit, FinanceTypeOK, NoUpdate
<1> QED
  BY <1>1, <1>3 DEF FinanceInit, FinanceInv, OneScan, OneBooking, OneUpdate, OneSubscription, SeenTo,
     Recorded, Subscribed, Scanning, Updating, NoUpdate

\* An update comes to a step and is otherwise as it was, as are the others.
UpdateGoes(r, s) ==
    /\ update'[r].at = s /\ update'[r].tx = update[r].tx /\ update'[r].to = update[r].to
    /\ \A q \in Updates \ {r} : update'[q] = update[q]

LEMMA UpdateAt ==
    ASSUME FinanceTypeOK, NEW r \in Updates, NEW s \in UpdateSteps,
           update' = [update EXCEPT ![r].at = s]
    PROVE  update' \in [Updates -> UpdateRecord] /\ UpdateGoes(r, s)
BY FinanceFacts DEF UpdateRecord, UpdateGoes

\* An update ends, and the others are as they were.
UpdateEnds(r) == update'[r].at = "ended" /\ \A q \in Updates \ {r} : update'[q] = update[q]

LEMMA UpdateOver ==
    ASSUME FinanceTypeOK, NEW r \in Updates, update' = [update EXCEPT ![r] = NoUpdate("ended")]
    PROVE  update' \in [Updates -> UpdateRecord] /\ UpdateEnds(r)
<1>1. NoUpdate("ended") \in UpdateRecord /\ NoUpdate("ended").at = "ended"
  BY FinanceAssumption DEF NoUpdate, UpdateRecord, UpdateSteps
<1> QED
  BY <1>1, FinanceFacts DEF UpdateEnds

LEMMA FinanceStep == FinanceInv /\ [FinanceNext]_financeVars => FinanceInv'
<1> SUFFICES ASSUME FinanceInv, [FinanceNext]_financeVars
             PROVE  FinanceInv'
  OBVIOUS
<1>0. FinanceTypeOK
  BY DEF FinanceInv
<1>1. ASSUME NEW p \in FinScans, Scan(p)
      PROVE  FinanceInv'
  <2>1. /\ finScan' = [finScan EXCEPT ![p].todo = Bills]
        /\ finMet \subseteq finMet' /\ finMet' \subseteq finMet \cup {"scan"}
        /\ "update" \in finMet' <=> "update" \in finMet
        /\ UNCHANGED <<txs, subs, own, update, hadSub>>
        /\ finScan[p].mail = None
    BY <1>1 DEF Scan
  <2>2. "scan" \notin finMet' => \A q \in FinScans : ~Scanning(q)
    BY <1>1 DEF Scan, Scanning
  <2>3. finScan' \in [FinScans -> ScanRecord] /\ finScan'[p].mail = None
    BY <1>0, <2>1, FinanceFacts DEF ScanRecord
  <2>4. \A q \in FinScans \ {p} : finScan'[q] = finScan[q]
    BY <1>0, <2>1 DEF FinanceTypeOK
  <2>5. FinanceTypeOK'
    BY <1>0, <2>1, <2>3 DEF FinanceTypeOK, ScanRecord
  <2>6. \A id \in DOMAIN txs : txs[id].mail # None
    BY <1>0, TxFacts, FinanceAssumption DEF Manual, None
  <2>7. OneScan'
    BY <2>1, <2>2, <2>3, <2>4, <2>6 DEF OneScan, Scanning, Live
  <2>8. OneBooking'
    BY <2>1 DEF FinanceInv, OneBooking, Live
  <2> QED
    BY <2>1, <2>5, <2>7, <2>8 DEF FinanceInv, OneUpdate, OneSubscription, SeenTo, Recorded,
       Subscribed, Updating
<1>2. ASSUME NEW p \in FinScans, NEW b \in Bills, LookUpMail(p, b)
      PROVE  FinanceInv'
  <2>1. PICK m \in {None, b} :
            /\ finScan' = [finScan EXCEPT ![p].todo = @ \ {b}, ![p].mail = m]
            /\ m = b => ~\E id \in DOMAIN txs : Live(id) /\ txs[id].mail = b
    <3>1. b # None
      BY FinanceAssumption
    <3>2. CASE \E id \in DOMAIN txs : Live(id) /\ txs[id].mail = b
      <4>1. finScan' = [finScan EXCEPT ![p].todo = @ \ {b}, ![p].mail = None]
        BY <1>2, <3>2 DEF LookUpMail
      <4> QED
        BY <3>1, <4>1
    <3>3. CASE ~\E id \in DOMAIN txs : Live(id) /\ txs[id].mail = b
      <4>1. finScan' = [finScan EXCEPT ![p].todo = @ \ {b}, ![p].mail = b]
        BY <1>2, <3>3 DEF LookUpMail
      <4> QED
        BY <3>3, <4>1
    <3> QED
      BY <3>2, <3>3
  <2>2. UNCHANGED <<txs, subs, own, update, hadSub, finMet>> /\ Scanning(p)
    BY <1>2 DEF LookUpMail, Scanning
  <2>3. finScan' \in [FinScans -> ScanRecord] /\ finScan'[p].mail = m
    <3>1. finScan[p].todo \ {b} \in SUBSET Bills /\ m \in Bills \cup {None}
      BY <1>0, FinanceFacts
    <3> QED
      BY <1>0, <2>1, <3>1, FinanceFacts DEF ScanRecord
  <2>4. \A q \in FinScans \ {p} : finScan'[q] = finScan[q]
    BY <1>0, <2>1 DEF FinanceTypeOK
  <2>5. FinanceTypeOK'
    BY <1>0, <2>2, <2>3 DEF FinanceTypeOK, ScanRecord
  <2>6. \A id \in DOMAIN txs : txs[id].mail # None
    BY <1>0, TxFacts, FinanceAssumption DEF Manual, None
  <2>7. \A id \in DOMAIN txs : Live(id) => txs[id].mail # m
    BY <2>1, <2>6
  <2>8. OneScan'
    BY <2>2, <2>3, <2>4, <2>7 DEF FinanceInv, OneScan, Scanning, Live
  <2>9. OneBooking'
    BY <2>2 DEF FinanceInv, OneBooking, Live
  <2> QED
    BY <2>2, <2>5, <2>8, <2>9 DEF FinanceInv, OneUpdate, OneSubscription, SeenTo, Recorded,
       Subscribed, Updating
<1>3. ASSUME NEW p \in FinScans, Extract(p)
      PROVE  FinanceInv'
  <2>1. /\ finScan' = [finScan EXCEPT ![p].mail = None] /\ Scanning(p) /\ finScan[p].mail # None
        /\ UNCHANGED <<subs, own, update, hadSub, finMet>>
    BY <1>3 DEF Extract, Scanning
  <2>2. finScan' \in [FinScans -> ScanRecord] /\ finScan'[p].mail = None
    BY <1>0, <2>1, FinanceFacts DEF ScanRecord
  <2>3. \A q \in FinScans \ {p} : finScan'[q] = finScan[q]
    BY <1>0, <2>1 DEF FinanceTypeOK
  <2>4. PICK b \in Bills : b = finScan[p].mail
    BY <1>0, <2>1, FinanceFacts
  <2>5. \A id \in DOMAIN txs : txs[id].mail # None
    BY <1>0, TxFacts, FinanceAssumption DEF Manual, None
  <2>6. CASE UNCHANGED txs
    <3>1. FinanceTypeOK'
      BY <1>0, <2>1, <2>2, <2>6 DEF FinanceTypeOK, ScanRecord
    <3>2. OneScan'
      BY <2>1, <2>2, <2>3, <2>5, <2>6 DEF FinanceInv, OneScan, Scanning, Live
    <3>3. OneBooking'
      BY <2>1, <2>6 DEF FinanceInv, OneBooking, Live
    <3> QED
      BY <2>1, <2>6, <3>1, <3>2, <3>3 DEF FinanceInv, OneUpdate, OneSubscription, SeenTo,
         Recorded, Subscribed, Updating
  <2>7. ASSUME NEW t \in {"eenmalig", "abonnement"},
               Insert([mail |-> finScan[p].mail, type |-> t, status |-> "pending"])
        PROVE  FinanceInv'
    <3>1. PICK row \in Rows : row = [mail |-> b, type |-> t, status |-> "pending"]
      BY DEF Rows
    <3>2. PICK id \in TxIds \ DOMAIN txs :
               /\ \E n \in 0 .. MaxTx : txs' \in [1 .. n -> Rows]
               /\ DOMAIN txs' = DOMAIN txs \cup {id} /\ txs'[id] = row
               /\ \A i \in DOMAIN txs : txs'[i] = txs[i]
      BY <1>0, <2>4, <2>7, <3>1, Inserted
    <3>3. txs'[id].mail = b /\ txs'[id].status = "pending"
      BY <3>1, <3>2
    <3>4. FinanceTypeOK'
      BY <1>0, <2>1, <2>2, <3>2 DEF FinanceTypeOK, ScanRecord
    <3>5. \A q \in FinScans : (Scanning(q))' => Scanning(q)
      BY <2>1, <2>3 DEF Scanning
    <3>6. "scan" \notin finMet => \A i \in DOMAIN txs : Live(i) => txs[i].mail # b
      BY <2>1, <2>4 DEF FinanceInv, OneScan
    <3>7. \A i \in DOMAIN txs' : (Live(i))' => i = id \/ (i \in DOMAIN txs /\ Live(i))
      BY <3>2 DEF Live
    <3>8. b # None
      BY <2>1, <2>4
    <3>9. OneScan'
      <4>1. "scan" \notin finMet =>
                \A q \in FinScans : (Scanning(q))' => q = p
        BY <2>1, <3>5 DEF FinanceInv, OneScan
      <4>2. \A i \in DOMAIN txs' : txs'[i].mail # None
        BY <2>5, <3>2, <3>3, <3>8
      <4> QED
        BY <2>1, <2>2, <4>1, <4>2 DEF OneScan
    <3>10. OneBooking'
      BY <2>1, <3>2, <3>3, <3>6, <3>7 DEF FinanceInv, OneBooking
    <3>11. SeenTo'
      BY <2>1, <3>2 DEF FinanceInv, SeenTo, Updating
    <3>12. Subscribed'
      BY <2>1, <3>2, <3>3 DEF FinanceInv, Subscribed
    <3> QED
      BY <2>1, <3>4, <3>9, <3>10, <3>11, <3>12 DEF FinanceInv, OneUpdate, OneSubscription,
         Recorded, Updating
  <2> QED
    BY <1>3, <2>6, <2>7 DEF Extract
<1>4. ASSUME NEW p \in FinScans, ScanFails(p)
      PROVE  FinanceInv'
  <2>1. /\ finScan' = [finScan EXCEPT ![p] = [todo |-> {}, mail |-> None]]
        /\ UNCHANGED <<txs, subs, own, update, hadSub, finMet>>
    BY <1>4 DEF ScanFails
  <2>2. finScan' \in [FinScans -> ScanRecord] /\ finScan'[p].mail = None /\ finScan'[p].todo = {}
    BY <1>0, <2>1, FinanceFacts DEF ScanRecord
  <2>3. \A q \in FinScans \ {p} : finScan'[q] = finScan[q]
    BY <1>0, <2>1 DEF FinanceTypeOK
  <2>4. FinanceTypeOK'
    BY <1>0, <2>1, <2>2 DEF FinanceTypeOK, ScanRecord
  <2>5. OneScan'
    BY <2>1, <2>2, <2>3 DEF FinanceInv, OneScan, Scanning, Live
  <2>6. OneBooking'
    BY <2>1 DEF FinanceInv, OneBooking, Live
  <2> QED
    BY <2>1, <2>4, <2>5, <2>6 DEF FinanceInv, OneUpdate, OneSubscription, SeenTo, Recorded,
       Subscribed, Updating
<1>5. ASSUME NEW t \in {"eenmalig", "abonnement"}, createTransaction(t)
      PROVE  FinanceInv'
  <2>1. PICK row \in Rows : row = [mail |-> Manual, type |-> t, status |-> "approved"]
    BY DEF Rows
  <2>2. UNCHANGED <<subs, own, finScan, update, hadSub, finMet>> /\ Insert(row)
    BY <1>5, <2>1 DEF createTransaction
  <2>3. PICK id \in TxIds \ DOMAIN txs :
             /\ \E n \in 0 .. MaxTx : txs' \in [1 .. n -> Rows]
             /\ DOMAIN txs' = DOMAIN txs \cup {id} /\ txs'[id] = row
             /\ \A i \in DOMAIN txs : txs'[i] = txs[i]
    BY <1>0, <2>2, Inserted
  <2>4. txs'[id].mail = Manual
    BY <2>1, <2>3
  <2>5. FinanceTypeOK'
    BY <1>0, <2>2, <2>3 DEF FinanceTypeOK
  <2>6. \A i \in DOMAIN txs' : (Live(i))' => i = id \/ (i \in DOMAIN txs /\ Live(i))
    BY <2>3 DEF Live
  <2>7. \A q \in FinScans : finScan[q].mail # Manual
    BY <1>0, FinanceFacts, FinanceAssumption DEF Manual, None
  <2>8. OneScan'
    BY <2>2, <2>3, <2>4, <2>6, <2>7 DEF FinanceInv, OneScan, Scanning
  <2>9. OneBooking'
    BY <2>2, <2>3, <2>4, <2>6 DEF FinanceInv, OneBooking
  <2>10. SeenTo'
    BY <2>2, <2>3 DEF FinanceInv, SeenTo, Updating
  <2>11. Subscribed'
    BY <2>2, <2>3, <2>4 DEF FinanceInv, Subscribed
  <2> QED
    BY <2>2, <2>5, <2>8, <2>9, <2>10, <2>11 DEF FinanceInv, OneUpdate, OneSubscription,
       Recorded, Updating
<1>6. ASSUME NEW id \in TxIds, deleteTransaction(id)
      PROVE  FinanceInv'
  <2>1. /\ id \in DOMAIN txs /\ txs' = [txs EXCEPT ![id].status = "deleted"]
        /\ UNCHANGED <<subs, own, finScan, update, hadSub, finMet>>
    BY <1>6 DEF deleteTransaction, Live
  <2>2. /\ \E n \in 0 .. MaxTx : txs' \in [1 .. n -> Rows]
        /\ DOMAIN txs' = DOMAIN txs /\ txs'[id].status = "deleted"
        /\ \A i \in DOMAIN txs : /\ txs'[i].mail = txs[i].mail /\ txs'[i].type = txs[i].type
                                 /\ i # id => txs'[i].status = txs[i].status
    BY <1>0, <2>1, StatusSet
  <2>3. FinanceTypeOK'
    BY <1>0, <2>1, <2>2 DEF FinanceTypeOK
  <2>4. \A i \in DOMAIN txs : (Live(i))' => Live(i)
    BY <2>1, <2>2 DEF Live
  <2>5. OneScan' /\ OneBooking'
    BY <2>1, <2>2, <2>4 DEF FinanceInv, OneScan, OneBooking, Scanning
  <2>6. SeenTo' /\ Subscribed'
    BY <2>1, <2>2 DEF FinanceInv, SeenTo, Subscribed, Updating
  <2> QED
    BY <2>1, <2>3, <2>5, <2>6 DEF FinanceInv, OneUpdate, OneSubscription, Recorded, Updating
<1>7. ASSUME NEW id \in TxIds, deleteSubscription(id)
      PROVE  FinanceInv'
  <2>1. /\ UNCHANGED <<txs, finScan, update, hadSub, finMet>> /\ own' \subseteq own
        /\ subs' = subs \/ (subs[id] > 0 /\ subs' = [subs EXCEPT ![id] = @ - 1])
    BY <1>7 DEF deleteSubscription
  <2>2. subs' \in [TxIds -> 0 .. 2] /\ \A i \in TxIds : subs'[i] <= subs[i]
    <3>1. CASE subs' = subs
      BY <1>0, <3>1 DEF FinanceTypeOK
    <3>2. CASE subs[id] > 0 /\ subs' = [subs EXCEPT ![id] = @ - 1]
      BY <1>0, <3>2 DEF FinanceTypeOK
    <3> QED
      BY <2>1, <3>1, <3>2
  <2>3. FinanceTypeOK'
    BY <1>0, <2>1, <2>2 DEF FinanceTypeOK
  <2>4. OneScan' /\ OneBooking' /\ SeenTo' /\ Subscribed'
    BY <2>1 DEF FinanceInv, OneScan, OneBooking, Scanning, Live, SeenTo, Subscribed, Updating
  <2>5. \A i \in TxIds : subs[i] \in 0 .. 2 /\ subs'[i] \in 0 .. 2
    BY <1>0, <2>2 DEF FinanceTypeOK
  <2>6. OneUpdate'
    <3>1. \A r \in Updates : Updating(r) => update[r].tx \in TxIds
      BY <1>0, TxFacts DEF FinanceInv, SeenTo
    <3> QED
      BY <2>1, <2>2, <2>5, <3>1 DEF FinanceInv, OneUpdate, Updating
  <2>7. OneSubscription' /\ Recorded'
    BY <2>1, <2>2, <2>5 DEF FinanceInv, OneSubscription, Recorded
  <2> QED
    BY <2>3, <2>4, <2>6, <2>7 DEF FinanceInv
<1>8. ASSUME NEW r \in Updates, NEW id \in TxIds, NEW to \in {"approved", "rejected"},
             LoadTransaction(r, id, to)
      PROVE  FinanceInv'
  <2>1. PICK s \in {"look", "write"} :
            /\ update' = [update EXCEPT ![r] = [at |-> s, tx |-> id, to |-> to]]
            /\ s = "write" => ~(to = "approved" /\ txs[id].type = "abonnement")
    BY <1>8 DEF LoadTransaction
  <2>2. /\ finMet \subseteq finMet' /\ finMet' \subseteq finMet \cup {"update"}
        /\ "scan" \in finMet' <=> "scan" \in finMet
        /\ UNCHANGED <<txs, subs, own, finScan, hadSub>>
        /\ id \in DOMAIN txs
    BY <1>8 DEF LoadTransaction, Live
  <2>3. "update" \notin finMet' => \A q \in Updates : ~(Updating(q) /\ update[q].tx = id)
    BY <1>8 DEF LoadTransaction, Updating
  <2>4. update' \in [Updates -> UpdateRecord] /\ update'[r] = [at |-> s, tx |-> id, to |-> to]
    <3>1. [at |-> s, tx |-> id, to |-> to] \in UpdateRecord
      BY FinanceAssumption DEF UpdateRecord, UpdateSteps, TxIds
    <3> QED
      BY <1>0, <2>1, <3>1, FinanceFacts
  <2>5. \A q \in Updates \ {r} : update'[q] = update[q]
    BY <1>0, <2>1 DEF FinanceTypeOK
  <2>6. FinanceTypeOK'
    BY <1>0, <2>2, <2>4 DEF FinanceTypeOK, UpdateRecord, UpdateSteps
  <2>7. OneScan' /\ OneBooking' /\ Subscribed' /\ Recorded'
    BY <2>2 DEF FinanceInv, OneScan, OneBooking, Scanning, Live, Subscribed, Recorded
  <2>8. OneUpdate'
    BY <2>2, <2>3, <2>4, <2>5 DEF FinanceInv, OneUpdate, Updating
  <2>9. SeenTo'
    BY <2>1, <2>2, <2>4, <2>5 DEF FinanceInv, SeenTo, Updating
  <2>10. OneSubscription'
    BY <2>2 DEF FinanceInv, OneSubscription
  <2> QED
    BY <2>6, <2>7, <2>8, <2>9, <2>10 DEF FinanceInv
<1>9. ASSUME NEW r \in Updates, FindSubscription(r)
      PROVE  FinanceInv'
  <2>1. PICK s \in {"write", "create"} :
            /\ update' = [update EXCEPT ![r].at = s]
            /\ s = "write" <=> subs[update[r].tx] > 0 \/ update[r].tx \in own
    BY <1>9 DEF FindSubscription
  <2>2. UNCHANGED <<txs, subs, own, finScan, hadSub, finMet>> /\ Updating(r)
    BY <1>9 DEF FindSubscription, Updating
  <2>3. s \in UpdateSteps
    BY DEF UpdateSteps
  <2>4. update' \in [Updates -> UpdateRecord] /\ UpdateGoes(r, s)
    BY <1>0, <2>1, <2>3, UpdateAt
  <2>5. FinanceTypeOK'
    BY <1>0, <2>2, <2>4 DEF FinanceTypeOK, UpdateRecord, UpdateSteps
  <2>6. OneScan' /\ OneBooking' /\ Subscribed' /\ Recorded' /\ OneSubscription'
    BY <2>2 DEF FinanceInv, OneScan, OneBooking, Scanning, Live, Subscribed, Recorded, OneSubscription
  <2>7. update[r].tx \in TxIds /\ update[r].tx \in DOMAIN txs
    BY <1>0, <2>2, TxFacts DEF FinanceInv, SeenTo
  <2>8. /\ s = "create" => subs[update[r].tx] = 0
        /\ s = "write" => update[r].tx \in hadSub
    <3>1. subs[update[r].tx] \in 0 .. 2
      BY <1>0, <2>7 DEF FinanceTypeOK
    <3>2. s = "create" => ~(subs[update[r].tx] > 0)
      BY <2>1
    <3>3. s = "write" => update[r].tx \in hadSub
      BY <2>1, <2>7 DEF FinanceInv, Recorded
    <3> QED
      BY <3>1, <3>2, <3>3
  <2>9. OneUpdate'
    BY <2>2, <2>4, <2>8 DEF FinanceInv, OneUpdate, Updating, UpdateGoes
  <2>10. SeenTo'
    BY <2>2, <2>4, <2>8 DEF FinanceInv, SeenTo, Updating, UpdateGoes
  <2> QED
    BY <2>5, <2>6, <2>9, <2>10 DEF FinanceInv
<1>10. ASSUME NEW r \in Updates, SaveSubscription(r)
       PROVE  FinanceInv'
  <2>1. Updating(r) /\ update[r].at = "create"
    BY <1>10 DEF SaveSubscription, Updating
  <2>2. PICK id \in TxIds : id = update[r].tx /\ id \in DOMAIN txs
    BY <1>0, <2>1, TxFacts DEF FinanceInv, SeenTo
  <2>3. /\ subs' = [subs EXCEPT ![id] = IF @ < 2 THEN @ + 1 ELSE @]
        /\ hadSub' = hadSub \cup {id}
        /\ update' = [update EXCEPT ![r].at = "write"]
        /\ UNCHANGED <<txs, own, finScan, finMet>>
    BY <1>10, <2>2 DEF SaveSubscription
  <2>4. "write" \in UpdateSteps
    BY DEF UpdateSteps
  <2>5. update' \in [Updates -> UpdateRecord] /\ UpdateGoes(r, "write")
    BY <1>0, <2>3, <2>4, UpdateAt
  <2>6. /\ subs' \in [TxIds -> 0 .. 2] /\ \A i \in TxIds \ {id} : subs'[i] = subs[i]
        /\ subs[id] = 0 => subs'[id] = 1
    BY <1>0, <2>3 DEF FinanceTypeOK
  <2>7. FinanceTypeOK'
    BY <1>0, <2>3, <2>5, <2>6 DEF FinanceTypeOK, UpdateRecord, UpdateSteps
  <2>8. "update" \notin finMet =>
            subs[id] = 0 /\ \A q \in Updates : Updating(q) /\ update[q].tx = id => q = r
    BY <2>1, <2>2 DEF FinanceInv, OneUpdate
  <2>9. OneScan' /\ OneBooking' /\ Subscribed'
    BY <2>3 DEF FinanceInv, OneScan, OneBooking, Scanning, Live, Subscribed
  <2>10. Recorded' /\ OneSubscription'
    BY <2>3, <2>6, <2>8 DEF FinanceInv, Recorded, OneSubscription
  <2>11. \A q \in Updates : Updating(q) => update[q].tx \in TxIds
    BY <1>0, TxFacts DEF FinanceInv, SeenTo
  <2>12. OneUpdate'
    BY <2>1, <2>2, <2>3, <2>5, <2>6, <2>8, <2>11 DEF FinanceInv, OneUpdate, Updating, UpdateGoes
  <2>13. SeenTo'
    BY <2>1, <2>2, <2>3, <2>5 DEF FinanceInv, SeenTo, Updating, UpdateGoes
  <2> QED
    BY <2>7, <2>9, <2>10, <2>12, <2>13 DEF FinanceInv
<1>11. ASSUME NEW r \in Updates, WriteTransaction(r)
       PROVE  FinanceInv'
  <2>1. Updating(r) /\ update[r].at = "write"
    BY <1>11 DEF WriteTransaction, Updating
  <2>2. PICK id \in TxIds : id = update[r].tx /\ id \in DOMAIN txs
    BY <1>0, <2>1, TxFacts DEF FinanceInv, SeenTo
  <2>3. PICK to \in {"approved", "rejected"} : to = update[r].to
    BY <1>0, FinanceFacts
  <2>4. /\ txs' = IF Live(id) THEN [txs EXCEPT ![id].status = to] ELSE txs
        /\ update' = [update EXCEPT ![r] = NoUpdate("ended")]
        /\ UNCHANGED <<subs, own, finScan, hadSub, finMet>>
    BY <1>11, <2>2, <2>3 DEF WriteTransaction
  <2>6. update' \in [Updates -> UpdateRecord] /\ UpdateEnds(r)
    BY <1>0, <2>4, UpdateOver
  <2>7. /\ \E n \in 0 .. MaxTx : txs' \in [1 .. n -> Rows]
        /\ DOMAIN txs' = DOMAIN txs
        /\ \A i \in DOMAIN txs : /\ txs'[i].mail = txs[i].mail /\ txs'[i].type = txs[i].type
                                 /\ (Live(i))' => Live(i)
                                 /\ \/ txs'[i].status = txs[i].status
                                    \/ i = id /\ txs'[i].status = to
    <3>1. CASE Live(id)
      <4>1. txs' = [txs EXCEPT ![id].status = to]
        BY <2>4, <3>1
      <4>2. to \in {"pending", "approved", "rejected", "deleted"}
        OBVIOUS
      <4>3. /\ \E n \in 0 .. MaxTx : txs' \in [1 .. n -> Rows]
            /\ DOMAIN txs' = DOMAIN txs /\ txs'[id].status = to
            /\ \A i \in DOMAIN txs : /\ txs'[i].mail = txs[i].mail /\ txs'[i].type = txs[i].type
                                     /\ i # id => txs'[i].status = txs[i].status
        BY <1>0, <2>2, <4>1, <4>2, StatusSet
      <4> QED
        BY <3>1, <4>3 DEF Live
    <3>2. CASE ~Live(id)
      BY <1>0, <2>4, <3>2 DEF FinanceTypeOK, Live
    <3> QED
      BY <3>1, <3>2
  <2>8. FinanceTypeOK'
    BY <1>0, <2>4, <2>6, <2>7 DEF FinanceTypeOK, UpdateRecord, UpdateSteps
  <2>9. OneScan' /\ OneBooking'
    BY <2>4, <2>7 DEF FinanceInv, OneScan, OneBooking, Scanning
  <2>10. to = "approved" /\ txs[id].type = "abonnement" => id \in hadSub
    BY <2>1, <2>2, <2>3 DEF FinanceInv, SeenTo
  <2>11. Subscribed'
    BY <2>4, <2>7, <2>10 DEF FinanceInv, Subscribed
  <2>12. OneUpdate'
    BY <2>4, <2>6 DEF FinanceInv, OneUpdate, Updating, UpdateEnds
  <2>13. SeenTo'
    BY <2>4, <2>6, <2>7 DEF FinanceInv, SeenTo, Updating, UpdateEnds
  <2> QED
    BY <2>4, <2>8, <2>9, <2>11, <2>12, <2>13 DEF FinanceInv, OneSubscription, Recorded
<1>12. ASSUME NEW r \in Updates, UpdateFails(r)
       PROVE  FinanceInv'
  <2>1. /\ update' = [update EXCEPT ![r] = NoUpdate("ended")]
        /\ UNCHANGED <<txs, subs, own, finScan, hadSub, finMet>>
    BY <1>12 DEF UpdateFails
  <2>3. update' \in [Updates -> UpdateRecord] /\ UpdateEnds(r)
    BY <1>0, <2>1, UpdateOver
  <2>4. FinanceTypeOK'
    BY <1>0, <2>1, <2>3 DEF FinanceTypeOK, UpdateRecord, UpdateSteps
  <2>5. OneScan' /\ OneBooking' /\ Subscribed' /\ Recorded' /\ OneSubscription'
    BY <2>1 DEF FinanceInv, OneScan, OneBooking, Scanning, Live, Subscribed, Recorded, OneSubscription
  <2>6. OneUpdate' /\ SeenTo'
    BY <2>1, <2>3 DEF FinanceInv, OneUpdate, SeenTo, Updating, UpdateEnds
  <2> QED
    BY <2>4, <2>5, <2>6 DEF FinanceInv
<1>13. ASSUME NEW id \in TxIds, createSubscription(id)
       PROVE  FinanceInv'
  <2>1. /\ own' = own \cup {id} /\ hadSub' = hadSub \cup {id}
        /\ UNCHANGED <<txs, subs, finScan, update, finMet>>
    BY <1>13 DEF createSubscription
  <2>2. FinanceTypeOK'
    BY <1>0, <2>1 DEF FinanceTypeOK
  <2>3. OneScan' /\ OneBooking' /\ OneUpdate' /\ OneSubscription'
    BY <2>1 DEF FinanceInv, OneScan, OneBooking, OneUpdate, OneSubscription, Scanning, Live, Updating
  <2>4. SeenTo' /\ Recorded' /\ Subscribed'
    BY <2>1 DEF FinanceInv, SeenTo, Recorded, Subscribed, Updating
  <2> QED
    BY <2>2, <2>3, <2>4 DEF FinanceInv
<1>14. CASE UNCHANGED financeVars
  <2>1. FinanceTypeOK'
    BY <1>0, <1>14 DEF financeVars, FinanceTypeOK
  <2> QED
    BY <1>14, <2>1 DEF financeVars, FinanceInv, OneScan, OneBooking, OneUpdate, OneSubscription,
       SeenTo, Recorded, Subscribed, Scanning, Updating, Live
<1> QED
  BY <1>1, <1>2, <1>3, <1>4, <1>5, <1>6, <1>7, <1>8, <1>9, <1>10, <1>11, <1>12, <1>13, <1>14
  DEF FinanceNext

\* For any number of mails, scans, updates and transactions.
THEOREM FinanceInvariance == FinanceSpec => []FinanceInv
BY FinanceStart, FinanceStep, PTL DEF FinanceSpec

\* A bill is one transaction unless two scans of the mailbox met, approvals make a
\* transaction one subscription unless two updates of it met (the user may enter others
\* himself), and a recurring bill that was approved has had a subscription.
THEOREM NothingTwice == FinanceSpec => []CountedOnce
<1>1. FinanceInv => CountedOnce
  BY DEF FinanceInv, CountedOnce, OneBooking, OneSubscription, Subscribed
<1> QED
  BY <1>1, FinanceInvariance, PTL

-----------------------------------------------------------------------------
(* DocumentTags *)

\* The tags a job has read are those of a document that came with tags.
CameWithKept ==
    /\ \A d \in TagDocs : Before \in docTags[d]
    /\ \A j \in Jobs : job[j].at = "write" => Before \in job[j].seen

\* A job that will write has read the current tags, and no other job will write, unless
\* both have read them.
OneTagger ==
    \A j \in Jobs : job[j].at = "write" /\ j[1] \notin tagMet =>
        /\ job[j].seen = docTags[j[1]]
        /\ \A k \in Jobs : job[k].at = "write" /\ k[1] = j[1] => k = j

\* A job that will create a tag is the only one and there is none of the name, unless two
\* have looked for it at once.
OneMaker ==
    "name" \notin tagMet =>
        \A j \in Jobs : job[j].at = "create" =>
            /\ tagsNamed[job[j].name] = 0
            /\ \A k \in Jobs : job[k].at = "create" /\ job[k].name = job[j].name => k = j

\* A job goes on only with a name.
JobsNamed == \A j \in Jobs : job[j].at \in {"create", "read", "write"} => job[j].name \in Names

\* What the property says of documents, and of names.
GivenKept == \A d \in TagDocs : d \notin tagMet => given[d] \subseteq docTags[d]
NamedOnce == "name" \notin tagMet => \A n \in Names : tagsNamed[n] <= 1

TagsInv ==
    /\ TagsTypeOK /\ JobsNamed /\ CameWithKept /\ OneTagger /\ OneMaker
    /\ GivenKept /\ NamedOnce

JobSteps == {"idle", "lookup", "create", "read", "write", "ended"}
JobRecord == [at : JobSteps, name : Names \cup {NoTag}, seen : SUBSET (Names \cup {Before})]

LEMMA JobFacts ==
    ASSUME TagsTypeOK
    PROVE  /\ job \in [Jobs -> JobRecord]
           /\ \A j \in Jobs : /\ job[j] \in JobRecord /\ j[1] \in TagDocs
                              /\ job[j].at \in JobSteps
                              /\ job[j].name \in Names \cup {NoTag}
                              /\ job[j].seen \in SUBSET (Names \cup {Before})
BY DEF TagsTypeOK, JobRecord, JobSteps, Jobs

\* A step of job j: where it is then, with which name and which tags.
Turns(j, s, n, tags) ==
    /\ job' \in [Jobs -> JobRecord]
    /\ job'[j].at = s /\ job'[j].name = n /\ job'[j].seen = tags
    /\ \A k \in Jobs \ {j} : job'[k] = job[k]

LEMMA TurnsAt ==
    ASSUME TagsTypeOK, NEW j \in Jobs, NEW s \in JobSteps, job' = [job EXCEPT ![j].at = s]
    PROVE  Turns(j, s, job[j].name, job[j].seen)
BY JobFacts DEF Turns, JobRecord

LEMMA TurnsName ==
    ASSUME TagsTypeOK, NEW j \in Jobs, NEW n \in Names, job' = [job EXCEPT ![j].name = n]
    PROVE  Turns(j, job[j].at, n, job[j].seen)
BY JobFacts DEF Turns, JobRecord

LEMMA TurnsSeen ==
    ASSUME TagsTypeOK, NEW j \in Jobs, NEW s \in JobSteps, NEW tags \in SUBSET (Names \cup {Before}),
           job' = [job EXCEPT ![j].at = s, ![j].seen = tags]
    PROVE  Turns(j, s, job[j].name, tags)
BY JobFacts DEF Turns, JobRecord

LEMMA TagsStart == TagsInit => TagsInv
BY DEF TagsInit, TagsInv, TagsTypeOK, JobsNamed, CameWithKept, OneTagger, OneMaker, GivenKept,
       NamedOnce, Names, Jobs

\* A job that neither will write nor will create, and changes nothing else.
LEMMA QuietTurn ==
    ASSUME TagsInv, NEW j \in Jobs, NEW s \in JobSteps \ {"create", "write"},
           NEW n \in Names \cup {NoTag}, NEW tags, Turns(j, s, n, tags),
           s = "read" => n \in Names,
           UNCHANGED <<tagsNamed, docTags, given>>, tagMet \subseteq tagMet',
           tagMet' \subseteq TagDocs \cup {"name"}
    PROVE  TagsInv'
<1>1. /\ job'[j].at \notin {"create", "write"} /\ job'[j].at = s /\ job'[j].name = n
      /\ \A k \in Jobs \ {j} : job'[k] = job[k]
  BY DEF Turns
<1>2. TagsTypeOK'
  BY DEF TagsInv, TagsTypeOK, Turns, JobRecord, JobSteps
<1>3. JobsNamed'
  BY <1>1 DEF TagsInv, JobsNamed
<1>4. CameWithKept'
  BY <1>1 DEF TagsInv, CameWithKept
<1>5. OneTagger'
  BY <1>1 DEF TagsInv, OneTagger
<1>6. OneMaker'
  BY <1>1 DEF TagsInv, OneMaker
<1>7. GivenKept' /\ NamedOnce'
  BY DEF TagsInv, GivenKept, NamedOnce
<1> QED
  BY <1>2, <1>3, <1>4, <1>5, <1>6, <1>7 DEF TagsInv

LEMMA TagsStep == TagsInv /\ [TagsNext]_tagVars => TagsInv'
<1> SUFFICES ASSUME TagsInv, [TagsNext]_tagVars
             PROVE  TagsInv'
  OBVIOUS
<1>0. TagsTypeOK
  BY DEF TagsInv
<1>1. ASSUME NEW d \in TagDocs, onConsumed(d)
      PROVE  TagsInv'
  <2>1. PICK g \in Jobs : g = <<d, "gpt">>
    BY DEF Jobs
  <2>2. PICK c \in Jobs : c = <<d, "category">>
    BY DEF Jobs
  <2>3. /\ \A j \in Jobs : job[j] \in JobRecord
        /\ GptName \in Names
    BY <1>0, JobFacts DEF Names
  <2>4. /\ job'[g] = [job[g] EXCEPT !.at = "lookup", !.name = GptName]
        /\ job'[c] = [job[c] EXCEPT !.at = "lookup"]
        /\ \A j \in Jobs \ {c, g} : job'[j] = job[j]
        /\ job' \in [Jobs -> JobRecord]
    BY <1>1, <2>1, <2>2, <2>3 DEF onConsumed, JobRecord, JobSteps
  <2>5. \A j \in Jobs : job'[j].at \in {"create", "read", "write"} => job'[j] = job[j]
    BY <2>3, <2>4 DEF JobRecord
  <2>6. TagsTypeOK'
    BY <1>1, <2>4 DEF TagsInv, TagsTypeOK, onConsumed, JobRecord, JobSteps
  <2>7. UNCHANGED <<tagsNamed, docTags, given, tagMet>>
    BY <1>1 DEF onConsumed
  <2>8. JobsNamed' /\ CameWithKept'
    BY <2>5, <2>7 DEF TagsInv, JobsNamed, CameWithKept
  <2>9. OneTagger'
    BY <2>5, <2>7 DEF TagsInv, OneTagger
  <2>10. OneMaker'
    BY <2>5, <2>7 DEF TagsInv, OneMaker
  <2> QED
    BY <2>6, <2>7, <2>8, <2>9, <2>10 DEF TagsInv, GivenKept, NamedOnce
<1>2. ASSUME NEW d \in TagDocs, NEW c \in Categories, Classify(d, c)
      PROVE  TagsInv'
  <2>1. PICK j \in Jobs : j = <<d, "category">>
    BY DEF Jobs
  <2>2. c \in Names /\ "lookup" \in JobSteps \ {"create", "write"} /\ job[j].at = "lookup"
    BY <1>2, <2>1 DEF Names, JobSteps, Classify
  <2>3. Turns(j, job[j].at, c, job[j].seen)
    BY <1>0, <1>2, <2>1, <2>2, TurnsName DEF Classify
  <2>4. UNCHANGED <<tagsNamed, docTags, given>> /\ UNCHANGED tagMet
    BY <1>2 DEF Classify
  <2> QED
    BY <2>2, <2>3, <2>4, QuietTurn DEF TagsInv, TagsTypeOK
<1>3. ASSUME NEW j \in Jobs, JobFails(j)
      PROVE  TagsInv'
  <2>1. "ended" \in JobSteps \ {"create", "write"} /\ {} \in SUBSET (Names \cup {Before})
    BY DEF JobSteps
  <2>2. Turns(j, "ended", job[j].name, {})
    BY <1>0, <1>3, <2>1, TurnsSeen DEF JobFails
  <2>3. job[j].name \in Names \cup {NoTag}
    BY <1>0, JobFacts
  <2> QED
    BY <1>3, <2>1, <2>2, <2>3, QuietTurn DEF JobFails, TagsInv, TagsTypeOK
<1>4. ASSUME NEW j \in Jobs, FindTag(j)
      PROVE  TagsInv'
  <2>1. job[j].name \in Names /\ job[j].at = "lookup"
    BY <1>0, <1>4, JobFacts DEF FindTag
  <2>2. tagMet \subseteq tagMet' /\ tagMet' \subseteq TagDocs \cup {"name"}
    BY <1>0, <1>4 DEF FindTag, TagsTypeOK
  <2>3. UNCHANGED <<tagsNamed, docTags, given>>
    BY <1>4 DEF FindTag
  <2>4. CASE tagsNamed[job[j].name] > 0
    <3>1. "read" \in JobSteps \ {"create", "write"}
      BY DEF JobSteps
    <3>2. Turns(j, "read", job[j].name, job[j].seen)
      BY <1>0, <1>4, <2>4, <3>1, TurnsAt DEF FindTag
    <3> QED
      BY <2>1, <2>2, <2>3, <3>1, <3>2, QuietTurn
  <2>5. CASE ~(tagsNamed[job[j].name] > 0)
    <3>1. "create" \in JobSteps
      BY DEF JobSteps
    <3>2. Turns(j, "create", job[j].name, job[j].seen)
      BY <1>0, <1>4, <2>5, <3>1, TurnsAt DEF FindTag
    <3>3. /\ job'[j].at = "create" /\ job'[j].name = job[j].name
          /\ \A k \in Jobs \ {j} : job'[k] = job[k]
      BY <3>2 DEF Turns
    <3>4. tagsNamed[job[j].name] = 0
      BY <1>0, <2>1, <2>5 DEF TagsTypeOK
    <3>5. "name" \notin tagMet' =>
              \A k \in Jobs \ {j} : ~(job[k].at = "create" /\ job[k].name = job[j].name)
      BY <1>4 DEF FindTag
    <3>6. TagsTypeOK'
      BY <2>2, <2>3, <3>2 DEF TagsInv, TagsTypeOK, Turns, JobRecord, JobSteps
    <3>7. JobsNamed'
      BY <2>1, <3>3 DEF TagsInv, JobsNamed
    <3>8. CameWithKept' /\ OneTagger'
      BY <2>2, <2>3, <3>3 DEF TagsInv, CameWithKept, OneTagger
    <3>9. OneMaker'
      BY <2>2, <2>3, <3>3, <3>4, <3>5 DEF TagsInv, OneMaker
    <3> QED
      BY <2>2, <2>3, <3>6, <3>7, <3>8, <3>9 DEF TagsInv, GivenKept, NamedOnce
  <2> QED
    BY <2>4, <2>5
<1>5. ASSUME NEW j \in Jobs, CreateTag(j)
      PROVE  TagsInv'
  <2>1. PICK s \in {"read", "ended"} : job' = [job EXCEPT ![j].at = s]
    BY <1>5 DEF CreateTag
  <2>2. PICK n \in Names : n = job[j].name
    BY <1>5 DEF CreateTag, TagsInv, JobsNamed
  <2>3. s \in JobSteps
    BY DEF JobSteps
  <2>4. Turns(j, s, n, job[j].seen)
    BY <1>0, <2>1, <2>2, <2>3, TurnsAt
  <2>5. /\ job[j].at = "create" /\ job'[j].at = s /\ job'[j].name = n
        /\ \A k \in Jobs \ {j} : job'[k] = job[k]
    BY <1>5, <2>4 DEF Turns, CreateTag
  <2>6. /\ tagsNamed' = [tagsNamed EXCEPT ![n] = IF @ < 2 THEN @ + 1 ELSE @]
        /\ UNCHANGED <<docTags, given, tagMet>>
    BY <1>5, <2>2 DEF CreateTag
  <2>7. TagsTypeOK'
    <3>1. tagsNamed' \in [Names -> 0 .. 2]
      BY <1>0, <2>6 DEF TagsTypeOK
    <3> QED
      BY <1>0, <2>4, <2>6, <3>1 DEF TagsTypeOK, Turns, JobRecord, JobSteps
  <2>8. JobsNamed'
    BY <2>5 DEF TagsInv, JobsNamed
  <2>9. CameWithKept' /\ OneTagger'
    BY <2>5, <2>6 DEF TagsInv, CameWithKept, OneTagger
  <2>10. "name" \notin tagMet => tagsNamed[n] = 0
    BY <2>2, <2>5 DEF TagsInv, OneMaker
  <2>11. \A m \in Names \ {n} : tagsNamed'[m] = tagsNamed[m]
    BY <1>0, <2>6 DEF TagsTypeOK
  <2>12. "name" \notin tagMet => \A k \in Jobs \ {j} : job[k].at = "create" => job[k].name # n
    BY <2>2, <2>5 DEF TagsInv, OneMaker
  <2>13. OneMaker'
    BY <2>5, <2>6, <2>11, <2>12 DEF TagsInv, OneMaker, JobsNamed
  <2>14. NamedOnce'
    <3>1. "name" \notin tagMet => tagsNamed'[n] = 1
      BY <1>0, <2>6, <2>10 DEF TagsTypeOK
    <3> QED
      BY <2>6, <2>11, <3>1 DEF TagsInv, NamedOnce
  <2> QED
    BY <2>6, <2>7, <2>8, <2>9, <2>13, <2>14 DEF TagsInv, GivenKept
<1>6. ASSUME NEW j \in Jobs, ReadTags(j)
      PROVE  TagsInv'
  <2>1. PICK d \in TagDocs : d = j[1]
    BY <1>0, JobFacts
  <2>2. /\ job[j].at = "read" /\ job[j].name \in Names
        /\ UNCHANGED <<tagsNamed, docTags, given>>
        /\ tagMet \subseteq tagMet' /\ tagMet' \subseteq TagDocs \cup {"name"}
    BY <1>0, <1>6, <2>1 DEF ReadTags, TagsTypeOK, TagsInv, JobsNamed
  <2>3. docTags[d] \in SUBSET (Names \cup {Before})
    BY <1>0 DEF TagsTypeOK
  <2>4. CASE j[2] = "gpt" /\ job[j].name \in docTags[d]
    <3>1. "ended" \in JobSteps \ {"create", "write"} /\ {} \in SUBSET (Names \cup {Before})
      BY DEF JobSteps
    <3>2. Turns(j, "ended", job[j].name, {})
      <4>1. job' = [job EXCEPT ![j].at = "ended", ![j].seen = {}]
        BY <1>6, <2>1, <2>4 DEF ReadTags
      <4> QED
        BY <1>0, <3>1, <4>1, TurnsSeen
    <3> QED
      BY <2>2, <3>1, <3>2, QuietTurn
  <2>5. CASE ~(j[2] = "gpt" /\ job[j].name \in docTags[d])
    <3>1. Turns(j, "write", job[j].name, docTags[d])
      <4>1. job' = [job EXCEPT ![j].at = "write", ![j].seen = docTags[d]]
        BY <1>6, <2>1, <2>5 DEF ReadTags
      <4>2. "write" \in JobSteps
        BY DEF JobSteps
      <4> QED
        BY <1>0, <2>3, <4>1, <4>2, TurnsSeen
    <3>2. /\ job'[j].at = "write" /\ job'[j].name = job[j].name /\ job'[j].seen = docTags[d]
          /\ \A k \in Jobs \ {j} : job'[k] = job[k]
      BY <3>1 DEF Turns
    <3>3. d \notin tagMet' => \A k \in Jobs \ {j} : ~(k[1] = d /\ job[k].at = "write")
      BY <1>6, <2>1 DEF ReadTags
    <3>4. TagsTypeOK'
      BY <2>2, <3>1 DEF TagsInv, TagsTypeOK, Turns, JobRecord, JobSteps
    <3>5. JobsNamed' /\ CameWithKept'
      BY <2>2, <3>2 DEF TagsInv, JobsNamed, CameWithKept
    <3>6. OneTagger'
      BY <2>1, <2>2, <3>2, <3>3 DEF TagsInv, OneTagger
    <3>7. OneMaker'
      BY <2>2, <3>2 DEF TagsInv, OneMaker
    <3> QED
      BY <2>2, <3>4, <3>5, <3>6, <3>7 DEF TagsInv, GivenKept, NamedOnce
  <2> QED
    BY <2>4, <2>5
<1>7. ASSUME NEW j \in Jobs, WriteTags(j)
      PROVE  TagsInv'
  <2>1. PICK d \in TagDocs : d = j[1]
    BY <1>0, JobFacts
  <2>2. PICK n \in Names : n = job[j].name
    BY <1>7 DEF WriteTags, TagsInv, JobsNamed
  <2>3. PICK tags \in SUBSET (Names \cup {Before}) : tags = job[j].seen
    BY <1>0, JobFacts
  <2>4. /\ docTags' = [docTags EXCEPT ![d] = tags \cup {n}]
        /\ given' = [given EXCEPT ![d] = @ \cup {n}]
        /\ UNCHANGED <<tagsNamed, tagMet>>
        /\ job[j].at = "write"
    BY <1>7, <2>1, <2>2, <2>3 DEF WriteTags
  <2>5. Turns(j, "ended", n, {})
    <3>1. "ended" \in JobSteps /\ {} \in SUBSET (Names \cup {Before})
      BY DEF JobSteps
    <3> QED
      BY <1>0, <1>7, <2>2, <3>1, TurnsSeen DEF WriteTags
  <2>6. /\ job'[j].at = "ended" /\ \A k \in Jobs \ {j} : job'[k] = job[k]
    BY <2>5 DEF Turns
  <2>7. /\ docTags'[d] = tags \cup {n} /\ given'[d] = given[d] \cup {n}
        /\ \A e \in TagDocs \ {d} : docTags'[e] = docTags[e] /\ given'[e] = given[e]
    BY <1>0, <2>4 DEF TagsTypeOK
  <2>8. TagsTypeOK'
    <3>1. /\ docTags' \in [TagDocs -> SUBSET (Names \cup {Before})]
          /\ given' \in [TagDocs -> SUBSET Names]
      <4>1. tags \cup {n} \in SUBSET (Names \cup {Before}) /\ given[d] \cup {n} \in SUBSET Names
        BY <1>0 DEF TagsTypeOK
      <4> QED
        BY <1>0, <2>4, <4>1 DEF TagsTypeOK
    <3> QED
      BY <1>0, <2>4, <2>5, <3>1 DEF TagsTypeOK, Turns, JobRecord, JobSteps
  <2>9. JobsNamed'
    BY <2>6 DEF TagsInv, JobsNamed
  <2>10. CameWithKept'
    BY <2>3, <2>4, <2>6, <2>7 DEF TagsInv, CameWithKept
  <2>11. d \notin tagMet
             => tags = docTags[d] /\ \A k \in Jobs \ {j} : ~(job[k].at = "write" /\ k[1] = d)
    BY <2>1, <2>3, <2>4 DEF TagsInv, OneTagger
  <2>12. OneTagger'
    <3>1. \A k \in Jobs : k[1] \in TagDocs
      BY <1>0, JobFacts
    <3> QED
      BY <2>4, <2>6, <2>7, <2>11, <3>1 DEF TagsInv, OneTagger
  <2>13. OneMaker' /\ NamedOnce'
    BY <2>4, <2>6 DEF TagsInv, OneMaker, NamedOnce
  <2>14. GivenKept'
    BY <2>4, <2>7, <2>11 DEF TagsInv, GivenKept
  <2> QED
    BY <2>8, <2>9, <2>10, <2>12, <2>13, <2>14 DEF TagsInv
<1>8. CASE UNCHANGED tagVars
  BY <1>8 DEF tagVars, TagsInv, TagsTypeOK, JobsNamed, CameWithKept, OneTagger, OneMaker,
              GivenKept, NamedOnce
<1> QED
  BY <1>1, <1>2, <1>3, <1>4, <1>5, <1>6, <1>7, <1>8 DEF TagsNext

\* Any number of documents may be tagged at once, and every call may fail.
THEOREM TagsInvariance == TagsSpec => []TagsInv
BY TagsStart, TagsStep, PTL DEF TagsSpec

\* The two jobs of onConsumed take no tag from a document, and make no tag twice, unless
\* both had read the document's tags, or two had looked for the name.
THEOREM NoTagTaken == TagsSpec => []TagsKept
<1>1. TagsInv => TagsKept
  BY DEF TagsInv, TagsKept, CameWithKept, GivenKept, NamedOnce
<1> QED
  BY <1>1, TagsInvariance, PTL

-----------------------------------------------------------------------------
(* ProactiveHints *)

\* A list of hints has none twice.
NoneTwice(list) ==
    \A j, k \in DOMAIN list :
        list[j].source = list[k].source /\ list[j].ref = list[k].ref /\ list[j].ref # NoRef => j = k

\* A scan is shown items of its source, each once.
ShownOnce ==
    \A source \in Sources : \A j \in DOMAIN shown[source] :
        /\ SourceOf[shown[source][j]] = source
        /\ \A k \in DOMAIN shown[source] : shown[source][j] = shown[source][k] => j = k

FoundOnce == \A s \in Scans : NoneTwice(scan[s].found)

\* As long as no two scans have met, there is one that may insert at most, and it knows
\* every row there is.
AtWork(s) == scan[s].at \in {"lookup", "save"}
OneAtWork == ~scansMet => \A s, t \in Scans : AtWork(s) /\ AtWork(t) => s = t
KnowsAll ==
    ~scansMet => \A s \in Scans : scan[s].at = "save" =>
        \A n \in DOMAIN hints : hints[n].ref # NoRef => hints[n].ref \in scan[s].known

\* A request that makes an event has a row that is not pending any more.
RowsOfRequests ==
    \A a \in Accepts : accepting[a].at # "idle" =>
        /\ accepting[a].row \in DOMAIN hints
        /\ accepting[a].at # "save" => hints[accepting[a].row].status # "pending"

\* Every event was made by a request of its own that has ended.
EndedFor(n) == {a \in Accepts : accepting[a].at = "ended" /\ accepting[a].row = n}
EventsCounted ==
    \A n \in 1 .. MaxHints :
        /\ events[n] <= Cardinality(EndedFor(n))
        /\ events[n] > 0 => n \in DOMAIN hints /\ hints[n].status # "pending"

HintsInv ==
    /\ HintsTypeOK /\ ShownOnce /\ FoundOnce /\ OneAtWork /\ KnowsAll
    /\ OfferedOnce /\ RowsOfRequests /\ EventsCounted

LEMMA HintsFacts ==
    ASSUME HintsTypeOK
    PROVE  /\ hints \in Seq(Hints) /\ Len(hints) \in 0 .. MaxHints /\ DOMAIN hints = 1 .. Len(hints)
           /\ \A n \in DOMAIN hints : hints[n] \in Hints /\ n \in 1 .. MaxHints
           /\ \A source \in Sources : /\ shown[source] \in Seq(Items) /\ Len(shown[source]) \in Nat
                                      /\ DOMAIN shown[source] = 1 .. Len(shown[source])
           /\ \A s \in Scans : /\ scan[s].found \in Seq(Hints) /\ Len(scan[s].found) \in Nat
                               /\ DOMAIN scan[s].found = 1 .. Len(scan[s].found)
<1>1. hints \in Seq(Hints) /\ Len(hints) \in 0 .. MaxHints /\ DOMAIN hints = 1 .. Len(hints)
  BY DEF HintsTypeOK
<1>2. \A n \in DOMAIN hints : hints[n] \in Hints /\ n \in 1 .. MaxHints
  BY <1>1, HintsAssumption
<1>3. \A source \in Sources : /\ shown[source] \in Seq(Items) /\ Len(shown[source]) \in Nat
                              /\ DOMAIN shown[source] = 1 .. Len(shown[source])
  <2>1. \A source \in Sources : shown[source] \in Seq(Items)
    BY DEF HintsTypeOK
  <2> QED
    BY <2>1
<1>4. \A s \in Scans : /\ scan[s].found \in Seq(Hints) /\ Len(scan[s].found) \in Nat
                       /\ DOMAIN scan[s].found = 1 .. Len(scan[s].found)
  <2>1. \A s \in Scans : scan[s].found \in Seq(Hints)
    BY DEF HintsTypeOK
  <2> QED
    BY <2>1
<1> QED
  BY <1>1, <1>2, <1>3, <1>4

LEMMA HintsStart == HintsInit => HintsInv
<1> SUFFICES ASSUME HintsInit PROVE HintsInv
  OBVIOUS
<1>1. HintsTypeOK
  <2>1. 0 \in 0 .. MaxHints
    BY HintsAssumption
  <2>2. shown \in [Sources -> Seq(Items)]
    BY DEF HintsInit
  <2>3. hints \in Seq(Hints) /\ Len(hints) <= MaxHints
    BY HintsAssumption DEF HintsInit
  <2>4. scan \in [Scans -> [at : {"idle", "lookup", "save", "alerts", "ended"},
                           found : Seq(Hints), known : SUBSET Refs]]
    BY DEF HintsInit
  <2>5. accepting \in [Accepts -> [at : {"idle", "save", "create", "ended"}, row : 0 .. MaxHints]]
    BY <2>1 DEF HintsInit
  <2> QED
    BY <2>2, <2>3, <2>4, <2>5 DEF HintsInit, HintsTypeOK
<1>2. ShownOnce /\ FoundOnce /\ OneAtWork /\ KnowsAll /\ OfferedOnce /\ RowsOfRequests
  BY DEF HintsInit, ShownOnce, FoundOnce, NoneTwice, OneAtWork, AtWork, KnowsAll, OfferedOnce,
         RowsOfRequests
<1>3. EventsCounted
  <2>1. \A n \in 1 .. MaxHints : events[n] = 0 /\ EndedFor(n) = {}
    BY DEF HintsInit, EndedFor
  <2> QED
    BY <2>1, FS_EmptySet DEF EventsCounted
<1> QED
  BY <1>1, <1>2, <1>3 DEF HintsInv

\* A list without its n-th element.
LEMMA RemovedIs ==
    ASSUME NEW S, NEW list \in Seq(S), NEW n \in DOMAIN list
    PROVE  /\ RemoveAt(list, n) \in Seq(S)
           /\ DOMAIN RemoveAt(list, n) = 1 .. (Len(list) - 1)
           /\ \A k \in 1 .. (Len(list) - 1) :
                  RemoveAt(list, n)[k] = IF k < n THEN list[k] ELSE list[k + 1]
<1>1. PICK m \in Nat : m = Len(list) /\ DOMAIN list = 1 .. m
  OBVIOUS
<1>2. n \in 1 .. m
  BY <1>1
<1> DEFINE front == SubSeq(list, 1, n - 1)
           back == SubSeq(list, n + 1, m)
<1>3. front \in Seq(S) /\ Len(front) = n - 1 /\ \A k \in 1 .. n - 1 : front[k] = list[k]
  <2>1. \A i \in 1 .. n - 1 : list[i] \in S
    BY <1>1, <1>2
  <2>2. n - 1 \in Int /\ (IF 1 <= n - 1 THEN (n - 1) - 1 + 1 ELSE 0) = n - 1
        /\ (n - 1) - 1 + 1 = n - 1 /\ \A i \in 1 .. n - 1 : 1 + i - 1 = i
    BY <1>2
  <2> QED
    BY <2>1, <2>2, SubSeqProperties
<1>4. back \in Seq(S) /\ Len(back) = m - n /\ \A k \in 1 .. m - n : back[k] = list[n + k]
  <2>1. \A i \in n + 1 .. m : list[i] \in S
    BY <1>1, <1>2
  <2>2. n + 1 \in Int /\ (IF n + 1 <= m THEN m - (n + 1) + 1 ELSE 0) = m - n
        /\ m - (n + 1) + 1 = m - n /\ \A i \in 1 .. m - n : (n + 1) + i - 1 = n + i
    BY <1>2
  <2> QED
    BY <2>1, <2>2, SubSeqProperties
<1> HIDE DEF front, back
<1>5. /\ front \o back \in Seq(S) /\ Len(front \o back) = m - 1
      /\ \A k \in 1 .. m - 1 : (front \o back)[k] = IF k <= n - 1 THEN front[k] ELSE back[k - (n - 1)]
  <2>1. (n - 1) + (m - n) = m - 1
    BY <1>2
  <2>2. /\ front \o back \in Seq(S) /\ Len(front \o back) = Len(front) + Len(back)
        /\ \A k \in 1 .. Len(front) + Len(back) :
               (front \o back)[k] = IF k <= Len(front) THEN front[k] ELSE back[k - Len(front)]
    BY <1>3, <1>4, ConcatProperties
  <2> QED
    BY <1>3, <1>4, <2>1, <2>2
<1>6. \A k \in 1 .. m - 1 : (front \o back)[k] = IF k < n THEN list[k] ELSE list[k + 1]
  <2> SUFFICES ASSUME NEW k \in 1 .. m - 1
               PROVE  (front \o back)[k] = IF k < n THEN list[k] ELSE list[k + 1]
    OBVIOUS
  <2>1. CASE k < n
    <3>1. k \in 1 .. n - 1 /\ k <= n - 1
      BY <1>2, <2>1
    <3> QED
      BY <1>3, <1>5, <2>1, <3>1
  <2>2. CASE ~(k < n)
    <3>1. ~(k <= n - 1) /\ k - (n - 1) \in 1 .. m - n /\ n + (k - (n - 1)) = k + 1
      BY <1>2, <2>2
    <3> QED
      BY <1>4, <1>5, <2>2, <3>1
  <2> QED
    BY <2>1, <2>2
<1>7. RemoveAt(list, n) = front \o back
  BY <1>1 DEF RemoveAt, front, back
<1>8. DOMAIN (front \o back) = 1 .. (m - 1)
  BY <1>5
<1> QED
  BY <1>1, <1>5, <1>6, <1>7, <1>8

\* What the steps that leave the rows and the requests alone keep.
LEMMA ShownChanges ==
    ASSUME HintsInv, UNCHANGED <<hints, events, scan, accepting, scansMet>>, ShownOnce',
           shown' \in [Sources -> Seq(Items)]
    PROVE  HintsInv'
BY DEF HintsInv, HintsTypeOK, FoundOnce, NoneTwice, OneAtWork, AtWork, KnowsAll, OfferedOnce,
       RowsOfRequests, EventsCounted, EndedFor

LEMMA HintsArrives == \A i \in Items : HintsInv /\ ItemArrives(i) => HintsInv'
<1> SUFFICES ASSUME NEW i \in Items, HintsInv, ItemArrives(i) PROVE HintsInv'
  OBVIOUS
<1>1. PICK source \in Sources : source = SourceOf[i]
  BY HintsAssumption
<1>2. PICK list \in Seq(Items) : list = shown[source]
  BY HintsFacts DEF HintsInv
<1>3. shown' = [shown EXCEPT ![source] = <<i>> \o list]
  BY <1>1, <1>2 DEF ItemArrives
<1>4. PICK m \in Nat : m = Len(list) /\ DOMAIN list = 1 .. m
  BY <1>2
<1>5. /\ <<i>> \o list \in Seq(Items) /\ DOMAIN (<<i>> \o list) = 1 .. m + 1
      /\ (<<i>> \o list)[1] = i /\ \A k \in 2 .. m + 1 : (<<i>> \o list)[k] = list[k - 1]
  <2>1. <<i>> \in Seq(Items) /\ Len(<<i>>) = 1 /\ <<i>>[1] = i
    OBVIOUS
  <2>2. /\ <<i>> \o list \in Seq(Items) /\ Len(<<i>> \o list) = 1 + m
        /\ \A k \in 1 .. 1 + m : (<<i>> \o list)[k] = IF k <= 1 THEN <<i>>[k] ELSE list[k - 1]
    BY <1>4, <2>1, ConcatProperties
  <2>3. 1 + m = m + 1 /\ 1 \in 1 .. m + 1 /\ \A k \in 2 .. m + 1 : k \in 1 .. m + 1 /\ ~(k <= 1)
    BY <1>4
  <2> QED
    BY <2>1, <2>2, <2>3
<1>6. shown \in [Sources -> Seq(Items)]
  BY DEF HintsInv, HintsTypeOK
<1>7. PICK more \in Seq(Items) : more = <<i>> \o list
  BY <1>5
<1>8. /\ shown' \in [Sources -> Seq(Items)] /\ shown'[source] = more
      /\ \A other \in Sources : other # source => shown'[other] = shown[other]
  BY <1>3, <1>6, <1>7
<1>9. ShownOnce'
  <2> SUFFICES ASSUME NEW other \in Sources
               PROVE  \A j \in DOMAIN shown'[other] :
                          /\ SourceOf[shown'[other][j]] = other
                          /\ \A k \in DOMAIN shown'[other] :
                                 shown'[other][j] = shown'[other][k] => j = k
    BY DEF ShownOnce
  <2>1. CASE other # source
    BY <1>8, <2>1 DEF HintsInv, ShownOnce
  <2>2. CASE other = source
    <3>a. \A j \in 1 .. m : /\ SourceOf[list[j]] = source
                            /\ \A k \in 1 .. m : list[j] = list[k] => j = k
      BY <1>2, <1>4 DEF HintsInv, ShownOnce
    <3>b. \A j \in 1 .. m : list[j] # i
      BY <1>1, <1>2, <1>4 DEF ItemArrives, Range
    <3>1. \A j \in 1 .. m : /\ SourceOf[list[j]] = source /\ list[j] # i
                            /\ \A k \in 1 .. m : list[j] = list[k] => j = k
      BY <3>a, <3>b
    <3>2. \A j \in 1 .. m + 1 : j = 1 \/ (j \in 2 .. m + 1 /\ j - 1 \in 1 .. m)
      BY <1>4
    <3>3. \A j \in 1 .. m + 1 : SourceOf[more[j]] = source
      BY <1>1, <1>5, <1>7, <3>1, <3>2
    <3>4. \A j, k \in 2 .. m + 1 : j - 1 = k - 1 => j = k
      BY <1>4
    <3>5. \A j, k \in 1 .. m + 1 : more[j] = more[k] => j = k
      BY <1>5, <1>7, <3>1, <3>2, <3>4
    <3>6. shown'[other] = more /\ DOMAIN more = 1 .. m + 1
      BY <1>5, <1>7, <1>8, <2>2
    <3> QED
      BY <2>2, <3>3, <3>5, <3>6
  <2> QED
    BY <2>1, <2>2
<1> QED
  BY <1>8, <1>9, ShownChanges DEF ItemArrives

LEMMA HintsRead == \A source \in Sources : HintsInv /\ MarkRead(source) => HintsInv'
<1> SUFFICES ASSUME NEW source \in Sources, HintsInv, MarkRead(source) PROVE HintsInv'
  OBVIOUS
<1>1. PICK list \in Seq(Items) : list = shown[source]
  BY HintsFacts DEF HintsInv
<1>2. PICK n \in DOMAIN list : shown' = [shown EXCEPT ![source] = RemoveAt(list, n)]
  BY <1>1 DEF MarkRead
<1>3. PICK m \in Nat : m = Len(list) /\ DOMAIN list = 1 .. m
  BY <1>1
<1>4. PICK less \in Seq(Items) :
          /\ less = RemoveAt(list, n) /\ DOMAIN less = 1 .. m - 1
          /\ \A k \in 1 .. m - 1 : less[k] = IF k < n THEN list[k] ELSE list[k + 1]
  BY <1>2, <1>3, RemovedIs
<1>5. shown \in [Sources -> Seq(Items)]
  BY DEF HintsInv, HintsTypeOK
<1>6. /\ shown' \in [Sources -> Seq(Items)] /\ shown'[source] = less
      /\ \A other \in Sources : other # source => shown'[other] = shown[other]
  BY <1>2, <1>4, <1>5
<1>7. ShownOnce'
  <2> SUFFICES ASSUME NEW other \in Sources
               PROVE  \A j \in DOMAIN shown'[other] :
                          /\ SourceOf[shown'[other][j]] = other
                          /\ \A k \in DOMAIN shown'[other] :
                                 shown'[other][j] = shown'[other][k] => j = k
    BY DEF ShownOnce
  <2>1. CASE other # source
    BY <1>6, <2>1 DEF HintsInv, ShownOnce
  <2>2. CASE other = source
    <3>1. \A j \in 1 .. m : /\ SourceOf[list[j]] = source
                            /\ \A k \in 1 .. m : list[j] = list[k] => j = k
      BY <1>1, <1>3 DEF HintsInv, ShownOnce
    <3> DEFINE from(k) == IF k < n THEN k ELSE k + 1
    <3>2. \A k \in 1 .. m - 1 : from(k) \in 1 .. m /\ less[k] = list[from(k)]
      BY <1>3, <1>4
    <3>3. \A j, k \in 1 .. m - 1 : from(j) = from(k) => j = k
      BY <1>3
    <3> HIDE DEF from
    <3>4. \A j \in 1 .. m - 1 : /\ SourceOf[less[j]] = source
                                /\ \A k \in 1 .. m - 1 : less[j] = less[k] => j = k
      <4> SUFFICES ASSUME NEW j \in 1 .. m - 1
                   PROVE  /\ SourceOf[less[j]] = source
                          /\ \A k \in 1 .. m - 1 : less[j] = less[k] => j = k
        OBVIOUS
      <4>1. from(j) \in 1 .. m /\ less[j] = list[from(j)]
        BY <3>2
      <4>2. ASSUME NEW k \in 1 .. m - 1, less[j] = less[k] PROVE j = k
        <5>1. from(k) \in 1 .. m /\ list[from(j)] = list[from(k)]
          BY <3>2, <4>1, <4>2
        <5>2. from(j) = from(k)
          BY <3>1, <4>1, <5>1
        <5> QED
          BY <3>3, <5>2
      <4> QED
        BY <3>1, <4>1, <4>2
    <3>5. shown'[other] = less /\ DOMAIN less = 1 .. m - 1
      BY <1>4, <1>6, <2>2
    <3> QED
      BY <2>2, <3>4, <3>5
  <2> QED
    BY <2>1, <2>2
<1> QED
  BY <1>6, <1>7, ShownChanges DEF MarkRead

\* What an enumeration of a finite set is.
LEMMA EnumerationIs ==
    ASSUME NEW S, IsFiniteSet(S)
    PROVE  /\ Cardinality(S) \in Nat
           /\ SetToSeq(S) \in [1 .. Cardinality(S) -> S] /\ IsInjective(SetToSeq(S))
<1>1. Cardinality(S) \in Nat /\ ExistsBijection(1 .. Cardinality(S), S)
  BY FS_CardinalityType
<1>2. \E f \in [1 .. Cardinality(S) -> S] : IsInjective(f)
  BY <1>1 DEF ExistsBijection, Bijection, Injection
<1> QED
  BY <1>1, <1>2 DEF SetToSeq

LEMMA RowsAtIs ==
    ASSUME NEW list \in Seq(Hints), NEW places \in SUBSET DOMAIN list
    PROVE  /\ Cardinality(places) \in Nat
           /\ RowsAt(list, places) \in Seq(Hints) /\ Len(RowsAt(list, places)) = Cardinality(places)
           /\ \A j \in DOMAIN RowsAt(list, places) :
                  \E k \in places : RowsAt(list, places)[j] = list[k]
           /\ NoneTwice(list) => NoneTwice(RowsAt(list, places))
<1>1. PICK m \in Nat : m = Len(list) /\ DOMAIN list = 1 .. m
  OBVIOUS
<1>2. IsFiniteSet(places)
  <2>1. IsFiniteSet(1 .. m) /\ places \in SUBSET (1 .. m)
    BY <1>1, FS_Interval
  <2> QED
    BY <2>1, FS_Subset
<1>3. PICK n \in Nat : n = Cardinality(places)
  BY <1>2, EnumerationIs
<1>4. PICK f \in [1 .. n -> places] : f = SetToSeq(places) /\ IsInjective(f)
  BY <1>2, <1>3, EnumerationIs
<1>5. RowsAt(list, places) = [j \in 1 .. n |-> list[f[j]]]
  BY <1>3, <1>4 DEF RowsAt
<1>6. \A j \in 1 .. n : f[j] \in places /\ list[f[j]] \in Hints
  BY <1>1
<1>7. PICK made : made = RowsAt(list, places)
  OBVIOUS
<1>8. made \in [1 .. n -> Hints] /\ \A j \in 1 .. n : made[j] = list[f[j]]
  BY <1>5, <1>6, <1>7
<1>9. made \in Seq(Hints) /\ Len(made) = n /\ DOMAIN made = 1 .. n
  BY <1>8, SeqDef, LenProperties
<1>10. \A j \in DOMAIN made : \E k \in places : made[j] = list[k]
  BY <1>6, <1>8, <1>9
<1>11. NoneTwice(list) => NoneTwice(made)
  <2> SUFFICES ASSUME NoneTwice(list), NEW j \in 1 .. n, NEW k \in 1 .. n,
                      made[j].source = made[k].source, made[j].ref = made[k].ref, made[j].ref # NoRef
               PROVE  j = k
    BY <1>9 DEF NoneTwice
  <2>1. f[j] = f[k]
    BY <1>6, <1>8 DEF NoneTwice
  <2> QED
    BY <1>4, <2>1 DEF IsInjective
<1> QED
  BY <1>3, <1>7, <1>9, <1>10, <1>11

\* More rows.
LEMMA RowsInserted ==
    ASSUME HintsTypeOK, NEW more \in Seq(Hints), hints' = hints \o more,
           Len(hints) + Len(more) <= MaxHints
    PROVE  /\ hints' \in Seq(Hints) /\ Len(hints') <= MaxHints
           /\ \A n \in DOMAIN hints : n \in DOMAIN hints' /\ hints'[n] = hints[n]
           /\ \A n \in DOMAIN hints' :
                  \/ n \in DOMAIN hints
                  \/ \E k \in DOMAIN more : n = Len(hints) + k /\ hints'[n] = more[k]
<1>1. PICK m \in Nat, d \in Nat : /\ m = Len(hints) /\ DOMAIN hints = 1 .. m
                               /\ d = Len(more) /\ DOMAIN more = 1 .. d
  <2>1. Len(hints) \in Nat /\ DOMAIN hints = 1 .. Len(hints)
    BY HintsFacts
  <2>2. Len(more) \in Nat /\ DOMAIN more = 1 .. Len(more)
    OBVIOUS
  <2> QED
    BY <2>1, <2>2
<1>2. /\ hints' \in Seq(Hints) /\ Len(hints') = m + d
      /\ \A n \in 1 .. m + d : hints'[n] = IF n <= m THEN hints[n] ELSE more[n - m]
  BY <1>1, HintsFacts, ConcatProperties
<1>3. DOMAIN hints' = 1 .. m + d
  BY <1>2
<1>4. \A n \in 1 .. m + d : n \in 1 .. m \/ (~(n <= m) /\ n - m \in 1 .. d /\ n = m + (n - m))
  OBVIOUS
<1>5. \A n \in 1 .. m : n \in 1 .. m + d /\ n <= m
  OBVIOUS
<1>6. \A n \in DOMAIN hints' : \/ n \in DOMAIN hints
                             \/ \E k \in DOMAIN more : n = m + k /\ hints'[n] = more[k]
  BY <1>1, <1>2, <1>3, <1>4
<1> QED
  BY <1>1, <1>2, <1>3, <1>5, <1>6

\* A row keeps what it is a hint of, and is not made pending again.
RowsKept ==
    /\ hints' \in Seq(Hints) /\ Len(hints') <= MaxHints
    /\ \A n \in DOMAIN hints :
           /\ n \in DOMAIN hints'
           /\ hints'[n].source = hints[n].source /\ hints'[n].ref = hints[n].ref
           /\ hints[n].status # "pending" => hints'[n].status # "pending"

LEMMA RequestsKeep ==
    ASSUME HintsInv, RowsKept, UNCHANGED <<events, accepting>>
    PROVE  RowsOfRequests' /\ EventsCounted'
<1>1. RowsOfRequests'
  BY DEF HintsInv, RowsKept, RowsOfRequests
<1>2. EventsCounted'
  BY DEF HintsInv, RowsKept, EventsCounted, EndedFor
<1> QED
  BY <1>1, <1>2

\* The hints of one source, none twice.
LEMMA FirstRowsAre ==
    ASSUME HintsInv, NEW source \in Sources, NEW n \in 0 .. Len(shown[source]) + 1
    PROVE  /\ FirstRows(source, n) \in Seq(Hints) /\ NoneTwice(FirstRows(source, n))
           /\ \A k \in DOMAIN FirstRows(source, n) : FirstRows(source, n)[k].source = source
<1>1. PICK list \in Seq(Items), m \in Nat :
          list = shown[source] /\ m = Len(list) /\ DOMAIN list = 1 .. m
  BY HintsFacts DEF HintsInv
<1> DEFINE ref(k) == IF k <= m THEN RefOf[list[k]] ELSE NoRef
<1>2. n \in Nat /\ n <= m + 1
  BY <1>1
<1>3. FirstRows(source, n) = [k \in 1 .. n |-> Row(source, ref(k))]
  BY <1>1 DEF FirstRows
<1>4. \A k \in 1 .. n : ref(k) \in Refs
  BY <1>1 DEF Refs
<1>5. \A k \in 1 .. n : k > m => ref(k) = NoRef
  BY <1>1
<1>6. \A j, k \in 1 .. m : RefOf[list[j]] = RefOf[list[k]] => j = k
  <2> SUFFICES ASSUME NEW j \in 1 .. m, NEW k \in 1 .. m, RefOf[list[j]] = RefOf[list[k]] PROVE j = k
    OBVIOUS
  <2>1. SourceOf[list[j]] = source /\ SourceOf[list[k]] = source
    BY <1>1 DEF HintsInv, ShownOnce
  <2>2. list[j] \in Items /\ list[k] \in Items
    BY <1>1
  <2>3. list[j] = list[k]
    BY <2>1, <2>2, HintsAssumption
  <2> QED
    BY <1>1, <2>3 DEF HintsInv, ShownOnce
<1>7. \A j, k \in 1 .. n : ref(j) = ref(k) /\ ref(j) # NoRef => j = k
  <2> SUFFICES ASSUME NEW j \in 1 .. n, NEW k \in 1 .. n, ref(j) = ref(k), ref(j) # NoRef PROVE j = k
    OBVIOUS
  <2>1. j \in 1 .. m /\ k \in 1 .. m
    BY <1>1, <1>2, <1>5
  <2>2. ref(j) = RefOf[list[j]] /\ ref(k) = RefOf[list[k]]
    BY <2>1
  <2> QED
    BY <1>6, <2>1, <2>2
<1> HIDE DEF ref
<1>8. \A k \in 1 .. n : /\ Row(source, ref(k)) \in Hints
                        /\ Row(source, ref(k)).source = source /\ Row(source, ref(k)).ref = ref(k)
  BY <1>4 DEF Row, Hints
<1>9. PICK made : made = FirstRows(source, n)
  OBVIOUS
<1>10. made \in [1 .. n -> Hints] /\ \A k \in 1 .. n : made[k].source = source /\ made[k].ref = ref(k)
  BY <1>3, <1>8, <1>9
<1>11. made \in Seq(Hints) /\ DOMAIN made = 1 .. n
  BY <1>2, <1>10, SeqDef
<1>12. NoneTwice(made)
  BY <1>7, <1>10, <1>11 DEF NoneTwice
<1> QED
  BY <1>9, <1>10, <1>11, <1>12

\* Lists of different sources put together have none twice.
LEMMA PutTogether ==
    ASSUME NEW front \in Seq(Hints), NEW back \in Seq(Hints), NoneTwice(front), NoneTwice(back),
           \A j \in DOMAIN front : \A k \in DOMAIN back : front[j].source # back[k].source
    PROVE  /\ front \o back \in Seq(Hints) /\ NoneTwice(front \o back)
           /\ \A i \in DOMAIN (front \o back) :
                  \/ \E j \in DOMAIN front : (front \o back)[i] = front[j]
                  \/ \E k \in DOMAIN back : (front \o back)[i] = back[k]
<1>1. PICK m \in Nat, n \in Nat : /\ m = Len(front) /\ DOMAIN front = 1 .. m
                               /\ n = Len(back) /\ DOMAIN back = 1 .. n
  OBVIOUS
<1>2. PICK both \in Seq(Hints) :
          /\ both = front \o back /\ Len(both) = m + n
          /\ \A i \in 1 .. m + n : both[i] = IF i <= m THEN front[i] ELSE back[i - m]
  <2>1. /\ front \o back \in Seq(Hints) /\ Len(front \o back) = Len(front) + Len(back)
        /\ \A i \in 1 .. Len(front) + Len(back) :
               (front \o back)[i] = IF i <= Len(front) THEN front[i] ELSE back[i - Len(front)]
    BY ConcatProperties
  <2> QED
    BY <1>1, <2>1
<1>3. DOMAIN both = 1 .. m + n
  BY <1>2
<1>4. \A i \in 1 .. m + n : \/ (i \in 1 .. m /\ both[i] = front[i])
                           \/ (i - m \in 1 .. n /\ both[i] = back[i - m])
  <2>1. \A i \in 1 .. m + n : (i <= m /\ i \in 1 .. m) \/ (~(i <= m) /\ i - m \in 1 .. n)
    OBVIOUS
  <2> QED
    BY <1>2, <2>1
<1>5. NoneTwice(both)
  <2> SUFFICES ASSUME NEW i \in 1 .. m + n, NEW l \in 1 .. m + n, both[i].source = both[l].source,
                      both[i].ref = both[l].ref, both[i].ref # NoRef
               PROVE  i = l
    BY <1>3 DEF NoneTwice
  <2>1. CASE i \in 1 .. m /\ both[i] = front[i] /\ l \in 1 .. m /\ both[l] = front[l]
    BY <1>1, <2>1 DEF NoneTwice
  <2>2. CASE i \in 1 .. m /\ both[i] = front[i] /\ l - m \in 1 .. n /\ both[l] = back[l - m]
    BY <1>1, <2>2
  <2>3. CASE i - m \in 1 .. n /\ both[i] = back[i - m] /\ l \in 1 .. m /\ both[l] = front[l]
    BY <1>1, <2>3
  <2>4. CASE i - m \in 1 .. n /\ both[i] = back[i - m] /\ l - m \in 1 .. n /\ both[l] = back[l - m]
    <3>1. i - m = l - m
      BY <1>1, <2>4 DEF NoneTwice
    <3> QED
      BY <3>1
  <2> QED
    BY <1>4, <2>1, <2>2, <2>3, <2>4
<1> QED
  BY <1>1, <1>2, <1>3, <1>4, <1>5

\* A scan finds none twice.
LEMMA FoundIs ==
    ASSUME HintsInv, NEW t \in scanTickets, NEW m \in Extracted("mail"), NEW d \in Extracted("document")
    PROVE  t \o m \o d \in Seq(Hints) /\ NoneTwice(t \o m \o d)
<1>0. "ticket" \in Sources /\ "mail" \in Sources /\ "document" \in Sources
  BY DEF Sources
<1>1. \A source \in Sources : Len(shown[source]) \in Nat
  BY HintsFacts DEF HintsInv
<1>2. t \in Seq(Hints) /\ NoneTwice(t) /\ \A k \in DOMAIN t : t[k].source = "ticket"
  <2>1. PICK n \in 0 .. Len(shown["ticket"]) + 1 : t = FirstRows("ticket", n)
    BY <1>0, <1>1 DEF scanTickets
  <2> QED
    BY <1>0, <2>1, FirstRowsAre
<1>3. m \in Seq(Hints) /\ NoneTwice(m) /\ \A k \in DOMAIN m : m[k].source = "mail"
  <2>1. PICK n \in 0 .. Len(shown["mail"]) + 1 : m = FirstRows("mail", n)
    BY <1>0, <1>1 DEF Extracted
  <2> QED
    BY <1>0, <2>1, FirstRowsAre
<1>4. d \in Seq(Hints) /\ NoneTwice(d) /\ \A k \in DOMAIN d : d[k].source = "document"
  <2>1. PICK n \in 0 .. Len(shown["document"]) + 1 : d = FirstRows("document", n)
    BY <1>0, <1>1 DEF Extracted
  <2> QED
    BY <1>0, <2>1, FirstRowsAre
<1>5. PICK tm \in Seq(Hints) : /\ tm = t \o m /\ NoneTwice(tm)
                             /\ \A k \in DOMAIN tm : tm[k].source \in {"ticket", "mail"}
  <2>1. \A j \in DOMAIN t : \A k \in DOMAIN m : t[j].source # m[k].source
    BY <1>2, <1>3
  <2>2. /\ t \o m \in Seq(Hints) /\ NoneTwice(t \o m)
        /\ \A i \in DOMAIN (t \o m) : \/ \E j \in DOMAIN t : (t \o m)[i] = t[j]
                                     \/ \E k \in DOMAIN m : (t \o m)[i] = m[k]
    BY <1>2, <1>3, <2>1, PutTogether
  <2> QED
    BY <1>2, <1>3, <2>2
<1>6. \A j \in DOMAIN tm : \A k \in DOMAIN d : tm[j].source # d[k].source
  BY <1>4, <1>5
<1>7. tm \o d \in Seq(Hints) /\ NoneTwice(tm \o d)
  BY <1>4, <1>5, <1>6, PutTogether
<1> QED
  BY <1>5, <1>7

LEMMA HintsScan == \A s \in Scans : HintsInv /\ scanUser(s) => HintsInv'
<1> SUFFICES ASSUME NEW s \in Scans, HintsInv, scanUser(s) PROVE HintsInv'
  OBVIOUS
<1>0. HintsTypeOK
  BY DEF HintsInv
<1>1. /\ scan[s].at = "idle"
      /\ scansMet' = (scansMet \/ \E t \in Scans \ {s} : scan[t].at \in {"lookup", "save"})
      /\ UNCHANGED <<shown, hints, events, accepting>>
  BY DEF scanUser
<1>2. PICK t \in scanTickets, m \in Extracted("mail"), d \in Extracted("document") :
          scan' = [scan EXCEPT ![s].at = "lookup", ![s].found = t \o m \o d]
  BY DEF scanUser
<1>3. PICK found \in Seq(Hints) : found = t \o m \o d /\ NoneTwice(found)
  BY <1>0, <1>2, FoundIs DEF HintsInv
<1>4. /\ scan' \in [Scans -> [at : {"idle", "lookup", "save", "alerts", "ended"},
                              found : Seq(Hints), known : SUBSET Refs]]
      /\ scan'[s].at = "lookup" /\ scan'[s].found = found
      /\ \A r \in Scans : r # s => scan'[r] = scan[r]
  BY <1>0, <1>2, <1>3 DEF HintsTypeOK
<1>5. HintsTypeOK'
  <2>1. scansMet' \in BOOLEAN
    BY <1>0, <1>1 DEF HintsTypeOK
  <2> QED
    BY <1>0, <1>1, <1>4, <2>1 DEF HintsTypeOK
<1>6. ShownOnce' /\ OfferedOnce'
  BY <1>1 DEF HintsInv, ShownOnce, OfferedOnce
<1>7. FoundOnce'
  <2> SUFFICES ASSUME NEW r \in Scans PROVE NoneTwice(scan'[r].found)
    BY DEF FoundOnce
  <2>1. CASE r = s
    BY <1>3, <1>4, <2>1
  <2>2. CASE r # s
    BY <1>4, <2>2 DEF HintsInv, FoundOnce
  <2> QED
    BY <2>1, <2>2
<1>8. OneAtWork'
  BY <1>1, <1>4 DEF HintsInv, OneAtWork, AtWork
<1>9. KnowsAll'
  BY <1>1, <1>4 DEF HintsInv, KnowsAll
<1>10. RowsKept
  BY <1>0, <1>1 DEF HintsTypeOK, RowsKept
<1> QED
  BY <1>1, <1>5, <1>6, <1>7, <1>8, <1>9, <1>10, RequestsKeep DEF HintsInv

LEMMA HintsLookUp == \A s \in Scans : HintsInv /\ LookUp(s) => HintsInv'
<1> SUFFICES ASSUME NEW s \in Scans, HintsInv, LookUp(s) PROVE HintsInv'
  OBVIOUS
<1>0. HintsTypeOK
  BY DEF HintsInv
<1> DEFINE all == {hints[n].ref : n \in DOMAIN hints}
<1>1. /\ scan[s].at = "lookup"
      /\ scan' = [scan EXCEPT ![s].at = "save", ![s].known = all]
      /\ UNCHANGED <<shown, hints, events, accepting, scansMet>>
  BY DEF LookUp
<1>2. all \subseteq Refs
  BY <1>0, HintsFacts DEF Hints
<1>3. \A n \in DOMAIN hints : hints[n].ref \in all
  OBVIOUS
<1> HIDE DEF all
<1>4. /\ scan' \in [Scans -> [at : {"idle", "lookup", "save", "alerts", "ended"},
                              found : Seq(Hints), known : SUBSET Refs]]
      /\ scan'[s].at = "save" /\ scan'[s].found = scan[s].found /\ scan'[s].known = all
      /\ \A r \in Scans : r # s => scan'[r] = scan[r]
  BY <1>0, <1>1, <1>2 DEF HintsTypeOK
<1>5. HintsTypeOK'
  BY <1>0, <1>1, <1>4 DEF HintsTypeOK
<1>6. ShownOnce' /\ OfferedOnce'
  BY <1>1 DEF HintsInv, ShownOnce, OfferedOnce
<1>7. FoundOnce'
  BY <1>1, <1>4 DEF HintsInv, FoundOnce, NoneTwice
<1>8. OneAtWork'
  BY <1>1, <1>4 DEF HintsInv, OneAtWork, AtWork
<1>9. KnowsAll'
  BY <1>1, <1>3, <1>4 DEF HintsInv, KnowsAll
<1>10. RowsKept
  BY <1>0, <1>1 DEF HintsTypeOK, RowsKept
<1> QED
  BY <1>1, <1>5, <1>6, <1>7, <1>8, <1>9, <1>10, RequestsKeep DEF HintsInv

LEMMA HintsSave == \A s \in Scans : HintsInv /\ Save(s) => HintsInv'
<1> SUFFICES ASSUME NEW s \in Scans, HintsInv, Save(s) PROVE HintsInv'
  OBVIOUS
<1>0. HintsTypeOK
  BY DEF HintsInv
<1>1. scan[s].at = "save" /\ UNCHANGED <<shown, events, accepting, scansMet>>
  BY DEF Save
<1>2. PICK to \in {"alerts", "ended"} :
          scan' = [scan EXCEPT ![s] = [at |-> to, found |-> <<>>, known |-> {}]]
  BY DEF Save
<1>3. /\ scan' \in [Scans -> [at : {"idle", "lookup", "save", "alerts", "ended"},
                              found : Seq(Hints), known : SUBSET Refs]]
      /\ scan'[s].at = to /\ scan'[s].found = <<>>
      /\ \A r \in Scans : r # s => scan'[r] = scan[r]
  <2>1. [at |-> to, found |-> <<>>, known |-> {}] \in
            [at : {"idle", "lookup", "save", "alerts", "ended"},
             found : Seq(Hints), known : SUBSET Refs]
    OBVIOUS
  <2> QED
    BY <1>0, <1>2, <2>1 DEF HintsTypeOK
<1>4. PICK list \in Seq(Hints) : list = scan[s].found /\ NoneTwice(list)
  BY <1>0, HintsFacts DEF HintsInv, FoundOnce
<1>5. Fresh(s) \in SUBSET DOMAIN list
  BY <1>4 DEF Fresh
<1>6. PICK more \in Seq(Hints) :
          /\ more = RowsAt(list, Fresh(s)) /\ Len(more) = Cardinality(Fresh(s))
          /\ \A j \in DOMAIN more : \E k \in Fresh(s) : more[j] = list[k]
          /\ NoneTwice(more)
  BY <1>4, <1>5, RowsAtIs
<1>7. \/ Len(hints) + Len(more) <= MaxHints /\ hints' = hints \o more
      \/ UNCHANGED hints
  BY <1>4, <1>6 DEF Save
<1>8. \A j \in DOMAIN more : more[j].ref = NoRef \/ more[j].ref \notin scan[s].known
  BY <1>4, <1>6 DEF Fresh
<1>9. RowsKept
  <2>1. CASE Len(hints) + Len(more) <= MaxHints /\ hints' = hints \o more
    BY <1>0, <2>1, RowsInserted DEF RowsKept
  <2>2. CASE UNCHANGED hints
    BY <1>0, <2>2 DEF HintsTypeOK, RowsKept
  <2> QED
    BY <1>7, <2>1, <2>2
<1>10. HintsTypeOK'
  BY <1>0, <1>1, <1>3, <1>9 DEF HintsTypeOK, RowsKept
<1>11. ShownOnce'
  BY <1>1 DEF HintsInv, ShownOnce
<1>12. FoundOnce'
  <2> SUFFICES ASSUME NEW r \in Scans PROVE NoneTwice(scan'[r].found)
    BY DEF FoundOnce, NoneTwice
  <2>1. CASE r = s
    BY <1>3, <2>1 DEF NoneTwice
  <2>2. CASE r # s
    BY <1>3, <2>2 DEF HintsInv, FoundOnce
  <2> QED
    BY <2>1, <2>2
<1>13. OneAtWork'
  BY <1>1, <1>2, <1>3 DEF HintsInv, OneAtWork, AtWork
<1>14. KnowsAll'
  <2> SUFFICES ASSUME ~scansMet, NEW r \in Scans, scan'[r].at = "save" PROVE FALSE
    BY <1>1 DEF KnowsAll
  <2>1. r # s /\ scan[r].at = "save"
    BY <1>2, <1>3
  <2> QED
    BY <1>1, <2>1 DEF HintsInv, OneAtWork, AtWork
<1>15. OfferedOnce'
  <2>1. CASE Len(hints) + Len(more) <= MaxHints /\ hints' = hints \o more
    <3> SUFFICES ASSUME ~scansMet, NEW m \in DOMAIN hints', NEW n \in DOMAIN hints',
                        hints'[m].source = hints'[n].source, hints'[m].ref = hints'[n].ref,
                        hints'[m].ref # NoRef
                 PROVE  m = n
      BY <1>1 DEF OfferedOnce
    <3>1. \A k \in DOMAIN hints : k \in DOMAIN hints' /\ hints'[k] = hints[k]
      BY <1>0, <2>1, RowsInserted
    <3>2. \A i \in DOMAIN hints' : \/ i \in DOMAIN hints
                                 \/ \E k \in DOMAIN more : i = Len(hints) + k /\ hints'[i] = more[k]
      BY <1>0, <2>1, RowsInserted
    <3>3. \A i \in DOMAIN hints : hints[i].ref # NoRef => hints[i].ref \in scan[s].known
      BY <1>1 DEF HintsInv, KnowsAll
    <3>4. CASE m \in DOMAIN hints /\ n \in DOMAIN hints
      BY <3>1, <3>4 DEF HintsInv, OfferedOnce
    <3>5. CASE m \in DOMAIN hints /\ n \notin DOMAIN hints
      BY <1>8, <3>1, <3>2, <3>3, <3>5
    <3>6. CASE m \notin DOMAIN hints /\ n \in DOMAIN hints
      BY <1>8, <3>1, <3>2, <3>3, <3>6
    <3>7. CASE m \notin DOMAIN hints /\ n \notin DOMAIN hints
      <4>1. PICK j \in DOMAIN more : m = Len(hints) + j /\ hints'[m] = more[j]
        BY <3>2, <3>7
      <4>2. PICK k \in DOMAIN more : n = Len(hints) + k /\ hints'[n] = more[k]
        BY <3>2, <3>7
      <4>3. j = k
        BY <1>6, <4>1, <4>2 DEF NoneTwice
      <4> QED
        BY <4>1, <4>2, <4>3
    <3> QED
      BY <3>4, <3>5, <3>6, <3>7
  <2>2. CASE UNCHANGED hints
    BY <1>1, <2>2 DEF HintsInv, OfferedOnce
  <2> QED
    BY <1>7, <2>1, <2>2
<1> QED
  BY <1>1, <1>9, <1>10, <1>11, <1>12, <1>13, <1>14, <1>15, RequestsKeep DEF HintsInv

\* What the steps that do not touch a scan at work keep.
LEMMA ScansKeep ==
    ASSUME HintsInv, RowsKept, UNCHANGED <<shown, scansMet>>,
           \A s \in Scans :
               scan'[s] = scan[s] \/ (scan'[s].at = "ended" /\ scan'[s].found = scan[s].found),
           \A n \in DOMAIN hints' : n \in DOMAIN hints \/ hints'[n].ref = NoRef
    PROVE  ShownOnce' /\ FoundOnce' /\ OneAtWork' /\ KnowsAll' /\ OfferedOnce'
<1>1. ShownOnce'
  BY DEF HintsInv, ShownOnce
<1>2. FoundOnce'
  BY DEF HintsInv, FoundOnce, NoneTwice
<1>3. OneAtWork'
  BY DEF HintsInv, OneAtWork, AtWork
<1>4. KnowsAll'
  BY DEF HintsInv, KnowsAll, RowsKept
<1>5. OfferedOnce'
  BY DEF HintsInv, OfferedOnce, RowsKept
<1> QED
  BY <1>1, <1>2, <1>3, <1>4, <1>5

LEMMA HintsAlert == \A s \in Scans : HintsInv /\ Alert(s) => HintsInv'
<1> SUFFICES ASSUME NEW s \in Scans, HintsInv, Alert(s) PROVE HintsInv'
  OBVIOUS
<1>0. HintsTypeOK
  BY DEF HintsInv
<1>1. /\ scan' = [scan EXCEPT ![s].at = "ended"]
      /\ UNCHANGED <<shown, events, accepting, scansMet>>
  BY DEF Alert
<1>2. PICK row \in Hints : row = Row("finance", NoRef) /\ row.ref = NoRef
  <2>1. /\ Row("finance", NoRef) \in Hints /\ Row("finance", NoRef).ref = NoRef
    BY DEF Row, Hints, Refs
  <2> QED
    BY <2>1
<1>3. \/ UNCHANGED hints
      \/ Len(hints) < MaxHints /\ hints' = Append(hints, row)
  BY <1>2 DEF Alert
<1>4. /\ scan' \in [Scans -> [at : {"idle", "lookup", "save", "alerts", "ended"},
                              found : Seq(Hints), known : SUBSET Refs]]
      /\ \A r \in Scans :
             scan'[r] = scan[r] \/ (scan'[r].at = "ended" /\ scan'[r].found = scan[r].found)
  BY <1>0, <1>1 DEF HintsTypeOK
<1>5. RowsKept /\ \A n \in DOMAIN hints' : n \in DOMAIN hints \/ hints'[n].ref = NoRef
  <2>1. CASE UNCHANGED hints
    BY <1>0, <2>1 DEF HintsTypeOK, RowsKept
  <2>2. CASE Len(hints) < MaxHints /\ hints' = Append(hints, row)
    <3>1. PICK more \in Seq(Hints) : /\ more = <<row>> /\ Len(more) = 1 /\ DOMAIN more = {1}
                                     /\ more[1] = row
      <4>1. /\ <<row>> \in Seq(Hints) /\ Len(<<row>>) = 1 /\ DOMAIN <<row>> = {1}
            /\ <<row>>[1] = row
        OBVIOUS
      <4> QED
        BY <4>1
    <3>2. hints' = hints \o more
      BY <1>0, <2>2, <3>1, HintsFacts, AppendIsConcat
    <3>3. Len(hints) + Len(more) <= MaxHints
      BY <1>0, <2>2, <3>1, HintsFacts, HintsAssumption
    <3>4. /\ hints' \in Seq(Hints) /\ Len(hints') <= MaxHints
          /\ \A n \in DOMAIN hints : n \in DOMAIN hints' /\ hints'[n] = hints[n]
          /\ \A n \in DOMAIN hints' :
                 n \in DOMAIN hints \/ \E k \in DOMAIN more : n = Len(hints) + k /\ hints'[n] = more[k]
      BY <1>0, <3>2, <3>3, RowsInserted
    <3> QED
      BY <1>2, <3>1, <3>4 DEF RowsKept
  <2> QED
    BY <1>3, <2>1, <2>2
<1>6. HintsTypeOK'
  BY <1>0, <1>1, <1>4, <1>5 DEF HintsTypeOK, RowsKept
<1> QED
  BY <1>1, <1>4, <1>5, <1>6, RequestsKeep, ScansKeep DEF HintsInv

\* A row that the user has answered.
LEMMA Answered ==
    ASSUME HintsInv, NEW n \in DOMAIN hints, NEW status \in {"accepted", "dismissed"},
           hints' = [hints EXCEPT ![n].status = status], UNCHANGED <<shown, scan, scansMet>>
    PROVE  /\ RowsKept /\ hints'[n].status = status /\ DOMAIN hints' = DOMAIN hints
           /\ ShownOnce' /\ FoundOnce' /\ OneAtWork' /\ KnowsAll' /\ OfferedOnce'
<1>0. HintsTypeOK
  BY DEF HintsInv
<1>1. hints \in Seq(Hints) /\ DOMAIN hints = 1 .. Len(hints) /\ Len(hints) <= MaxHints
  BY <1>0, HintsFacts
<1>2. hints[n] \in Hints
  BY <1>0, HintsFacts
<1>3. PICK row \in Hints : /\ row = [hints[n] EXCEPT !.status = status]
                           /\ row.source = hints[n].source /\ row.ref = hints[n].ref
                           /\ row.status = status
  <2>1. /\ [hints[n] EXCEPT !.status = status] \in Hints
        /\ [hints[n] EXCEPT !.status = status].source = hints[n].source
        /\ [hints[n] EXCEPT !.status = status].ref = hints[n].ref
        /\ [hints[n] EXCEPT !.status = status].status = status
    BY <1>2 DEF Hints
  <2> QED
    BY <2>1
<1>4. hints' = [hints EXCEPT ![n] = row]
  BY <1>3
<1>5. /\ hints' \in Seq(Hints) /\ Len(hints') = Len(hints)
      /\ \A k \in 1 .. Len(hints) : hints'[k] = IF k = n THEN row ELSE hints[k]
  BY <1>1, <1>4, ExceptSeq
<1>6. DOMAIN hints' = DOMAIN hints
  BY <1>1, <1>5
<1>7. RowsKept
  BY <1>1, <1>3, <1>5, <1>6 DEF RowsKept
<1>8. hints'[n].status = status
  BY <1>1, <1>3, <1>5
<1> QED
  BY <1>6, <1>7, <1>8, ScansKeep

LEMMA HintsAccept == \A a \in Accepts, n \in 1 .. MaxHints : HintsInv /\ AcceptHint(a, n) => HintsInv'
<1> SUFFICES ASSUME NEW a \in Accepts, NEW n \in 1 .. MaxHints, HintsInv, AcceptHint(a, n)
             PROVE  HintsInv'
  OBVIOUS
<1>0. HintsTypeOK
  BY DEF HintsInv
<1>1. /\ accepting[a].at = "idle" /\ n \in DOMAIN hints
      /\ accepting' = [accepting EXCEPT ![a] = [at |-> "save", row |-> n]]
      /\ UNCHANGED <<shown, hints, events, scan, scansMet>>
  BY DEF AcceptHint
<1>2. /\ accepting' \in [Accepts -> [at : {"idle", "save", "create", "ended"}, row : 0 .. MaxHints]]
      /\ accepting'[a].at = "save" /\ accepting'[a].row = n
      /\ \A r \in Accepts : r # a => accepting'[r] = accepting[r]
  <2>1. [at |-> "save", row |-> n] \in [at : {"idle", "save", "create", "ended"}, row : 0 .. MaxHints]
    BY HintsAssumption
  <2> QED
    BY <1>0, <1>1, <2>1 DEF HintsTypeOK
<1>3. HintsTypeOK'
  BY <1>0, <1>1, <1>2 DEF HintsTypeOK
<1>4. ShownOnce' /\ FoundOnce' /\ OneAtWork' /\ KnowsAll' /\ OfferedOnce'
  BY <1>1 DEF HintsInv, ShownOnce, FoundOnce, NoneTwice, OneAtWork, AtWork, KnowsAll, OfferedOnce
<1>5. RowsOfRequests'
  BY <1>1, <1>2 DEF HintsInv, RowsOfRequests
<1>6. \A k : EndedFor(k)' = EndedFor(k)
  BY <1>1, <1>2 DEF EndedFor
<1>7. EventsCounted'
  BY <1>1, <1>6 DEF HintsInv, EventsCounted
<1> QED
  BY <1>3, <1>4, <1>5, <1>7 DEF HintsInv

LEMMA HintsAccepted == \A a \in Accepts : HintsInv /\ SaveAccepted(a) => HintsInv'
<1> SUFFICES ASSUME NEW a \in Accepts, HintsInv, SaveAccepted(a) PROVE HintsInv'
  OBVIOUS
<1>0. HintsTypeOK
  BY DEF HintsInv
<1>1. PICK n : n = accepting[a].row
  OBVIOUS
<1>2. /\ accepting[a].at = "save" /\ hints' = [hints EXCEPT ![n].status = "accepted"]
      /\ accepting' = [accepting EXCEPT ![a].at = "create"]
      /\ UNCHANGED <<shown, events, scan, scansMet>>
  BY <1>1 DEF SaveAccepted
<1>3. n \in DOMAIN hints
  BY <1>1, <1>2 DEF HintsInv, RowsOfRequests
<1>4. /\ RowsKept /\ hints'[n].status = "accepted" /\ DOMAIN hints' = DOMAIN hints
      /\ ShownOnce' /\ FoundOnce' /\ OneAtWork' /\ KnowsAll' /\ OfferedOnce'
  BY <1>2, <1>3, Answered
<1>5. /\ accepting' \in [Accepts -> [at : {"idle", "save", "create", "ended"}, row : 0 .. MaxHints]]
      /\ accepting'[a].at = "create" /\ accepting'[a].row = n
      /\ \A r \in Accepts : r # a => accepting'[r] = accepting[r]
  BY <1>0, <1>1, <1>2 DEF HintsTypeOK
<1>6. HintsTypeOK'
  BY <1>0, <1>2, <1>4, <1>5 DEF HintsTypeOK, RowsKept
<1>7. RowsOfRequests'
  <2> SUFFICES ASSUME NEW r \in Accepts, accepting'[r].at # "idle"
               PROVE  /\ accepting'[r].row \in DOMAIN hints'
                      /\ accepting'[r].at # "save" => hints'[accepting'[r].row].status # "pending"
    BY DEF RowsOfRequests
  <2>1. CASE r = a
    BY <1>3, <1>4, <1>5, <2>1
  <2>2. CASE r # a
    BY <1>4, <1>5, <2>2 DEF HintsInv, RowsOfRequests, RowsKept
  <2> QED
    BY <2>1, <2>2
<1>8. \A k : EndedFor(k)' = EndedFor(k)
  BY <1>2, <1>5 DEF EndedFor
<1>9. EventsCounted'
  BY <1>2, <1>4, <1>8 DEF HintsInv, EventsCounted, RowsKept
<1> QED
  BY <1>4, <1>6, <1>7, <1>9 DEF HintsInv

LEMMA HintsEvent == \A a \in Accepts : HintsInv /\ CreateEvent(a) => HintsInv'
<1> SUFFICES ASSUME NEW a \in Accepts, HintsInv, CreateEvent(a) PROVE HintsInv'
  OBVIOUS
<1>0. HintsTypeOK
  BY DEF HintsInv
<1>1. PICK n : n = accepting[a].row
  OBVIOUS
<1>2. /\ accepting[a].at = "create" /\ accepting' = [accepting EXCEPT ![a].at = "ended"]
      /\ events' = events \/ events' = [events EXCEPT ![n] = @ + 1]
      /\ UNCHANGED <<shown, hints, scan, scansMet>>
  BY <1>1 DEF CreateEvent
<1>3. n \in DOMAIN hints /\ hints[n].status # "pending" /\ n \in 1 .. MaxHints
  BY <1>0, <1>1, <1>2, HintsFacts DEF HintsInv, RowsOfRequests
<1>4. /\ accepting' \in [Accepts -> [at : {"idle", "save", "create", "ended"}, row : 0 .. MaxHints]]
      /\ accepting'[a].at = "ended" /\ accepting'[a].row = n
      /\ \A r \in Accepts : r # a => accepting'[r] = accepting[r]
  BY <1>0, <1>1, <1>2 DEF HintsTypeOK
<1>5. /\ events' \in [1 .. MaxHints -> Nat] /\ events'[n] \in {events[n], events[n] + 1}
      /\ \A k \in 1 .. MaxHints : k # n => events'[k] = events[k]
  <2>1. events \in [1 .. MaxHints -> Nat]
    BY <1>0 DEF HintsTypeOK
  <2>2. CASE events' = events
    BY <1>3, <2>1, <2>2
  <2>3. CASE events' = [events EXCEPT ![n] = @ + 1]
    BY <1>3, <2>1, <2>3
  <2> QED
    BY <1>2, <2>2, <2>3
<1>6. HintsTypeOK'
  BY <1>0, <1>2, <1>4, <1>5 DEF HintsTypeOK
<1>7. ShownOnce' /\ FoundOnce' /\ OneAtWork' /\ KnowsAll' /\ OfferedOnce'
  BY <1>2 DEF HintsInv, ShownOnce, FoundOnce, NoneTwice, OneAtWork, AtWork, KnowsAll, OfferedOnce
<1>8. RowsOfRequests'
  BY <1>2, <1>3, <1>4 DEF HintsInv, RowsOfRequests
<1>9. EventsCounted'
  <2> SUFFICES ASSUME NEW k \in 1 .. MaxHints
               PROVE  /\ events'[k] <= Cardinality(EndedFor(k)')
                      /\ events'[k] > 0 => k \in DOMAIN hints /\ hints[k].status # "pending"
    BY <1>2 DEF EventsCounted
  <2>1. events[k] <= Cardinality(EndedFor(k)) /\ events[k] \in Nat
    BY <1>0 DEF HintsInv, EventsCounted, HintsTypeOK
  <2>2. IsFiniteSet(EndedFor(k)) /\ Cardinality(EndedFor(k)) \in Nat
    <3>1. EndedFor(k) \in SUBSET Accepts
      BY DEF EndedFor
    <3> QED
      BY <3>1, HintsAssumption, FS_Subset, FS_CardinalityType
  <2>3. CASE k = n
    <3>1. EndedFor(k)' = EndedFor(k) \cup {a} /\ a \notin EndedFor(k)
      BY <1>1, <1>2, <1>4, <2>3 DEF EndedFor
    <3>2. Cardinality(EndedFor(k)') = Cardinality(EndedFor(k)) + 1
      BY <2>2, <3>1, FS_AddElement
    <3>3. events'[k] <= Cardinality(EndedFor(k)')
      BY <1>5, <2>1, <2>2, <2>3, <3>2
    <3> QED
      BY <1>3, <2>3, <3>3
  <2>4. CASE k # n
    <3>1. EndedFor(k)' = EndedFor(k)
      BY <1>1, <1>2, <1>4, <2>4 DEF EndedFor
    <3> QED
      BY <1>5, <2>1, <2>4, <3>1 DEF HintsInv, EventsCounted
  <2> QED
    BY <2>3, <2>4
<1> QED
  BY <1>6, <1>7, <1>8, <1>9 DEF HintsInv

LEMMA HintsDismiss == \A n \in 1 .. MaxHints : HintsInv /\ DismissHint(n) => HintsInv'
<1> SUFFICES ASSUME NEW n \in 1 .. MaxHints, HintsInv, DismissHint(n) PROVE HintsInv'
  OBVIOUS
<1>1. /\ n \in DOMAIN hints /\ hints' = [hints EXCEPT ![n].status = "dismissed"]
      /\ UNCHANGED <<shown, events, scan, accepting, scansMet>>
  BY DEF DismissHint
<1>2. /\ RowsKept /\ ShownOnce' /\ FoundOnce' /\ OneAtWork' /\ KnowsAll' /\ OfferedOnce'
  BY <1>1, Answered
<1>3. HintsTypeOK'
  BY <1>1, <1>2 DEF HintsInv, HintsTypeOK, RowsKept
<1> QED
  BY <1>1, <1>2, <1>3, RequestsKeep DEF HintsInv

LEMMA HintsStep == HintsInv /\ [HintsNext]_hintVars => HintsInv'
<1> SUFFICES ASSUME HintsInv, [HintsNext]_hintVars PROVE HintsInv'
  OBVIOUS
<1>1. CASE \E i \in Items : ItemArrives(i)
  BY <1>1, HintsArrives
<1>2. CASE \E source \in Sources : MarkRead(source)
  BY <1>2, HintsRead
<1>3. CASE \E s \in Scans : scanUser(s) \/ LookUp(s) \/ Save(s) \/ Alert(s)
  BY <1>3, HintsScan, HintsLookUp, HintsSave, HintsAlert
<1>4. CASE \E a \in Accepts, n \in 1 .. MaxHints : AcceptHint(a, n)
  BY <1>4, HintsAccept
<1>5. CASE \E a \in Accepts : SaveAccepted(a) \/ CreateEvent(a)
  BY <1>5, HintsAccepted, HintsEvent
<1>6. CASE \E n \in 1 .. MaxHints : DismissHint(n)
  BY <1>6, HintsDismiss
<1>7. CASE UNCHANGED hintVars
  BY <1>7 DEF hintVars, HintsInv, HintsTypeOK, ShownOnce, FoundOnce, NoneTwice, OneAtWork, AtWork,
              KnowsAll, OfferedOnce, RowsOfRequests, EventsCounted, EndedFor
<1> QED
  BY <1>1, <1>2, <1>3, <1>4, <1>5, <1>6, <1>7 DEF HintsNext

\* For any number of items, scans and requests, and whatever the model answers.
THEOREM HintsInvariance == HintsSpec => []HintsInv
BY HintsStart, HintsStep, PTL DEF HintsSpec

\* A ticket, mail or document is offered once unless two scans were under way at once,
\* and an event was made for a hint that is not pending, and for one request to accept.
THEOREM OfferedAndAccepted == HintsSpec => []HintsSound
<1>1. HintsInv => HintsSound
  <2> SUFFICES ASSUME HintsInv PROVE EventsAccepted
    BY DEF HintsInv, HintsSound
  <2> SUFFICES ASSUME NEW n \in DOMAIN hints
               PROVE  /\ events[n] <= Cardinality({a \in Accepts : accepting[a].row = n})
                      /\ events[n] > 0 => hints[n].status # "pending"
    BY DEF EventsAccepted
  <2> DEFINE asked == {a \in Accepts : accepting[a].row = n}
  <2>1. n \in 1 .. MaxHints /\ events[n] \in Nat
    BY HintsFacts DEF HintsInv, HintsTypeOK
  <2>2. IsFiniteSet(asked)
    BY HintsAssumption, FS_Subset
  <2>3. EndedFor(n) \in SUBSET asked
    BY DEF EndedFor
  <2> HIDE DEF asked
  <2>4. /\ Cardinality(EndedFor(n)) <= Cardinality(asked)
        /\ Cardinality(EndedFor(n)) \in Nat /\ Cardinality(asked) \in Nat
    BY <2>2, <2>3, FS_Subset, FS_CardinalityType
  <2>5. events[n] <= Cardinality(EndedFor(n)) /\ (events[n] > 0 => hints[n].status # "pending")
    BY <2>1 DEF HintsInv, EventsCounted
  <2> QED
    BY <2>1, <2>4, <2>5 DEF asked
<1> QED
  BY <1>1, HintsInvariance, PTL

-----------------------------------------------------------------------------
(* The services and the portal together, as MCServices composes them *)

\* A behaviour of the composition is one of each of the seven parts: the others stutter
\* while one moves.
THEOREM AllParts ==
    MCSpec => /\ HintsSpec /\ FinanceSpec /\ PushSpec /\ TagsSpec
              /\ PageSpec /\ ViewSpec /\ ChatSpec
<1> DEFINE all == <<hintVars, financeVars, pushVars, tagVars, pageVars, viewVars, chatVars, focus>>
<1>1. MCInit => /\ HintsInit /\ FinanceInit /\ PushInit /\ TagsInit
                /\ PageInit /\ ViewInit /\ ChatInit
  BY DEF MCInit
<1>2. [MCNext]_all => [HintsNext]_hintVars /\ [FinanceNext]_financeVars
  BY DEF MCNext
<1>3. [MCNext]_all => [PushNext]_pushVars /\ [TagsNext]_tagVars
  BY DEF MCNext
<1>4. [MCNext]_all => [PageNext]_pageVars /\ [ViewNext]_viewVars /\ [ChatNext]_chatVars
  BY DEF MCNext
<1> QED
  BY <1>1, <1>2, <1>3, <1>4, PTL
     DEF MCSpec, HintsSpec, FinanceSpec, PushSpec, TagsSpec, PageSpec, ViewSpec, ChatSpec

\* In the composition the variables of every part keep their types.
THEOREM AllTyped == MCSpec => []AllTypesOK
<1>1. HintsInv /\ FinanceInv /\ PushInv /\ TagsInv
          => HintsTypeOK /\ FinanceTypeOK /\ PushTypeOK /\ TagsTypeOK
  BY DEF HintsInv, FinanceInv, PushInv, TagsInv
<1>2. PageInv /\ ViewInv /\ ChatInv => PageTypeOK /\ ViewTypeOK /\ ChatTypeOK
  BY DEF PageInv, ViewInv, ChatInv
<1>3. /\ HintsTypeOK /\ FinanceTypeOK /\ PushTypeOK /\ TagsTypeOK
      /\ PageTypeOK /\ ViewTypeOK /\ ChatTypeOK
      => AllTypesOK
  BY DEF AllTypesOK
<1> QED
  BY <1>1, <1>2, <1>3, AllParts, HintsInvariance, FinanceInvariance, PushInvariance, TagsInvariance,
     PageInvariance, ViewInvariance, ChatInvariance, PTL

\* What is proved of each part holds of their composition.
THEOREM AllKeep ==
    MCSpec => [](/\ HintsSound /\ CountedOnce /\ SubscriberKept /\ TagsKept
                 /\ PageTrue /\ ViewFollows /\ ChatWhole)
<1> QED
  BY AllParts, OfferedAndAccepted, NothingTwice, NoneForgotten, NoTagTaken,
     ShownAsStored, ViewCatchesUp, AnswersWhole, PTL

=============================================================================
