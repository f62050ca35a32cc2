-------------------------- MODULE SignalTicketsProofs --------------------------
(***************************************************************************)
(* What holds of tickets for every set of phones, users and requests, and  *)
(* every number of messages and faults.                                    *)
(***************************************************************************)
EXTENDS SignalTickets, CommonLemmas, FiniteSetTheorems

\* The parts of TypeOK.
TableOK ==
    /\ created \in Nat
    /\ DOMAIN rows \subseteq 1 .. created
    /\ \A t \in DOMAIN rows : rows[t] \in Row
    /\ listed \in [Phones -> SUBSET (1 .. created)]

QueuesOK ==
    /\ inbox \in Seq(Message)
    /\ batch \in [Polls -> Seq(Message)]

PlacesOK ==
    /\ at \in [Workers -> Places]
    /\ \A p \in Polls : at[p] = "idle" <=> batch[p] = <<>>

HeldOK ==
    /\ held \in [Workers -> {NoRow} \cup [id : 1 .. created, row : Row]]
    /\ \A w \in Workers : at[w] \in {"idle", "next"} <=> held[w] = NoRow

CountersOK ==
    /\ answers \in [Phones -> Nat]
    /\ sent \in Nat /\ faults \in Nat /\ asked \in Nat

LEMMA TypeParts == TypeOK <=> TableOK /\ QueuesOK /\ PlacesOK /\ HeldOK /\ CountersOK
BY Zenon DEF TypeOK, TableOK, QueuesOK, PlacesOK, HeldOK, CountersOK

LEMMA NextTypeParts == TypeOK' <=> TableOK' /\ QueuesOK' /\ PlacesOK' /\ HeldOK' /\ CountersOK'
BY TypeParts, PTL

-----------------------------------------------------------------------------
(* The loop of a poll                                                      *)

LEMMA WorkerFacts ==
    Polls \subseteq Workers /\ Requests \subseteq Workers
        /\ \A w \in Workers : w \in Polls <=> w \notin Requests
BY TicketAssumption DEF Workers

\* Going on, or leaving the loop.
LEMMA NextMessageFacts ==
    ASSUME QueuesOK, PlacesOK, NEW p \in Polls, at[p] # "idle", NextMessage(p)
    PROVE  /\ batch' \in [Polls -> Seq(Message)] /\ at' \in [Workers -> Places]
           /\ at'[p] \in {"idle", "next"} /\ (at'[p] = "idle" <=> batch'[p] = <<>>)
           /\ \A q \in Polls : q # p => batch'[q] = batch[q]
           /\ \A w \in Workers : w # p => at'[w] = at[w]
<1>1. batch[p] \in Seq(Message) /\ batch[p] # <<>> /\ p \in Workers
  BY WorkerFacts DEF QueuesOK, PlacesOK
<1>2. Tail(batch[p]) \in Seq(Message) /\ (Tail(batch[p]) = <<>> <=> Len(batch[p]) = 1)
  BY <1>1, TailFacts
<1> QED
  BY <1>1, <1>2 DEF NextMessage, GoTo, QueuesOK, PlacesOK, Places

LEMMA AbortFacts ==
    ASSUME QueuesOK, PlacesOK, NEW p \in Polls, Abort(p)
    PROVE  /\ batch' \in [Polls -> Seq(Message)] /\ at' \in [Workers -> Places]
           /\ at'[p] = "idle" /\ batch'[p] = <<>>
           /\ \A q \in Polls : q # p => batch'[q] = batch[q]
           /\ \A w \in Workers : w # p => at'[w] = at[w]
BY WorkerFacts, EmptySeq DEF Abort, GoTo, QueuesOK, PlacesOK, Places

\* The message at hand, and reading it as another.
LEMMA MsgFacts ==
    ASSUME QueuesOK, NEW p \in Polls, batch[p] # <<>>
    PROVE  /\ Msg(p) \in Message /\ batch[p][1] = Msg(p)
           /\ \A m \in Message :
                 /\ [batch EXCEPT ![p] = [@ EXCEPT ![1] = m]] \in [Polls -> Seq(Message)]
                 /\ [batch EXCEPT ![p] = [@ EXCEPT ![1] = m]][p] # <<>>
<1>1. batch[p] \in Seq(Message) /\ batch \in [Polls -> Seq(Message)]
  BY DEF QueuesOK
<1>2. Head(batch[p]) \in Message /\ Head(batch[p]) = batch[p][1] /\ 1 \in 1 .. Len(batch[p])
  BY <1>1, TailFacts
<1>3. ASSUME NEW m \in Message
      PROVE  /\ [batch[p] EXCEPT ![1] = m] \in Seq(Message)
             /\ [batch[p] EXCEPT ![1] = m] # <<>>
  <2>1. /\ [batch[p] EXCEPT ![1] = m] \in Seq(Message)
        /\ Len([batch[p] EXCEPT ![1] = m]) = Len(batch[p])
    BY <1>1, <1>2, ExceptSeq
  <2> QED
    BY <1>1, <1>2, <2>1, EmptySeq
<1> QED
  BY <1>1, <1>2, <1>3 DEF Msg

\* The model's reading replaces the message at hand.
LEMMA FreeFacts ==
    ASSUME TableOK, QueuesOK, PlacesOK, HeldOK, CountersOK, NEW p \in Polls, handleFreeText(p)
    PROVE  QueuesOK' /\ PlacesOK'
<1> USE DEF QueuesOK, PlacesOK, Places
<1>1. batch[p] # <<>> /\ at[p] # "idle"
  BY DEF handleFreeText, Handling, Msg, TableUnchanged, WorldUnchanged
<1>2. Msg(p) \in Message /\ batch[p][1] = Msg(p)
  BY <1>1, MsgFacts
<1>3. CASE NextMessage(p)
  BY <1>1, <1>3, NextMessageFacts, WorkerFacts DEF handleFreeText, Handling, Msg, TableUnchanged,
     WorldUnchanged
<1>4. CASE ~NextMessage(p)
  <2>1. PICK m \in Message : batch' = [batch EXCEPT ![p] = [@ EXCEPT ![1] = m]]
    <3>1. ASSUME NEW kind \in Kinds PROVE [Msg(p) EXCEPT !.kind = kind] \in Message
      BY <1>2 DEF Message
    <3>2. ASSUME NEW n \in Nat PROVE [Msg(p) EXCEPT !.kind = "done", !.seq = n] \in Message
      BY <1>2 DEF Message, Kinds
    <3>3. \/ \E kind \in {"task", "only"} :
                 batch' = [batch EXCEPT ![p] = [@ EXCEPT ![1] = [Msg(p) EXCEPT !.kind = kind]]]
          \/ \E n \in Nat :
                batch' = [batch EXCEPT ![p] = [@ EXCEPT ![1] = [Msg(p) EXCEPT !.kind = "done", !.seq = n]]]
      <4>1. CASE \E kind \in {"task", "only"} :
                batch' = [batch EXCEPT ![p][1] = [@ EXCEPT !.kind = kind]]
        BY <1>2, <4>1
      <4>2. CASE \E n \in Numbers :
                batch' = [batch EXCEPT ![p][1] = [@ EXCEPT !.kind = "done", !.seq = n]]
        <5>1. \A n \in Numbers : n \in Nat
          BY TicketAssumption DEF Numbers
        <5> QED
          BY <1>2, <4>2, <5>1
      <4> QED
        BY <1>4, <4>1, <4>2 DEF handleFreeText
    <3> QED
      BY <3>1, <3>2, <3>3 DEF Kinds
  <2>2. UNCHANGED <<at, inbox>>
    BY <1>4 DEF handleFreeText, Handling, Msg, TableUnchanged, WorldUnchanged
  <2> QED
    BY <1>1, <2>1, <2>2, MsgFacts, WorkerFacts
<1> QED
  BY <1>3, <1>4

\* So does the only open ticket.
LEMMA OnlyFacts ==
    ASSUME TableOK, QueuesOK, PlacesOK, HeldOK, CountersOK, NEW p \in Polls, CompleteOnly(p)
    PROVE  QueuesOK' /\ PlacesOK'
<1> USE DEF QueuesOK, PlacesOK, Places
<1>1. batch[p] # <<>> /\ at[p] # "idle"
  BY DEF CompleteOnly, Handling, Msg, TableUnchanged, WorldUnchanged
<1>2. Msg(p) \in Message /\ batch[p][1] = Msg(p)
  BY <1>1, MsgFacts
<1>3. CASE NextMessage(p)
  BY <1>1, <1>3, NextMessageFacts, WorkerFacts DEF CompleteOnly, Handling, Msg, TableUnchanged,
     WorldUnchanged
<1>4. CASE ~NextMessage(p)
  <2>1. PICK m \in Message : batch' = [batch EXCEPT ![p] = [@ EXCEPT ![1] = m]]
    <3> DEFINE open == OpenOf(OwnerOf[Msg(p).phone])
    <3>1. Cardinality(open) = 1 /\ batch' = [batch EXCEPT ![p] = [@ EXCEPT ![1] =
              [Msg(p) EXCEPT !.kind = "done", !.seq = rows[CHOOSE t \in open : TRUE].seq]]]
      BY <1>2, <1>4 DEF CompleteOnly
    <3>2. open # {}
      <4>1. Cardinality(open) = 1
        BY <3>1
      <4>2. Cardinality({}) = 0
        BY FS_EmptySet
      <4>3. 0 # 1
        OBVIOUS
      <4> HIDE DEF open
      <4> QED
        BY <4>1, <4>2, <4>3, Zenon
    <3>3. (CHOOSE t \in open : TRUE) \in DOMAIN rows
      BY <3>2 DEF OpenOf
    <3>4. rows[CHOOSE t \in open : TRUE].seq \in Nat
      BY <3>3 DEF TableOK, Row
    <3> HIDE DEF open
    <3>5. [Msg(p) EXCEPT !.kind = "done", !.seq = rows[CHOOSE t \in open : TRUE].seq] \in Message
      BY <1>2, <3>4 DEF Message, Kinds
    <3> QED
      BY <3>1, <3>5
  <2>2. UNCHANGED <<at, inbox>>
    BY <1>4 DEF CompleteOnly, Handling, Msg, TableUnchanged, WorldUnchanged
  <2> QED
    BY <1>1, <2>1, <2>2, MsgFacts, WorkerFacts
<1> QED
  BY <1>3, <1>4

\* Queues and batches keep their types.
LEMMA QueuesTyped ==
    ASSUME TableOK, QueuesOK, PlacesOK, HeldOK, CountersOK, [Next]_vars
    PROVE  QueuesOK'
<1> USE EmptySeq DEF QueuesOK, PlacesOK
<1>1. ASSUME NEW m \in Messages, Send(m) PROVE QueuesOK'
  <2>1. m \in Message
    BY TicketAssumption
  <2> QED
    BY <1>1, <2>1, AppendProperties DEF Send
<1>2. ASSUME Crash PROVE QueuesOK'
  BY <1>2 DEF Crash, TableUnchanged, WorldUnchanged
<1>3. ASSUME NEW p \in Polls, Receive(p) PROVE QueuesOK'
  BY <1>3 DEF Receive, GoTo
<1>4. ASSUME NEW p \in Polls, handleFreeText(p) PROVE QueuesOK'
  BY <1>4, FreeFacts
<1>5. ASSUME NEW p \in Polls, CompleteOnly(p) PROVE QueuesOK'
  BY <1>5, OnlyFacts
<1>6. ASSUME NEW p \in Polls, createPending(p) PROVE QueuesOK'
  <2>1. batch[p] # <<>> /\ at[p] # "idle"
    BY <1>6 DEF createPending, Handling, Msg, WorldUnchanged
  <2>2. NextMessage(p) => batch' \in [Polls -> Seq(Message)]
    BY <2>1, NextMessageFacts
  <2>3. Abort(p) => batch' \in [Polls -> Seq(Message)]
    BY AbortFacts
  <2> QED
    BY <1>6, <2>1, <2>2, <2>3 DEF createPending, Handling, Msg, WorldUnchanged
<1>7. ASSUME NEW p \in Polls, FindPending(p) PROVE QueuesOK'
  <2>1. batch[p] # <<>> /\ at[p] # "idle"
    BY <1>7 DEF FindPending, Handling, Msg, GoTo, Hold, TableUnchanged, WorldUnchanged
  <2>2. NextMessage(p) => batch' \in [Polls -> Seq(Message)]
    BY <2>1, NextMessageFacts
  <2>3. Abort(p) => batch' \in [Polls -> Seq(Message)]
    BY AbortFacts
  <2> QED
    BY <1>7, <2>1, <2>2, <2>3 DEF FindPending, Handling, Msg, GoTo, Hold, TableUnchanged,
         WorldUnchanged
<1>8. ASSUME NEW p \in Polls, NumberPending(p) PROVE QueuesOK'
  BY <1>8 DEF NumberPending, GoTo, Hold, TableUnchanged, WorldUnchanged
<1>9. ASSUME NEW p \in Polls, FindOpen(p) PROVE QueuesOK'
  <2>1. batch[p] # <<>> /\ at[p] # "idle"
    BY <1>9 DEF FindOpen, Handling, Msg, GoTo, Hold, TableUnchanged, WorldUnchanged
  <2>2. NextMessage(p) => batch' \in [Polls -> Seq(Message)]
    BY <2>1, NextMessageFacts
  <2>3. Abort(p) => batch' \in [Polls -> Seq(Message)]
    BY AbortFacts
  <2> QED
    BY <1>9, <2>1, <2>2, <2>3 DEF FindOpen, Handling, Msg, GoTo, Hold, TableUnchanged,
         WorldUnchanged
<1>10. ASSUME NEW p \in Polls, SaveTicket(p) PROVE QueuesOK'
  <2>1. batch[p] # <<>> /\ at[p] # "idle"
    BY <1>10 DEF SaveTicket, Release, MayFail, saveRow, WorldUnchanged
  <2>2. NextMessage(p) => batch' \in [Polls -> Seq(Message)]
    BY <2>1, NextMessageFacts
  <2>3. Abort(p) => batch' \in [Polls -> Seq(Message)]
    BY AbortFacts
  <2> QED
    BY <1>10, <2>1, <2>2, <2>3 DEF SaveTicket, Release, MayFail, saveRow, WorldUnchanged
<1>11. ASSUME NEW p \in Polls, Throw(p) PROVE QueuesOK'
  BY <1>11, AbortFacts DEF Throw, TableUnchanged, WorldUnchanged
<1>12. ASSUME NEW p \in Polls, NoAccount(p) PROVE QueuesOK'
  <2>1. batch[p] # <<>> /\ at[p] # "idle"
    BY <1>12 DEF NoAccount, Handling, Msg, TableUnchanged, WorldUnchanged
  <2>2. NextMessage(p) => batch' \in [Polls -> Seq(Message)]
    BY <2>1, NextMessageFacts
  <2>3. Abort(p) => batch' \in [Polls -> Seq(Message)]
    BY AbortFacts
  <2> QED
    BY <1>12, <2>1, <2>2, <2>3 DEF NoAccount, Handling, Msg, TableUnchanged, WorldUnchanged
<1>13. ASSUME NEW d \in Requests, NEW t \in Ids,
              NEW status \in {"open", "done"}, updateTicket(d, t, status)
       PROVE  QueuesOK'
  BY <1>13 DEF updateTicket, GoTo, Hold, TableUnchanged
<1>14. ASSUME NEW d \in Requests, NEW t \in Ids, deleteTicket(d, t) PROVE QueuesOK'
  BY <1>14 DEF deleteTicket, GoTo, Hold, TableUnchanged
<1>15. ASSUME NEW d \in Requests, SaveUpdate(d) PROVE QueuesOK'
  BY <1>15 DEF SaveUpdate, Release, GoTo, saveRow, WorldUnchanged
<1>16. ASSUME NEW d \in Requests, RemoveTicket(d) PROVE QueuesOK'
  BY <1>16 DEF RemoveTicket, Release, GoTo, WorldUnchanged
<1>17. CASE UNCHANGED vars
  BY <1>17 DEF vars
<1> QED
  BY <1>1, <1>2, <1>3, <1>4, <1>5, <1>6, <1>7, <1>8, <1>9, <1>10, <1>11, <1>12, <1>13,
       <1>14, <1>15, <1>16, <1>17 DEF Next

\* A poll is idle when its batch is empty.
LEMMA PlacesTyped ==
    ASSUME TableOK, QueuesOK, PlacesOK, HeldOK, CountersOK, [Next]_vars
    PROVE  PlacesOK'
<1> USE WorkerFacts, EmptySeq DEF QueuesOK, PlacesOK, Places
<1>1. ASSUME NEW m \in Messages, Send(m) PROVE PlacesOK'
  BY <1>1 DEF Send
<1>2. ASSUME Crash PROVE PlacesOK'
  BY <1>2 DEF Crash, TableUnchanged, WorldUnchanged
<1>3. ASSUME NEW p \in Polls, Receive(p) PROVE PlacesOK'
  BY <1>3 DEF Receive, GoTo
<1>4. ASSUME NEW p \in Polls, handleFreeText(p) PROVE PlacesOK'
  BY <1>4, FreeFacts
<1>5. ASSUME NEW p \in Polls, CompleteOnly(p) PROVE PlacesOK'
  BY <1>5, OnlyFacts
<1>6. ASSUME NEW p \in Polls, createPending(p) PROVE PlacesOK'
  <2>1. batch[p] # <<>> /\ at[p] # "idle"
    BY <1>6 DEF createPending, Handling, Msg, WorldUnchanged
  <2>2. NextMessage(p) => PlacesOK'
    BY <2>1, NextMessageFacts
  <2>3. Abort(p) => PlacesOK'
    BY AbortFacts
  <2> QED
    BY <1>6, <2>1, <2>2, <2>3 DEF createPending, Handling, Msg, WorldUnchanged
<1>7. ASSUME NEW p \in Polls, FindPending(p) PROVE PlacesOK'
  <2>1. batch[p] # <<>> /\ at[p] # "idle"
    BY <1>7 DEF FindPending, Handling, Msg, GoTo, Hold, TableUnchanged, WorldUnchanged
  <2>2. NextMessage(p) => PlacesOK'
    BY <2>1, NextMessageFacts
  <2>3. Abort(p) => PlacesOK'
    BY AbortFacts
  <2> QED
    BY <1>7, <2>1, <2>2, <2>3 DEF FindPending, Handling, Msg, GoTo, Hold, TableUnchanged,
         WorldUnchanged
<1>8. ASSUME NEW p \in Polls, NumberPending(p) PROVE PlacesOK'
  BY <1>8 DEF NumberPending, GoTo, Hold, TableUnchanged, WorldUnchanged
<1>9. ASSUME NEW p \in Polls, FindOpen(p) PROVE PlacesOK'
  <2>1. batch[p] # <<>> /\ at[p] # "idle"
    BY <1>9 DEF FindOpen, Handling, Msg, GoTo, Hold, TableUnchanged, WorldUnchanged
  <2>2. NextMessage(p) => PlacesOK'
    BY <2>1, NextMessageFacts
  <2>3. Abort(p) => PlacesOK'
    BY AbortFacts
  <2> QED
    BY <1>9, <2>1, <2>2, <2>3 DEF FindOpen, Handling, Msg, GoTo, Hold, TableUnchanged,
         WorldUnchanged
<1>10. ASSUME NEW p \in Polls, SaveTicket(p) PROVE PlacesOK'
  <2>1. batch[p] # <<>> /\ at[p] # "idle"
    BY <1>10 DEF SaveTicket, Release, MayFail, saveRow, WorldUnchanged
  <2>2. NextMessage(p) => PlacesOK'
    BY <2>1, NextMessageFacts
  <2>3. Abort(p) => PlacesOK'
    BY AbortFacts
  <2> QED
    BY <1>10, <2>1, <2>2, <2>3 DEF SaveTicket, Release, MayFail, saveRow, WorldUnchanged
<1>11. ASSUME NEW p \in Polls, Throw(p) PROVE PlacesOK'
  BY <1>11, AbortFacts DEF Throw, TableUnchanged, WorldUnchanged
<1>12. ASSUME NEW p \in Polls, NoAccount(p) PROVE PlacesOK'
  <2>1. batch[p] # <<>> /\ at[p] # "idle"
    BY <1>12 DEF NoAccount, Handling, Msg, TableUnchanged, WorldUnchanged
  <2>2. NextMessage(p) => PlacesOK'
    BY <2>1, NextMessageFacts
  <2>3. Abort(p) => PlacesOK'
    BY AbortFacts
  <2> QED
    BY <1>12, <2>1, <2>2, <2>3 DEF NoAccount, Handling, Msg, TableUnchanged, WorldUnchanged
<1>13. ASSUME NEW d \in Requests, NEW t \in Ids,
              NEW status \in {"open", "done"}, updateTicket(d, t, status)
       PROVE  PlacesOK'
  BY <1>13 DEF updateTicket, GoTo, Hold, TableUnchanged
<1>14. ASSUME NEW d \in Requests, NEW t \in Ids, deleteTicket(d, t) PROVE PlacesOK'
  BY <1>14 DEF deleteTicket, GoTo, Hold, TableUnchanged
<1>15. ASSUME NEW d \in Requests, SaveUpdate(d) PROVE PlacesOK'
  BY <1>15 DEF SaveUpdate, Release, GoTo, saveRow, WorldUnchanged
<1>16. ASSUME NEW d \in Requests, RemoveTicket(d) PROVE PlacesOK'
  BY <1>16 DEF RemoveTicket, Release, GoTo, WorldUnchanged
<1>17. CASE UNCHANGED vars
  BY <1>17 DEF vars
<1> QED
  BY <1>1, <1>2, <1>3, <1>4, <1>5, <1>6, <1>7, <1>8, <1>9, <1>10, <1>11, <1>12, <1>13,
       <1>14, <1>15, <1>16, <1>17 DEF Next

\* Counters count.
LEMMA CountersTyped ==
    ASSUME TableOK, QueuesOK, PlacesOK, HeldOK, CountersOK, [Next]_vars
    PROVE  CountersOK'
<1> USE DEF CountersOK
<1>1. ASSUME NEW m \in Messages, Send(m) PROVE CountersOK'
  <2>1. m.phone \in Phones
    BY TicketAssumption DEF Message
  <2> QED
    BY <1>1, <2>1 DEF Send
<1>2. ASSUME Crash PROVE CountersOK'
  BY <1>2 DEF Crash, TableUnchanged, WorldUnchanged
<1>3. ASSUME NEW p \in Polls, Receive(p) PROVE CountersOK'
  BY <1>3 DEF Receive, GoTo
<1>4. ASSUME NEW p \in Polls, handleFreeText(p) PROVE CountersOK'
  BY <1>4 DEF handleFreeText, Handling, Msg, TableUnchanged, WorldUnchanged
<1>5. ASSUME NEW p \in Polls, CompleteOnly(p) PROVE CountersOK'
  BY <1>5 DEF CompleteOnly, Handling, Msg, TableUnchanged, WorldUnchanged
<1>6. ASSUME NEW p \in Polls, createPending(p) PROVE CountersOK'
  BY <1>6 DEF createPending, Handling, Msg, WorldUnchanged
<1>7. ASSUME NEW p \in Polls, FindPending(p) PROVE CountersOK'
  BY <1>7 DEF FindPending, Handling, Msg, GoTo, Hold, TableUnchanged, WorldUnchanged
<1>8. ASSUME NEW p \in Polls, NumberPending(p) PROVE CountersOK'
  BY <1>8 DEF NumberPending, GoTo, Hold, TableUnchanged, WorldUnchanged
<1>9. ASSUME NEW p \in Polls, FindOpen(p) PROVE CountersOK'
  BY <1>9 DEF FindOpen, Handling, Msg, GoTo, Hold, TableUnchanged, WorldUnchanged
<1>10. ASSUME NEW p \in Polls, SaveTicket(p) PROVE CountersOK'
  BY <1>10 DEF SaveTicket, Release, MayFail, saveRow, WorldUnchanged
<1>11. ASSUME NEW p \in Polls, Throw(p) PROVE CountersOK'
  BY <1>11 DEF Throw, Release, MayFail, TableUnchanged, WorldUnchanged
<1>12. ASSUME NEW p \in Polls, NoAccount(p) PROVE CountersOK'
  BY <1>12 DEF NoAccount, Handling, Msg, TableUnchanged, WorldUnchanged
<1>13. ASSUME NEW d \in Requests, NEW t \in Ids,
              NEW status \in {"open", "done"}, updateTicket(d, t, status)
       PROVE  CountersOK'
  BY <1>13 DEF updateTicket, GoTo, Hold, TableUnchanged
<1>14. ASSUME NEW d \in Requests, NEW t \in Ids, deleteTicket(d, t) PROVE CountersOK'
  BY <1>14 DEF deleteTicket, GoTo, Hold, TableUnchanged
<1>15. ASSUME NEW d \in Requests, SaveUpdate(d) PROVE CountersOK'
  BY <1>15 DEF SaveUpdate, Release, GoTo, saveRow, WorldUnchanged
<1>16. ASSUME NEW d \in Requests, RemoveTicket(d) PROVE CountersOK'
  BY <1>16 DEF RemoveTicket, Release, GoTo, WorldUnchanged
<1>17. CASE UNCHANGED vars
  BY <1>17 DEF vars
<1> QED
  BY <1>1, <1>2, <1>3, <1>4, <1>5, <1>6, <1>7, <1>8, <1>9, <1>10, <1>11, <1>12, <1>13,
       <1>14, <1>15, <1>16, <1>17 DEF Next

-----------------------------------------------------------------------------
(* What each step does to the table and to the rows that workers hold      *)

Others(w) == \A v \in Workers : v # w => at'[v] = at[v] /\ held'[v] = held[v]
Table == UNCHANGED <<rows, created, listed>>
Put(w, t, row, place) == held'[w] = [id |-> t, row |-> row] /\ at'[w] = place
Drop(w) == held'[w] = NoRow /\ at'[w] \in {"idle", "next"} /\ (w \in Requests => at'[w] = "idle")
KeepOrDrop == \A w \in Workers : (at'[w] = at[w] /\ held'[w] = held[w]) \/ Drop(w)
HeldTyped == held' \in [Workers -> {NoRow} \cup [id : 1 .. created', row : Row]]
SameOwner(row, t) == row \in Row /\ row.owner = rows[t].owner /\ row.phone = rows[t].phone

Holds(w) == at[w] \in {"number", "save", "remove"}
Listed(t) == \E ph \in Phones : t \in listed[ph]

\* A worker holds a row of the table, under its owner and its phone.
Known ==
    /\ \A p \in Polls : at[p] # "remove"
    /\ \A d \in Requests : at[d] \in {"idle", "save", "remove"}
    /\ \A w \in Workers : Holds(w) =>
          /\ held[w].id \in DOMAIN rows =>
                /\ rows[held[w].id].owner = held[w].row.owner
                /\ rows[held[w].id].phone = held[w].row.phone
          /\ \A y \in Workers : Holds(y) /\ held[y].id = held[w].id =>
                held[y].row.owner = held[w].row.owner /\ held[y].row.phone = held[w].row.phone

\* A ticket that was open never waits again; one that never was is not deleted.
Shown ==
    /\ \A t \in DOMAIN rows : Listed(t) => rows[t].status # "pending_confirm"
    /\ \A t \in 1 .. created : t \in DOMAIN rows \/ Listed(t)
    /\ \A d \in Requests : Holds(d) => Listed(held[d].id)
    /\ \A w \in Workers : at[w] = "save" => held[w].row.status # "pending_confirm"

\* What a poll settles is the oldest of its phone.
OldestHeld ==
    \A p \in Polls : Holds(p) /\ held[p].id \in Pending(held[p].row.phone) =>
        \A x \in Pending(held[p].row.phone) : held[p].id <= x

\* With one poll at a time, nobody else settles the ticket it holds.
Settling ==
    /\ \A t \in DOMAIN rows : Listed(t) <=> rows[t].status \in {"open", "done"}
    /\ \A p \in Polls : Holds(p) =>
          IF Listed(held[p].id)
          THEN at[p] = "save" /\ held[p].row.status = "done"
          ELSE /\ rows[held[p].id].status = "pending_confirm"
               /\ at[p] = "save" => held[p].row.status \in {"open", "cancelled"}
    /\ \A d \in Requests : at[d] = "save" => held[d].row.status \in {"open", "done"}

\* With one request at a time as well, a number stays with its ticket.
Numbered ==
    /\ \A t \in DOMAIN rows : rows[t].seq = 0 <=> ~Listed(t)
    /\ \A t, x \in DOMAIN rows :
          rows[t].owner = rows[x].owner /\ rows[t].seq = rows[x].seq => t = x \/ rows[t].seq = 0
    /\ \A w \in Workers : at[w] = "save" =>
          /\ held[w].row.seq = 0 <=> held[w].row.status = "cancelled"
          /\ held[w].row.seq # 0 =>
                \A x \in DOMAIN rows : x # held[w].id /\ rows[x].owner = held[w].row.owner =>
                    rows[x].seq # held[w].row.seq
          /\ held[w].id \in DOMAIN rows /\ Listed(held[w].id) =>
                rows[held[w].id].seq = held[w].row.seq
    /\ \A d \in Requests : Holds(d) => held[d].id \in DOMAIN rows

QuietEffect == Table /\ KeepOrDrop /\ HeldTyped

CreateEffect(p, row) ==
    /\ row \in Row /\ row.status = "pending_confirm" /\ row.seq = 0
    /\ created' = created + 1 /\ listed' = listed
    /\ DOMAIN rows' = DOMAIN rows \cup {created + 1} /\ rows'[created + 1] = row
    /\ \A t \in DOMAIN rows : rows'[t] = rows[t]
    /\ KeepOrDrop /\ HeldTyped

\* confirmPending or cancelPending has loaded the oldest ticket of its phone.
AskEffect(p, t, row, place) ==
    /\ ~Holds(p) /\ Put(p, t, row, place) /\ Others(p) /\ Table /\ HeldTyped
    /\ t \in Pending(rows[t].phone) /\ \A x \in Pending(rows[t].phone) : t <= x
    /\ SameOwner(row, t) /\ row.seq = rows[t].seq
    /\ place = "number" \/ (place = "save" /\ row.status = "cancelled")

NumberEffect(p, row) ==
    /\ at[p] = "number" /\ Put(p, held[p].id, row, "save") /\ Others(p) /\ Table /\ HeldTyped
    /\ row \in Row /\ row.owner = held[p].row.owner /\ row.phone = held[p].row.phone
    /\ row.status = "open" /\ row.seq = nextSeq(row.owner)

FinishEffect(p, t, row) ==
    /\ ~Holds(p) /\ Put(p, t, row, "save") /\ Others(p) /\ Table /\ HeldTyped
    /\ t \in DOMAIN rows /\ rows[t].status = "open"
    /\ SameOwner(row, t) /\ row.status = "done" /\ row.seq = rows[t].seq

EditEffect(d, t, row, place) ==
    /\ ~Holds(d) /\ Put(d, t, row, place) /\ Others(d) /\ Table /\ HeldTyped
    /\ t \in DOMAIN rows /\ Listed(t)
    /\ SameOwner(row, t) /\ row.seq = rows[t].seq
    /\ place \in {"save", "remove"} /\ (place = "save" => row.status \in {"open", "done"})

SaveEffect(w) ==
    /\ at[w] = "save" /\ Drop(w) /\ Others(w) /\ created' = created /\ HeldTyped
    /\ DOMAIN rows' = DOMAIN rows \cup {held[w].id} /\ rows'[held[w].id] = held[w].row
    /\ \A t \in DOMAIN rows : t # held[w].id => rows'[t] = rows[t]
    /\ listed' \in [Phones -> SUBSET (1 .. created)]
    /\ \A ph \in Phones :
          listed'[ph] = IF held[w].row.status = "open" /\ ph = held[w].row.phone
                        THEN listed[ph] \cup {held[w].id} ELSE listed[ph]

RemoveEffect(d) ==
    /\ at[d] = "remove" /\ Drop(d) /\ Others(d) /\ created' = created /\ listed' = listed /\ HeldTyped
    /\ DOMAIN rows' = DOMAIN rows \ {held[d].id}
    /\ \A t \in DOMAIN rows' : rows'[t] = rows[t]

Effect ==
    \/ QuietEffect
    \/ \E p \in Polls, row \in Row : CreateEffect(p, row)
    \/ \E p \in Polls, t \in DOMAIN rows, row \in Row, place \in Places : AskEffect(p, t, row, place)
    \/ \E p \in Polls, row \in Row : NumberEffect(p, row)
    \/ \E p \in Polls, t \in DOMAIN rows, row \in Row : FinishEffect(p, t, row)
    \/ \E d \in Requests, t \in DOMAIN rows, row \in Row, place \in Places :
           EditEffect(d, t, row, place)
    \/ \E w \in Workers : SaveEffect(w)
    \/ \E d \in Requests : RemoveEffect(d)

\* A row and its number are what the code makes of them.
LEMMA PendingFacts ==
    ASSUME TableOK, NEW ph \in Phones, Pending(ph) # {}
    PROVE  /\ Oldest(ph) \in Pending(ph) /\ Oldest(ph) \in DOMAIN rows
           /\ rows[Oldest(ph)].phone = ph /\ rows[Oldest(ph)].status = "pending_confirm"
           /\ \A x \in Pending(ph) : Oldest(ph) <= x
<1>1. Pending(ph) \in SUBSET Nat
  BY DEF Pending, TableOK
<1>2. Oldest(ph) \in Pending(ph) /\ \A x \in Pending(ph) : Oldest(ph) <= x
  BY <1>1, MinOfNats DEF Oldest
<1> QED
  BY <1>2 DEF Pending

LEMMA NextSeqFacts ==
    ASSUME TableOK, NEW owner
    PROVE  /\ nextSeq(owner) \in Nat \ {0}
           /\ \A t \in DOMAIN rows : rows[t].owner = owner => rows[t].seq < nextSeq(owner)
<1> DEFINE f == [i \in 1 .. created |-> IF i \in DOMAIN rows THEN rows[i].seq ELSE 0]
           T == {0} \cup {rows[t].seq : t \in {x \in DOMAIN rows : rows[x].owner = owner}}
<1>1. f \in [1 .. created -> Nat] /\ created \in Nat
  BY DEF TableOK, Row
<1>2. PICK b \in Nat : \A i \in 1 .. created : f[i] <= b
  BY <1>1, Bounded
<1>3. T \in SUBSET Nat /\ 0 \in T /\ \A t \in DOMAIN rows : rows[t].owner = owner => rows[t].seq \in T
  BY DEF TableOK, Row
<1>4. \A y \in T : y <= b
  <2>1. \A t \in DOMAIN rows : rows[t].seq <= b
    BY <1>2 DEF TableOK
  <2> QED
    BY <1>2, <2>1
<1>5. nextSeq(owner) = Max(T) + 1
  BY DEF nextSeq
<1> HIDE DEF T, f
<1>6. Max(T) \in Nat /\ \A y \in T : y \in Nat /\ y <= Max(T)
  BY <1>2, <1>3, <1>4, MaxOfNats
<1>7. \A y \in T : y < Max(T) + 1
  BY <1>6
<1>8. Max(T) + 1 \in Nat \ {0}
  BY <1>6
<1> QED
  BY <1>3, <1>5, <1>7, <1>8

LEMMA HeldFacts ==
    ASSUME PlacesOK, HeldOK, NEW w \in Workers
    PROVE  /\ Holds(w) <=> held[w] # NoRow
           /\ Holds(w) => held[w].id \in 1 .. created /\ held[w].row \in Row
                          /\ held[w] \in [id : 1 .. created, row : Row]
BY DEF PlacesOK, HeldOK, Holds, Places

LEMMA NotHolding ==
    ASSUME PlacesOK, HeldOK, NEW w \in Workers, at[w] \in {"idle", "next"}
    PROVE  ~Holds(w) /\ held[w] = NoRow
BY DEF HeldOK, Holds

\* A poll that goes on or gives up holds nothing.
LEMMA DropFacts ==
    ASSUME QueuesOK, PlacesOK, HeldOK, NEW p \in Polls, at[p] # "idle",
           NextMessage(p) \/ Abort(p), held' = held
               \/ held' = [held EXCEPT ![p] = NoRow], held'[p] = NoRow
    PROVE  Drop(p) /\ Others(p)
BY NextMessageFacts, AbortFacts, WorkerFacts DEF Drop, Others, HeldOK

\* Messages come and go without the table.
LEMMA SendQuiet ==
    ASSUME TableOK, QueuesOK, PlacesOK, HeldOK, CountersOK, NEW m \in Messages, Send(m)
    PROVE  QuietEffect
<1>1. Table
  BY DEF Send, TableUnchanged, Table
<1>2. KeepOrDrop /\ HeldTyped
  BY DEF Send, KeepOrDrop, HeldTyped, HeldOK
<1> QED
  BY <1>1, <1>2 DEF QuietEffect

\* A crash lets everything go.
LEMMA CrashQuiet ==
    ASSUME TableOK, QueuesOK, PlacesOK, HeldOK, CountersOK, Crash
    PROVE  QuietEffect
<1>1. Table
  BY DEF Crash, TableUnchanged, Table
<1>2. KeepOrDrop /\ HeldTyped
  BY DEF Crash, KeepOrDrop, Drop, HeldTyped, HeldOK, TableUnchanged
<1> QED
  BY <1>1, <1>2 DEF QuietEffect

\* So does a poll that begins.
LEMMA ReceiveQuiet ==
    ASSUME TableOK, QueuesOK, PlacesOK, HeldOK, CountersOK, NEW p \in Polls, Receive(p)
    PROVE  QuietEffect
<1>1. Table
  BY DEF Receive, TableUnchanged, Table
<1>2. KeepOrDrop /\ HeldTyped
  <2>1. p \in Workers /\ at[p] = "idle"
    BY WorkerFacts DEF Receive
  <2>2. at'[p] = "next" /\ \A w \in Workers : w # p => at'[w] = at[w]
    BY <2>1 DEF Receive, GoTo, PlacesOK
  <2>3. held' = held /\ created' = created /\ held[p] = NoRow
    BY <2>1, NotHolding DEF Receive
  <2> QED
    BY <2>1, <2>2, <2>3, WorkerFacts DEF KeepOrDrop, Drop, HeldTyped, HeldOK
<1> QED
  BY <1>1, <1>2 DEF QuietEffect

\* What a message means is settled in memory.
LEMMA FreeQuiet ==
    ASSUME TableOK, QueuesOK, PlacesOK, HeldOK, CountersOK, NEW p \in Polls, handleFreeText(p)
    PROVE  QuietEffect
<1>1. Table
  BY DEF handleFreeText, TableUnchanged, Table
<1>2. KeepOrDrop /\ HeldTyped
  <2>1. p \in Workers /\ at[p] # "idle" /\ created' = created
    BY WorkerFacts DEF handleFreeText, TableUnchanged, Handling
  <2>2. held'[p] = NoRow /\ \A w \in Workers : w # p => held'[w] = held[w]
    BY <2>1, NotHolding DEF handleFreeText, Handling
  <2>3. NextMessage(p) \/ Abort(p) \/ UNCHANGED <<at, held>>
    BY DEF handleFreeText
  <2>4. /\ (at'[p] = at[p] /\ held'[p] = held[p]) \/ at'[p] \in {"idle", "next"}
        /\ \A w \in Workers : w # p => at'[w] = at[w]
    BY <2>1, <2>2, <2>3, NextMessageFacts, AbortFacts, NotHolding
  <2>5. HeldTyped
    BY <2>1, <2>2 DEF HeldTyped, HeldOK, handleFreeText, Release
  <2> QED
    BY <2>2, <2>4, <2>5, WorkerFacts DEF KeepOrDrop, Drop
<1> QED
  BY <1>1, <1>2 DEF QuietEffect

\* Likewise for the only open ticket.
LEMMA OnlyQuiet ==
    ASSUME TableOK, QueuesOK, PlacesOK, HeldOK, CountersOK, NEW p \in Polls, CompleteOnly(p)
    PROVE  QuietEffect
<1>1. Table
  BY DEF CompleteOnly, TableUnchanged, Table
<1>2. KeepOrDrop /\ HeldTyped
  <2>1. p \in Workers /\ at[p] # "idle" /\ created' = created
    BY WorkerFacts DEF CompleteOnly, TableUnchanged, Handling
  <2>2. held'[p] = NoRow /\ \A w \in Workers : w # p => held'[w] = held[w]
    BY <2>1, NotHolding DEF CompleteOnly, Handling
  <2>3. NextMessage(p) \/ Abort(p) \/ UNCHANGED <<at, held>>
    BY DEF CompleteOnly
  <2>4. /\ (at'[p] = at[p] /\ held'[p] = held[p]) \/ at'[p] \in {"idle", "next"}
        /\ \A w \in Workers : w # p => at'[w] = at[w]
    BY <2>1, <2>2, <2>3, NextMessageFacts, AbortFacts, NotHolding
  <2>5. HeldTyped
    BY <2>1, <2>2 DEF HeldTyped, HeldOK, CompleteOnly, Release
  <2> QED
    BY <2>2, <2>4, <2>5, WorkerFacts DEF KeepOrDrop, Drop
<1> QED
  BY <1>1, <1>2 DEF QuietEffect

\* A sender without an account is passed over.
LEMMA NoAccountQuiet ==
    ASSUME TableOK, QueuesOK, PlacesOK, HeldOK, CountersOK, NEW p \in Polls, NoAccount(p)
    PROVE  QuietEffect
<1>1. Table
  BY DEF NoAccount, TableUnchanged, Table
<1>2. KeepOrDrop /\ HeldTyped
  <2>1. p \in Workers /\ at[p] # "idle" /\ created' = created
    BY WorkerFacts DEF NoAccount, TableUnchanged, Handling
  <2>2. held'[p] = NoRow /\ \A w \in Workers : w # p => held'[w] = held[w]
    BY <2>1, NotHolding DEF NoAccount, Handling
  <2>3. NextMessage(p) \/ Abort(p) \/ UNCHANGED <<at, held>>
    BY DEF NoAccount
  <2>4. /\ (at'[p] = at[p] /\ held'[p] = held[p]) \/ at'[p] \in {"idle", "next"}
        /\ \A w \in Workers : w # p => at'[w] = at[w]
    BY <2>1, <2>2, <2>3, NextMessageFacts, AbortFacts, NotHolding
  <2>5. HeldTyped
    BY <2>1, <2>2 DEF HeldTyped, HeldOK, NoAccount, Release
  <2> QED
    BY <2>2, <2>4, <2>5, WorkerFacts DEF KeepOrDrop, Drop
<1> QED
  BY <1>1, <1>2 DEF QuietEffect

\* A poll that fails lets its row go.
LEMMA ThrowQuiet ==
    ASSUME TableOK, QueuesOK, PlacesOK, HeldOK, CountersOK, NEW p \in Polls, Throw(p)
    PROVE  QuietEffect
<1>1. Table
  BY DEF Throw, TableUnchanged, Table
<1>2. KeepOrDrop /\ HeldTyped
  <2>1. p \in Workers /\ at[p] # "idle" /\ created' = created
    BY WorkerFacts DEF Throw, TableUnchanged, Handling
  <2>2. held'[p] = NoRow /\ \A w \in Workers : w # p => held'[w] = held[w]
    BY <2>1 DEF Throw, Release, HeldOK
  <2>3. NextMessage(p) \/ Abort(p) \/ UNCHANGED <<at, held>>
    BY DEF Throw
  <2>4. /\ (at'[p] = at[p] /\ held'[p] = held[p]) \/ at'[p] \in {"idle", "next"}
        /\ \A w \in Workers : w # p => at'[w] = at[w]
    BY <2>1, <2>2, <2>3, NextMessageFacts, AbortFacts, NotHolding
  <2>5. HeldTyped
    BY <2>1, <2>2 DEF HeldTyped, HeldOK, Throw, Release
  <2> QED
    BY <2>2, <2>4, <2>5, WorkerFacts DEF KeepOrDrop, Drop
<1> QED
  BY <1>1, <1>2 DEF QuietEffect

\* createPending adds a ticket that waits.
LEMMA CreateHasEffect ==
    ASSUME TableOK, QueuesOK, PlacesOK, HeldOK, CountersOK, NEW p \in Polls, createPending(p)
    PROVE  \E row \in Row : CreateEffect(p, row)
<1> DEFINE row == [owner |-> OwnerOf[Msg(p).phone], phone |-> Msg(p).phone, seq |-> 0, status |-> "pending_confirm"]
<1>1. p \in Workers /\ at[p] = "next" /\ batch[p] # <<>> /\ ~Holds(p) /\ held[p] = NoRow
  BY WorkerFacts, NotHolding DEF createPending, Handling, PlacesOK
<1>2. Msg(p).phone \in Phones
  BY <1>1, MsgFacts DEF Message
<1>3. row \in Row
  BY <1>2, TicketAssumption DEF Row, Status
<1>4. /\ created' = created + 1 /\ listed' = listed /\ created \in Nat /\ held' = held
      /\ rows' = [t \in DOMAIN rows \cup {created'} |-> IF t = created' THEN row ELSE rows[t]]
  BY DEF createPending, TableOK
<1>5. created + 1 \notin DOMAIN rows
  BY <1>4 DEF TableOK
<1>6. KeepOrDrop
  <2>1. NextMessage(p)
    BY DEF createPending
  <2>2. at'[p] \in {"idle", "next"} /\ \A w \in Workers : w # p => at'[w] = at[w]
    BY <1>1, <2>1, NextMessageFacts
  <2> QED
    BY <1>1, <1>4, <2>2, WorkerFacts DEF KeepOrDrop, Drop
<1>7. HeldTyped
  <2>1. 1 .. created \subseteq 1 .. created'
    BY <1>4
  <2> QED
    BY <1>4, <2>1 DEF HeldTyped, HeldOK
<1> HIDE DEF row
<1>8. /\ DOMAIN rows' = DOMAIN rows \cup {created + 1} /\ rows'[created + 1] = row
      /\ \A t \in DOMAIN rows : rows'[t] = rows[t]
  BY <1>4, <1>5
<1>9. row.status = "pending_confirm" /\ row.seq = 0
  BY DEF row
<1> QED
  BY <1>3, <1>4, <1>6, <1>7, <1>8, <1>9 DEF CreateEffect

\* A worker takes a row.
LEMMA PutFacts ==
    ASSUME TableOK, QueuesOK, PlacesOK, HeldOK, CountersOK, NEW w \in Workers, NEW t \in 1 .. created,
        NEW row \in Row, NEW place \in Places,
           Hold(w, t, row), GoTo(w, place), Table
    PROVE  Put(w, t, row, place) /\ Others(w) /\ HeldTyped
<1>1. held \in [Workers -> {NoRow} \cup [id : 1 .. created, row : Row]] /\ created' = created
  BY DEF HeldOK, Table
<1>2. [id |-> t, row |-> row] \in [id : 1 .. created, row : Row]
  OBVIOUS
<1>3. held' = [held EXCEPT ![w] = [id |-> t, row |-> row]]
  BY DEF Hold
<1>4. HeldTyped
  BY <1>1, <1>2, <1>3 DEF HeldTyped
<1>5. held'[w] = [id |-> t, row |-> row] /\ \A v \in Workers : v # w => held'[v] = held[v]
  BY <1>1, <1>3
<1>6. at'[w] = place /\ \A v \in Workers : v # w => at'[v] = at[v]
  BY DEF GoTo, PlacesOK
<1> QED
  BY <1>4, <1>5, <1>6 DEF Put, Others

\* confirmPending and cancelPending load the oldest waiting ticket, if there is one.
LEMMA FindPendingHasEffect ==
    ASSUME TableOK, QueuesOK, PlacesOK, HeldOK, CountersOK, NEW p \in Polls, FindPending(p)
    PROVE  \/ QuietEffect
           \/ \E t \in DOMAIN rows, row \in Row, place \in Places : AskEffect(p, t, row, place)
<1> DEFINE ph == Msg(p).phone
           t == Oldest(ph)
<1>1. p \in Workers /\ at[p] = "next" /\ batch[p] # <<>> /\ ~Holds(p) /\ held[p] = NoRow
  BY WorkerFacts, NotHolding DEF FindPending, Handling, PlacesOK
<1>2. ph \in Phones
  BY <1>1, MsgFacts DEF Message
<1>3. Table
  BY DEF FindPending, TableUnchanged, Table
<1>4. CASE Pending(ph) = {}
  <2>1. NextMessage(p) /\ held' = held
    BY <1>4 DEF FindPending
  <2>2. at'[p] \in {"idle", "next"} /\ \A w \in Workers : w # p => at'[w] = at[w]
    BY <1>1, <2>1, NextMessageFacts
  <2>3. KeepOrDrop /\ HeldTyped
    BY <1>1, <1>3, <2>1, <2>2, WorkerFacts DEF KeepOrDrop, Drop, HeldTyped, HeldOK, Table
  <2> QED
    BY <1>3, <2>3 DEF QuietEffect
<1>5. CASE Pending(ph) # {}
  <2>1. /\ t \in Pending(ph) /\ t \in DOMAIN rows /\ rows[t].phone = ph
        /\ \A x \in Pending(ph) : t <= x
    BY <1>2, <1>5, PendingFacts
  <2>2. rows[t] \in Row /\ t \in 1 .. created
    BY <2>1 DEF TableOK
  <2>3. \/ GoTo(p, "number") /\ Hold(p, t, rows[t])
        \/ GoTo(p, "save") /\ Hold(p, t, [rows[t] EXCEPT !.status = "cancelled"])
    BY <1>5 DEF FindPending
  <2> HIDE DEF t, ph
  <2>4. CASE GoTo(p, "number") /\ Hold(p, t, rows[t])
    <3>1. PICK row \in Row : row = rows[t]
      BY <2>2
    <3>2. Hold(p, t, row) /\ GoTo(p, "number")
      BY <2>4, <3>1 DEF Hold
    <3>3. Put(p, t, row, "number") /\ Others(p) /\ HeldTyped
      BY <1>1, <1>3, <2>2, <3>2, PutFacts DEF Places
    <3>4. t \in Pending(rows[t].phone) /\ \A x \in Pending(rows[t].phone) : t <= x
      BY <2>1
    <3>5. AskEffect(p, t, row, "number")
      <4>1. SameOwner(row, t) /\ row.seq = rows[t].seq
        BY <3>1 DEF SameOwner
      <4> QED
        BY <1>1, <1>3, <3>3, <3>4, <4>1 DEF AskEffect
    <3> QED
      BY <2>1, <3>5 DEF Places
  <2>5. CASE GoTo(p, "save") /\ Hold(p, t, [rows[t] EXCEPT !.status = "cancelled"])
    <3> DEFINE row == [rows[t] EXCEPT !.status = "cancelled"]
    <3>1. /\ row \in Row /\ row.status = "cancelled" /\ row.owner = rows[t].owner
          /\ row.phone = rows[t].phone /\ row.seq = rows[t].seq
      BY <2>2 DEF Row, Status
    <3> HIDE DEF row
    <3>2. Put(p, t, row, "save") /\ Others(p) /\ HeldTyped
      BY <1>1, <1>3, <2>2, <2>5, <3>1, PutFacts DEF Places, row
    <3> QED
      BY <1>1, <1>3, <2>1, <3>1, <3>2 DEF AskEffect, SameOwner, Places
  <2> QED
    BY <2>3, <2>4, <2>5
<1> QED
  BY <1>4, <1>5

\* confirmPending numbers and opens the ticket.
LEMMA NumberHasEffect ==
    ASSUME TableOK, QueuesOK, PlacesOK, HeldOK, CountersOK, NEW p \in Polls, NumberPending(p)
    PROVE  \E row \in Row : NumberEffect(p, row)
<1> DEFINE old == held[p].row
           row == [old EXCEPT !.seq = nextSeq(old.owner), !.status = "open"]
<1>1. p \in Workers /\ at[p] = "number" /\ Holds(p)
  BY WorkerFacts DEF NumberPending, Holds
<1>2. old \in Row /\ held[p].id \in 1 .. created
  BY <1>1, HeldFacts
<1>3. nextSeq(old.owner) \in Nat
  BY NextSeqFacts
<1>4. /\ row \in Row /\ row.owner = old.owner /\ row.phone = old.phone /\ row.status = "open"
      /\ row.seq = nextSeq(row.owner)
  <2> HIDE DEF old
  <2> QED
    BY <1>2, <1>3 DEF Row, Status
<1>5. Hold(p, held[p].id, row) /\ GoTo(p, "save") /\ Table
  BY DEF NumberPending, TableUnchanged, Table
<1> HIDE DEF row
<1>6. Put(p, held[p].id, row, "save") /\ Others(p) /\ HeldTyped
  BY <1>1, <1>2, <1>4, <1>5, PutFacts DEF Places
<1> QED
  BY <1>1, <1>4, <1>5, <1>6 DEF NumberEffect

\* markDone loads an open ticket, if there is one with that number.
LEMMA FindOpenHasEffect ==
    ASSUME TableOK, QueuesOK, PlacesOK, HeldOK, CountersOK, NEW p \in Polls, FindOpen(p)
    PROVE  \/ QuietEffect
           \/ \E t \in DOMAIN rows, row \in Row : FinishEffect(p, t, row)
<1>1. p \in Workers /\ at[p] = "next" /\ batch[p] # <<>> /\ ~Holds(p) /\ held[p] = NoRow
  BY WorkerFacts, NotHolding DEF FindOpen, Handling, PlacesOK
<1>2. Table
  BY DEF FindOpen, TableUnchanged, Table
<1>3. CASE NextMessage(p) /\ held' = held
  <2>1. at'[p] \in {"idle", "next"} /\ \A w \in Workers : w # p => at'[w] = at[w]
    BY <1>1, <1>3, NextMessageFacts
  <2>2. KeepOrDrop /\ HeldTyped
    BY <1>1, <1>2, <1>3, <2>1, WorkerFacts DEF KeepOrDrop, Drop, HeldTyped, HeldOK, Table
  <2> QED
    BY <1>2, <2>2 DEF QuietEffect
<1>4. CASE ~(NextMessage(p) /\ held' = held)
  <2>1. PICK t \in OpenOf(OwnerOf[Msg(p).phone]) : Hold(p, t, [rows[t] EXCEPT !.status = "done"])
            /\ GoTo(p, "save")
    BY <1>4 DEF FindOpen
  <2>2. t \in DOMAIN rows /\ rows[t].status = "open" /\ rows[t] \in Row /\ t \in 1 .. created
    BY <2>1 DEF OpenOf, TableOK
  <2> DEFINE row == [rows[t] EXCEPT !.status = "done"]
  <2>3. /\ row \in Row /\ row.status = "done" /\ row.owner = rows[t].owner
        /\ row.phone = rows[t].phone /\ row.seq = rows[t].seq
    BY <2>2 DEF Row, Status
  <2> HIDE DEF row
  <2>4. Put(p, t, row, "save") /\ Others(p) /\ HeldTyped
    BY <1>1, <1>2, <2>1, <2>2, <2>3, PutFacts DEF Places, row
  <2> QED
    BY <1>1, <1>2, <2>2, <2>3, <2>4 DEF FinishEffect, SameOwner
<1> QED
  BY <1>3, <1>4

\* A request loads a ticket that the dashboard has shown.
LEMMA UpdateHasEffect ==
    ASSUME TableOK, QueuesOK, PlacesOK, HeldOK, CountersOK, NEW d \in Requests, NEW t \in Ids,
        NEW status \in {"open", "done"}, updateTicket(d, t, status)
    PROVE  \E row \in Row, place \in Places : t \in DOMAIN rows /\ EditEffect(d, t, row, place)
<1>1. d \in Workers /\ ~Holds(d) /\ Table
  BY WorkerFacts DEF updateTicket, Holds, TableUnchanged, Table
<1>2. t \in DOMAIN rows /\ rows[t] \in Row /\ t \in 1 .. created
  BY DEF updateTicket, TableOK
<1>3. Listed(t)
  BY <1>2 DEF updateTicket, Listed, Row
<1> DEFINE row == [rows[t] EXCEPT !.status = status]
<1>4. /\ row \in Row /\ row.owner = rows[t].owner /\ row.phone = rows[t].phone /\ row.seq = rows[t].seq
      /\ row.status \in {"open", "done"}
  BY <1>2 DEF Row, Status
<1>5. Hold(d, t, row) /\ GoTo(d, "save")
  BY DEF updateTicket
<1> HIDE DEF row
<1>6. Put(d, t, row, "save") /\ Others(d) /\ HeldTyped
  BY <1>1, <1>2, <1>4, <1>5, PutFacts DEF Places
<1> QED
  BY <1>1, <1>2, <1>3, <1>4, <1>6 DEF EditEffect, SameOwner, Places

\* A request loads a ticket that the dashboard has shown.
LEMMA DeleteHasEffect ==
    ASSUME TableOK, QueuesOK, PlacesOK, HeldOK, CountersOK, NEW d \in Requests, NEW t \in Ids,
        deleteTicket(d, t)
    PROVE  \E row \in Row, place \in Places : t \in DOMAIN rows /\ EditEffect(d, t, row, place)
<1>1. d \in Workers /\ ~Holds(d) /\ Table
  BY WorkerFacts DEF deleteTicket, Holds, TableUnchanged, Table
<1>2. t \in DOMAIN rows /\ rows[t] \in Row /\ t \in 1 .. created
  BY DEF deleteTicket, TableOK
<1>3. Listed(t)
  BY <1>2 DEF deleteTicket, Listed, Row
<1> DEFINE row == rows[t]
<1>4. /\ row \in Row /\ row.owner = rows[t].owner /\ row.phone = rows[t].phone /\ row.seq = rows[t].seq
      /\ TRUE
  BY <1>2 DEF Row, Status
<1>5. Hold(d, t, row) /\ GoTo(d, "remove")
  BY DEF deleteTicket
<1> HIDE DEF row
<1>6. Put(d, t, row, "remove") /\ Others(d) /\ HeldTyped
  BY <1>1, <1>2, <1>4, <1>5, PutFacts DEF Places
<1> QED
  BY <1>1, <1>2, <1>3, <1>4, <1>6 DEF EditEffect, SameOwner, Places

\* A poll saves the row it holds.
LEMMA SaveHasEffect ==
    ASSUME TableOK, QueuesOK, PlacesOK, HeldOK, CountersOK, NEW w \in Polls, SaveTicket(w)
    PROVE  SaveEffect(w)
<1>1. w \in Workers /\ at[w] = "save" /\ Holds(w)
  BY WorkerFacts DEF SaveTicket, Holds
<1>2. held[w].id \in 1 .. created /\ held[w].row \in Row /\ created' = created
  BY <1>1, HeldFacts DEF SaveTicket
<1>3. held' = [held EXCEPT ![w] = NoRow]
  BY DEF SaveTicket, Release
<1>4. held'[w] = NoRow /\ (\A v \in Workers : v # w => held'[v] = held[v]) /\ HeldTyped
  BY <1>1, <1>2, <1>3 DEF HeldOK, HeldTyped
<1>5. at'[w] \in {"idle", "next"} /\ (w \in Requests => at'[w] = "idle") /\ \A v \in Workers : v # w
          => at'[v] = at[v]
  <2>1. NextMessage(w) \/ Abort(w)
    BY DEF SaveTicket
  <2> QED
    BY <1>1, <2>1, NextMessageFacts, AbortFacts, WorkerFacts
<1>6. /\ DOMAIN rows' = DOMAIN rows \cup {held[w].id} /\ rows'[held[w].id] = held[w].row
      /\ \A t \in DOMAIN rows : t # held[w].id => rows'[t] = rows[t]
  BY DEF SaveTicket, saveRow
<1>7. \A ph \in Phones : listed'[ph] = IF held[w].row.status = "open" /\ ph = held[w].row.phone
                        THEN listed[ph] \cup {held[w].id} ELSE listed[ph]
  BY DEF SaveTicket, saveRow, TableOK
<1>8. listed' \in [Phones -> SUBSET (1 .. created)]
  BY <1>2 DEF SaveTicket, saveRow, TableOK
<1> QED
  BY <1>1, <1>2, <1>4, <1>5, <1>6, <1>7, <1>8 DEF SaveEffect, Drop, Others

\* A request saves the row it holds.
LEMMA SaveUpdateHasEffect ==
    ASSUME TableOK, QueuesOK, PlacesOK, HeldOK, CountersOK, NEW w \in Requests, SaveUpdate(w)
    PROVE  SaveEffect(w)
<1>1. w \in Workers /\ at[w] = "save" /\ Holds(w)
  BY WorkerFacts DEF SaveUpdate, Holds
<1>2. held[w].id \in 1 .. created /\ held[w].row \in Row /\ created' = created
  BY <1>1, HeldFacts DEF SaveUpdate
<1>3. held' = [held EXCEPT ![w] = NoRow]
  BY DEF SaveUpdate, Release
<1>4. held'[w] = NoRow /\ (\A v \in Workers : v # w => held'[v] = held[v]) /\ HeldTyped
  BY <1>1, <1>2, <1>3 DEF HeldOK, HeldTyped
<1>5. at'[w] \in {"idle", "next"} /\ (w \in Requests => at'[w] = "idle") /\ \A v \in Workers : v # w
          => at'[v] = at[v]
  BY <1>1 DEF SaveUpdate, GoTo, PlacesOK
<1>6. /\ DOMAIN rows' = DOMAIN rows \cup {held[w].id} /\ rows'[held[w].id] = held[w].row
      /\ \A t \in DOMAIN rows : t # held[w].id => rows'[t] = rows[t]
  BY DEF SaveUpdate, saveRow
<1>7. \A ph \in Phones : listed'[ph] = IF held[w].row.status = "open" /\ ph = held[w].row.phone
                        THEN listed[ph] \cup {held[w].id} ELSE listed[ph]
  BY DEF SaveUpdate, saveRow, TableOK
<1>8. listed' \in [Phones -> SUBSET (1 .. created)]
  BY <1>2 DEF SaveUpdate, saveRow, TableOK
<1> QED
  BY <1>1, <1>2, <1>4, <1>5, <1>6, <1>7, <1>8 DEF SaveEffect, Drop, Others

\* A request removes the row it holds.
LEMMA RemoveHasEffect ==
    ASSUME TableOK, QueuesOK, PlacesOK, HeldOK, CountersOK, NEW d \in Requests, RemoveTicket(d)
    PROVE  RemoveEffect(d)
<1>1. d \in Workers /\ at[d] = "remove"
  BY WorkerFacts DEF RemoveTicket
<1>2. held' = [held EXCEPT ![d] = NoRow] /\ at' = [at EXCEPT ![d] = "idle"]
          /\ UNCHANGED <<created, listed>>
  BY DEF RemoveTicket, Release, GoTo
<1>3. Drop(d) /\ Others(d) /\ HeldTyped
  BY <1>1, <1>2 DEF Drop, Others, HeldTyped, HeldOK, PlacesOK
<1>4. DOMAIN rows' = DOMAIN rows \ {held[d].id} /\ \A t \in DOMAIN rows' : rows'[t] = rows[t]
  BY DEF RemoveTicket
<1> QED
  BY <1>1, <1>2, <1>3, <1>4 DEF RemoveEffect

\* Every step has one of these effects.
LEMMA StepHasEffect ==
    ASSUME TableOK, QueuesOK, PlacesOK, HeldOK, CountersOK, [Next]_vars
    PROVE  Effect
<1>1. ASSUME UNCHANGED vars PROVE QuietEffect
  BY <1>1 DEF vars, QuietEffect, Table, KeepOrDrop, HeldTyped, HeldOK
<1>2. \/ \E m \in Messages : Send(m)
      \/ Crash
      \/ \E p \in Polls : Receive(p) \/ handleFreeText(p) \/ CompleteOnly(p) \/ Throw(p) \/ NoAccount(p)
      \/ \E p \in Polls : createPending(p) \/ FindPending(p) \/ NumberPending(p) \/ FindOpen(p)
             \/ SaveTicket(p)
      \/ \E d \in Requests, t \in Ids, status \in {"open", "done"} : updateTicket(d, t, status)
      \/ \E d \in Requests, t \in Ids : deleteTicket(d, t)
      \/ \E d \in Requests : SaveUpdate(d) \/ RemoveTicket(d)
      \/ UNCHANGED vars
  BY Zenon DEF Next
<1>3. QuietEffect => Effect
  BY DEF Effect
<1>4. ASSUME NEW p \in Polls,
             createPending(p) \/ FindPending(p) \/ NumberPending(p) \/ FindOpen(p) \/ SaveTicket(p)
      PROVE  Effect
  BY <1>4, CreateHasEffect, FindPendingHasEffect, NumberHasEffect, FindOpenHasEffect, SaveHasEffect,
     WorkerFacts DEF Effect
<1>5. ASSUME NEW d \in Requests, NEW t \in Ids, NEW status \in {"open", "done"},
          updateTicket(d, t, status)
      PROVE  Effect
  BY <1>5, UpdateHasEffect DEF Effect
<1>6. ASSUME NEW d \in Requests, NEW t \in Ids, deleteTicket(d, t) PROVE Effect
  BY <1>6, DeleteHasEffect DEF Effect
<1>7. ASSUME NEW d \in Requests, SaveUpdate(d) \/ RemoveTicket(d) PROVE Effect
  BY <1>7, SaveUpdateHasEffect, RemoveHasEffect, WorkerFacts DEF Effect
<1> QED
  BY <1>1, <1>2, <1>3, <1>4, <1>5, <1>6, <1>7, SendQuiet, CrashQuiet, ReceiveQuiet, FreeQuiet,
     OnlyQuiet,
     ThrowQuiet, NoAccountQuiet

-----------------------------------------------------------------------------
(* The invariant, part by part                                             *)

\* The table and the tickets shown keep their types.
LEMMA TableTyped ==
    ASSUME TableOK, QueuesOK, PlacesOK, HeldOK, Effect
    PROVE  TableOK'
<1> USE DEF TableOK
<1>1. ASSUME QuietEffect PROVE TableOK'
  BY <1>1 DEF QuietEffect, KeepOrDrop, Drop, Table
<1>2. ASSUME NEW p \in Polls, NEW row \in Row, CreateEffect(p, row) PROVE TableOK'
  <2>1. created' \in Nat /\ 1 .. created \subseteq 1 .. created' /\ created + 1 \in 1 .. created'
    BY <1>2 DEF CreateEffect
  <2>2. \A t \in DOMAIN rows' : rows'[t] \in Row
    BY <1>2 DEF CreateEffect
  <2> QED
    BY <1>2, <2>1, <2>2 DEF CreateEffect
<1>3. ASSUME NEW p \in Polls, NEW t \in DOMAIN rows, NEW row \in Row,
             NEW place \in Places, AskEffect(p, t, row, place)
      PROVE  TableOK'
  BY <1>3 DEF AskEffect, Put, Others, Table, SameOwner
<1>4. ASSUME NEW p \in Polls, NEW row \in Row, NumberEffect(p, row) PROVE TableOK'
  BY <1>4 DEF NumberEffect, Put, Others, Table
<1>5. ASSUME NEW p \in Polls, NEW t \in DOMAIN rows, NEW row \in Row, FinishEffect(p, t, row)
      PROVE  TableOK'
  BY <1>5 DEF FinishEffect, Put, Others, Table, SameOwner
<1>6. ASSUME NEW d \in Requests, NEW t \in DOMAIN rows, NEW row \in Row,
             NEW place \in Places, EditEffect(d, t, row, place)
      PROVE  TableOK'
  BY <1>6 DEF EditEffect, Put, Others, Table, SameOwner
<1>7. ASSUME NEW w \in Workers, SaveEffect(w) PROVE TableOK'
  <2>1. held[w].id \in 1 .. created /\ held[w].row \in Row
    BY <1>7, HeldFacts DEF SaveEffect, Holds
  <2>2. DOMAIN rows' \subseteq 1 .. created /\ \A t \in DOMAIN rows' : rows'[t] \in Row
    BY <1>7, <2>1 DEF SaveEffect
  <2> QED
    BY <1>7, <2>2 DEF SaveEffect
<1>8. ASSUME NEW d \in Requests, RemoveEffect(d) PROVE TableOK'
  BY <1>8 DEF RemoveEffect, Drop, Others
<1> QED
  BY <1>1, <1>2, <1>3, <1>4, <1>5, <1>6, <1>7, <1>8 DEF Effect

LEMMA NotNoRow == \A t \in 1 .. created : \A row : [id |-> t, row |-> row] # NoRow
BY DEF NoRow

\* What is held is a row of the table.
LEMMA HeldKept ==
    ASSUME TableOK, QueuesOK, PlacesOK, HeldOK, PlacesOK', Effect
    PROVE  HeldOK'
<1> USE WorkerFacts DEF HeldOK, PlacesOK, HeldTyped
<1>1. ASSUME QuietEffect PROVE HeldOK'
  BY <1>1 DEF QuietEffect, KeepOrDrop, Drop, Table
<1>2. ASSUME NEW p \in Polls, NEW row \in Row, CreateEffect(p, row) PROVE HeldOK'
  BY <1>2 DEF CreateEffect, KeepOrDrop, Drop
<1>3. ASSUME NEW p \in Polls, NEW t \in DOMAIN rows, NEW row \in Row,
             NEW place \in Places, AskEffect(p, t, row, place)
      PROVE  HeldOK'
  <2>1. held'[p] # NoRow /\ at'[p] \notin {"idle", "next"}
    BY <1>3, NotNoRow DEF AskEffect, Put, TableOK
  <2> QED
    BY <1>3, <2>1 DEF AskEffect, Others
<1>4. ASSUME NEW p \in Polls, NEW row \in Row, NumberEffect(p, row) PROVE HeldOK'
  <2>1. held[p].id \in 1 .. created
    BY <1>4, HeldFacts DEF NumberEffect, Holds
  <2>2. held'[p] # NoRow /\ at'[p] \notin {"idle", "next"}
    BY <1>4, <2>1, NotNoRow DEF NumberEffect, Put
  <2> QED
    BY <1>4, <2>2 DEF NumberEffect, Others
<1>5. ASSUME NEW p \in Polls, NEW t \in DOMAIN rows, NEW row \in Row, FinishEffect(p, t, row)
      PROVE  HeldOK'
  <2>1. held'[p] # NoRow /\ at'[p] \notin {"idle", "next"}
    BY <1>5, NotNoRow DEF FinishEffect, Put, TableOK
  <2> QED
    BY <1>5, <2>1 DEF FinishEffect, Others
<1>6. ASSUME NEW d \in Requests, NEW t \in DOMAIN rows, NEW row \in Row,
             NEW place \in Places, EditEffect(d, t, row, place)
      PROVE  HeldOK'
  <2>1. held'[d] # NoRow /\ at'[d] \notin {"idle", "next"}
    BY <1>6, NotNoRow DEF EditEffect, Put, TableOK
  <2> QED
    BY <1>6, <2>1 DEF EditEffect, Others
<1>7. ASSUME NEW w \in Workers, SaveEffect(w) PROVE HeldOK'
  BY <1>7 DEF SaveEffect, Drop, Others
<1>8. ASSUME NEW d \in Requests, RemoveEffect(d) PROVE HeldOK'
  BY <1>8 DEF RemoveEffect, Drop, Others
<1> QED
  BY <1>1, <1>2, <1>3, <1>4, <1>5, <1>6, <1>7, <1>8 DEF Effect

\* A row stays with its owner and its phone.
LEMMA KnownKept ==
    ASSUME TableOK, QueuesOK, PlacesOK, HeldOK, Known, Effect
    PROVE  Known'
<1> USE WorkerFacts, HeldFacts DEF Known, Holds
<1>1. ASSUME QuietEffect PROVE Known'
  BY <1>1 DEF QuietEffect, KeepOrDrop, Drop, Table
<1>2. ASSUME NEW p \in Polls, NEW row \in Row, CreateEffect(p, row) PROVE Known'
  <2>1. \A v \in Workers : Holds(v)' => Holds(v) /\ held'[v] = held[v] /\ at'[v] = at[v]
    BY <1>2 DEF CreateEffect, KeepOrDrop, Drop
  <2>2. \A v \in Workers : Holds(v) => held[v].id # created + 1
    BY DEF TableOK
  <2>3. \A v \in Polls : at'[v] # "remove"
    BY <1>2 DEF CreateEffect, KeepOrDrop, Drop
  <2>4. \A v \in Requests : at'[v] \in {"idle", "save", "remove"}
    BY <1>2 DEF CreateEffect, KeepOrDrop, Drop
  <2>5. \A v \in Workers : Holds(v) /\ held[v].id \in DOMAIN rows'
            => held[v].id \in DOMAIN rows /\ rows'[held[v].id] = rows[held[v].id]
    BY <1>2, <2>2 DEF CreateEffect
  <2> QED
    BY <2>1, <2>3, <2>4, <2>5
<1>3. ASSUME NEW p \in Polls, NEW t \in DOMAIN rows, NEW row \in Row,
             NEW place \in Places, AskEffect(p, t, row, place)
      PROVE  Known'
  BY <1>3 DEF AskEffect, Put, Others, Table, SameOwner
<1>4. ASSUME NEW p \in Polls, NEW row \in Row, NumberEffect(p, row) PROVE Known'
  BY <1>4 DEF NumberEffect, Put, Others, Table
<1>5. ASSUME NEW p \in Polls, NEW t \in DOMAIN rows, NEW row \in Row, FinishEffect(p, t, row)
      PROVE  Known'
  BY <1>5 DEF FinishEffect, Put, Others, Table, SameOwner
<1>6. ASSUME NEW d \in Requests, NEW t \in DOMAIN rows, NEW row \in Row,
             NEW place \in Places, EditEffect(d, t, row, place)
      PROVE  Known'
  BY <1>6 DEF EditEffect, Put, Others, Table, SameOwner
<1>7. ASSUME NEW w \in Workers, SaveEffect(w) PROVE Known'
  BY <1>7 DEF SaveEffect, Drop, Others
<1>8. ASSUME NEW d \in Requests, RemoveEffect(d) PROVE Known'
  BY <1>8 DEF RemoveEffect, Drop, Others
<1> QED
  BY <1>1, <1>2, <1>3, <1>4, <1>5, <1>6, <1>7, <1>8 DEF Effect

\* A ticket that was ever open stays one that was.
LEMMA ShownKept ==
    ASSUME TableOK, QueuesOK, PlacesOK, HeldOK, Known, Shown, Effect
    PROVE  Shown'
<1> USE WorkerFacts, HeldFacts
<1>1. ASSUME QuietEffect PROVE Shown'
  BY <1>1 DEF QuietEffect, KeepOrDrop, Drop, Table, Shown, Known, Holds, Listed
<1>2. ASSUME NEW p \in Polls, NEW row \in Row, CreateEffect(p, row) PROVE Shown'
  <2>1. \A v \in Workers : Holds(v)' => Holds(v) /\ held'[v] = held[v] /\ at'[v] = at[v]
    BY <1>2 DEF CreateEffect, KeepOrDrop, Drop, Holds
  <2>2. (\A t : Listed(t)' <=> Listed(t)) /\ created \in Nat /\ created' = created + 1
    BY <1>2 DEF CreateEffect, Listed, TableOK
  <2>3. \A t : Listed(t) => t \in 1 .. created
    BY DEF Listed, TableOK
  <2>4. \A t \in DOMAIN rows' : Listed(t)' => rows'[t].status # "pending_confirm"
    BY <1>2, <2>2, <2>3 DEF CreateEffect, Shown
  <2>5. \A t \in 1 .. created' : t \in DOMAIN rows' \/ Listed(t)'
    BY <1>2, <2>2 DEF CreateEffect, Shown
  <2>6. \A v \in Requests : Holds(v)' => (Listed(held[v].id))'
    BY <2>1, <2>2 DEF Shown
  <2>7. \A v \in Workers : at'[v] = "save" => held'[v].row.status # "pending_confirm"
    BY <2>1 DEF Shown, Holds
  <2> QED
    BY <2>4, <2>5, <2>6, <2>7 DEF Shown
<1>3. ASSUME NEW p \in Polls, NEW t \in DOMAIN rows, NEW row \in Row,
             NEW place \in Places, AskEffect(p, t, row, place)
      PROVE  Shown'
  BY <1>3 DEF AskEffect, Put, Others, Table, SameOwner, Shown, Known, Holds, Listed
<1>4. ASSUME NEW p \in Polls, NEW row \in Row, NumberEffect(p, row) PROVE Shown'
  BY <1>4 DEF NumberEffect, Put, Others, Table, Shown, Known, Holds, Listed
<1>5. ASSUME NEW p \in Polls, NEW t \in DOMAIN rows, NEW row \in Row, FinishEffect(p, t, row)
      PROVE  Shown'
  BY <1>5 DEF FinishEffect, Put, Others, Table, SameOwner, Shown, Known, Holds, Listed
<1>6. ASSUME NEW d \in Requests, NEW t \in DOMAIN rows, NEW row \in Row,
             NEW place \in Places, EditEffect(d, t, row, place)
      PROVE  Shown'
  BY <1>6 DEF EditEffect, Put, Others, Table, SameOwner, Shown, Known, Holds, Listed
<1>7. ASSUME NEW w \in Workers, SaveEffect(w) PROVE Shown'
  <2>1. /\ \A v \in Workers : Holds(v)' => v # w /\ Holds(v) /\ held'[v] = held[v] /\ at'[v] = at[v]
        /\ Holds(w) /\ at[w] = "save" /\ held[w].row \in Row /\ held[w].id \in 1 .. created
    BY <1>7, HeldFacts DEF SaveEffect, Drop, Others, Holds
  <2>2. \A t : Listed(t)' <=> Listed(t) \/ (t = held[w].id /\ held[w].row.status = "open")
    <3>1. held[w].row.phone \in Phones
      BY <2>1 DEF Row
    <3> QED
      BY <1>7, <3>1 DEF SaveEffect, Listed
  <2>4. \A t \in DOMAIN rows' : Listed(t)' => rows'[t].status # "pending_confirm"
    BY <1>7, <2>1, <2>2 DEF SaveEffect, Shown
  <2>5. \A t \in 1 .. created' : t \in DOMAIN rows' \/ Listed(t)'
    BY <1>7, <2>2 DEF SaveEffect, Shown
  <2>6. \A v \in Requests : Holds(v)' => (Listed(held[v].id))'
    BY <2>1, <2>2 DEF Shown
  <2>7. \A v \in Workers : at'[v] = "save" => held'[v].row.status # "pending_confirm"
    BY <2>1 DEF Shown, Holds
  <2> QED
    BY <2>4, <2>5, <2>6, <2>7 DEF Shown
<1>8. ASSUME NEW d \in Requests, RemoveEffect(d) PROVE Shown'
  BY <1>8 DEF RemoveEffect, Drop, Others, Shown, Known, Holds, Listed
<1> QED
  BY <1>1, <1>2, <1>3, <1>4, <1>5, <1>6, <1>7, <1>8 DEF Effect

\* What a poll settles is the oldest of its phone.
LEMMA OldestKept ==
    ASSUME TableOK, QueuesOK, PlacesOK, HeldOK, Known, Shown, OldestHeld, Effect
    PROVE  OldestHeld'
<1> USE WorkerFacts, HeldFacts
<1>1. ASSUME QuietEffect PROVE OldestHeld'
  BY <1>1 DEF QuietEffect, KeepOrDrop, Drop, Table, OldestHeld, Known, Shown, Holds, Listed,
       Pending
<1>2. ASSUME NEW p \in Polls, NEW row \in Row, CreateEffect(p, row) PROVE OldestHeld'
  <2>1. \A v \in Workers : Holds(v)' => Holds(v) /\ held'[v] = held[v] /\ at'[v] = at[v]
    BY <1>2 DEF CreateEffect, KeepOrDrop, Drop, Holds
  <2>2. (\A t : Listed(t)' <=> Listed(t)) /\ created \in Nat /\ created' = created + 1
    BY <1>2 DEF CreateEffect, Listed, TableOK
  <2>3. \A t : Listed(t) => t \in 1 .. created
    BY DEF Listed, TableOK
  <2>4. \A v \in Workers : Holds(v) => held[v].id \in Nat /\ held[v].id <= created
    BY <2>2
  <2>5. ASSUME NEW ph \in Phones, NEW x \in (Pending(ph))' PROVE x \in Pending(ph) \/ x = created + 1
    BY <1>2 DEF CreateEffect, Pending
  <2>6. ASSUME NEW ph \in Phones, NEW x \in (Pending(ph))', x \in 1 .. created PROVE x \in Pending(ph)
    <3>1. x # created + 1
      BY <2>2, <2>6
    <3> QED
      BY <2>5, <3>1
  <2>7. \A v \in Polls : Holds(v) => held[v].row.phone \in Phones /\ held[v].id \in 1 .. created
    BY DEF Row
  <2> QED
    BY <2>1, <2>2, <2>4, <2>5, <2>6, <2>7 DEF OldestHeld
<1>3. ASSUME NEW p \in Polls, NEW t \in DOMAIN rows, NEW row \in Row,
             NEW place \in Places, AskEffect(p, t, row, place)
      PROVE  OldestHeld'
  BY <1>3 DEF AskEffect, Put, Others, Table, SameOwner, OldestHeld, Known, Shown, Holds,
       Listed, Pending
<1>4. ASSUME NEW p \in Polls, NEW row \in Row, NumberEffect(p, row) PROVE OldestHeld'
  BY <1>4 DEF NumberEffect, Put, Others, Table, OldestHeld, Known, Shown, Holds, Listed,
       Pending
<1>5. ASSUME NEW p \in Polls, NEW t \in DOMAIN rows, NEW row \in Row, FinishEffect(p, t, row)
      PROVE  OldestHeld'
  BY <1>5 DEF FinishEffect, Put, Others, Table, SameOwner, OldestHeld, Known, Shown, Holds,
       Listed, Pending
<1>6. ASSUME NEW d \in Requests, NEW t \in DOMAIN rows, NEW row \in Row,
             NEW place \in Places, EditEffect(d, t, row, place)
      PROVE  OldestHeld'
  BY <1>6 DEF EditEffect, Put, Others, Table, SameOwner, OldestHeld, Known, Shown, Holds,
       Listed, Pending
<1>7. ASSUME NEW w \in Workers, SaveEffect(w) PROVE OldestHeld'
  BY <1>7 DEF SaveEffect, Drop, Others, OldestHeld, Known, Shown, Holds, Listed, Pending
<1>8. ASSUME NEW d \in Requests, RemoveEffect(d) PROVE OldestHeld'
  BY <1>8 DEF RemoveEffect, Drop, Others, OldestHeld, Known, Shown, Holds, Listed, Pending
<1> QED
  BY <1>1, <1>2, <1>3, <1>4, <1>5, <1>6, <1>7, <1>8 DEF Effect

\* With one poll at a time, nobody else settles the ticket it holds.
LEMMA SettlingKept ==
    ASSUME \A p, q \in Polls :
        p = q, TableOK, QueuesOK, PlacesOK, HeldOK, Known, Shown, Settling, Effect
    PROVE  Settling'
<1> USE WorkerFacts, HeldFacts
<1>1. ASSUME QuietEffect PROVE Settling'
  BY <1>1 DEF QuietEffect, KeepOrDrop, Drop, Table, Settling, Known, Shown, Holds, Listed,
       Pending
<1>2. ASSUME NEW p \in Polls, NEW row \in Row, CreateEffect(p, row) PROVE Settling'
  <2>1. \A v \in Workers : Holds(v)' => Holds(v) /\ held'[v] = held[v] /\ at'[v] = at[v]
    BY <1>2 DEF CreateEffect, KeepOrDrop, Drop, Holds
  <2>2. (\A t : Listed(t)' <=> Listed(t)) /\ created \in Nat /\ created' = created + 1
    BY <1>2 DEF CreateEffect, Listed, TableOK
  <2>3. \A t : Listed(t) => t \in 1 .. created
    BY DEF Listed, TableOK
  <2>4. \A t \in DOMAIN rows' : Listed(t)' <=> rows'[t].status \in {"open", "done"}
    BY <1>2, <2>2, <2>3 DEF CreateEffect, Settling
  <2>5. ASSUME NEW v \in Polls, Holds(v)'
        PROVE  Listed(held[v].id) \/ rows'[held[v].id] = rows[held[v].id]
    BY <1>2, <2>1, <2>5 DEF CreateEffect, Shown
  <2>6. ASSUME NEW v \in Polls, Holds(v)'
        PROVE  IF (Listed(held[v].id))'
               THEN at'[v] = "save" /\ held'[v].row.status = "done"
               ELSE /\ rows'[held'[v].id].status = "pending_confirm"
                    /\ at'[v] = "save" => held'[v].row.status \in {"open", "cancelled"}
    <3>1. Holds(v) /\ held'[v] = held[v] /\ at'[v] = at[v]
              /\ ((Listed(held[v].id))' <=> Listed(held[v].id))
      BY <2>1, <2>2, <2>6
    <3>2. Listed(held[v].id) \/ rows'[held[v].id] = rows[held[v].id]
      BY <2>5, <2>6
    <3> QED
      BY <3>1, <3>2 DEF Settling
  <2>7. \A v \in Requests : at'[v] = "save" => held'[v].row.status \in {"open", "done"}
    BY <2>1 DEF Settling, Holds
  <2> QED
    BY <2>4, <2>6, <2>7 DEF Settling
<1>3. ASSUME NEW p \in Polls, NEW t \in DOMAIN rows, NEW row \in Row,
             NEW place \in Places, AskEffect(p, t, row, place)
      PROVE  Settling'
  BY <1>3 DEF AskEffect, Put, Others, Table, SameOwner, Settling, Known, Shown, Holds,
       Listed, Pending
<1>4. ASSUME NEW p \in Polls, NEW row \in Row, NumberEffect(p, row) PROVE Settling'
  BY <1>4 DEF NumberEffect, Put, Others, Table, Settling, Known, Shown, Holds, Listed, Pending
<1>5. ASSUME NEW p \in Polls, NEW t \in DOMAIN rows, NEW row \in Row, FinishEffect(p, t, row)
      PROVE  Settling'
  BY <1>5 DEF FinishEffect, Put, Others, Table, SameOwner, Settling, Known, Shown, Holds,
       Listed, Pending
<1>6. ASSUME NEW d \in Requests, NEW t \in DOMAIN rows, NEW row \in Row,
             NEW place \in Places, EditEffect(d, t, row, place)
      PROVE  Settling'
  BY <1>6 DEF EditEffect, Put, Others, Table, SameOwner, Settling, Known, Shown, Holds,
       Listed, Pending
<1>7. ASSUME NEW w \in Workers, SaveEffect(w) PROVE Settling'
  <2>1. /\ \A v \in Workers : Holds(v)' => v # w /\ Holds(v) /\ held'[v] = held[v] /\ at'[v] = at[v]
        /\ Holds(w) /\ at[w] = "save" /\ held[w].row \in Row /\ held[w].id \in 1 .. created
    BY <1>7, HeldFacts DEF SaveEffect, Drop, Others, Holds
  <2>2. \A t : Listed(t)' <=> Listed(t) \/ (t = held[w].id /\ held[w].row.status = "open")
    <3>1. held[w].row.phone \in Phones
      BY <2>1 DEF Row
    <3> QED
      BY <1>7, <3>1 DEF SaveEffect, Listed
  <2>3. /\ w \in Polls /\ Listed(held[w].id) => held[w].row.status = "done"
        /\ w \in Polls /\ ~Listed(held[w].id) => held[w].row.status \in {"open", "cancelled"}
        /\ w \in Requests => Listed(held[w].id) /\ held[w].row.status \in {"open", "done"}
    BY <1>7, <2>1 DEF Settling, Shown
  <2>4. \A t \in DOMAIN rows' : Listed(t)' <=> rows'[t].status \in {"open", "done"}
    BY <1>7, <2>1, <2>2, <2>3 DEF SaveEffect, Settling
  <2>5. ASSUME NEW v \in Polls, Holds(v)'
        PROVE  IF (Listed(held[v].id))'
               THEN at'[v] = "save" /\ held'[v].row.status = "done"
               ELSE /\ rows'[held'[v].id].status = "pending_confirm"
                    /\ at'[v] = "save" => held'[v].row.status \in {"open", "cancelled"}
    <3>1. v # w /\ Holds(v) /\ held'[v] = held[v] /\ at'[v] = at[v] /\ w \in Requests
      BY <2>1, <2>5
    <3>2. \/ Listed(held[v].id)
          \/ held[v].id # held[w].id /\ held[v].id \in DOMAIN rows
                 /\ rows'[held[v].id] = rows[held[v].id]
      BY <1>7, <2>3, <3>1 DEF SaveEffect, Shown
    <3>3. (Listed(held[v].id))' <=> Listed(held[v].id)
      BY <2>2, <2>3, <3>1, <3>2
    <3> QED
      BY <3>1, <3>2, <3>3 DEF Settling
  <2>6. \A v \in Requests : at'[v] = "save" => held'[v].row.status \in {"open", "done"}
    BY <2>1 DEF Settling, Holds
  <2> QED
    BY <2>4, <2>5, <2>6 DEF Settling
<1>8. ASSUME NEW d \in Requests, RemoveEffect(d) PROVE Settling'
  BY <1>8 DEF RemoveEffect, Drop, Others, Settling, Known, Shown, Holds, Listed, Pending
<1> QED
  BY <1>1, <1>2, <1>3, <1>4, <1>5, <1>6, <1>7, <1>8 DEF Effect

\* What a worker is about to save fits the table.
Fits(v) ==
    /\ held[v].row.seq = 0 <=> held[v].row.status = "cancelled"
    /\ held[v].row.seq # 0 =>
          \A x \in DOMAIN rows : x # held[v].id /\ rows[x].owner = held[v].row.owner =>
              rows[x].seq # held[v].row.seq
    /\ held[v].id \in DOMAIN rows /\ Listed(held[v].id) => rows[held[v].id].seq = held[v].row.seq

LEMMA NumberedParts ==
    Numbered <=> /\ \A t \in DOMAIN rows : rows[t].seq = 0 <=> ~Listed(t)
                 /\ \A t, x \in DOMAIN rows :
                       rows[t].owner = rows[x].owner /\ rows[t].seq = rows[x].seq
                           => t = x \/ rows[t].seq = 0
                 /\ \A w \in Workers : at[w] = "save" => Fits(w)
                 /\ \A d \in Requests : Holds(d) => held[d].id \in DOMAIN rows
BY Zenon DEF Numbered, Fits

LEMMA NextNumberedParts ==
    Numbered' <=> /\ \A t \in DOMAIN rows' : rows'[t].seq = 0 <=> ~(Listed(t))'
                  /\ \A t, x \in DOMAIN rows' :
                        rows'[t].owner = rows'[x].owner /\ rows'[t].seq = rows'[x].seq
                            => t = x \/ rows'[t].seq = 0
                  /\ \A w \in Workers : at'[w] = "save" => (Fits(w))'
                  /\ \A d \in Requests : (Holds(d))' => held'[d].id \in DOMAIN rows'
BY DEF Numbered, Fits

\* With one request at a time as well, a number stays with its ticket.
LEMMA NumberedKept ==
    ASSUME \A p, q \in Polls : p = q, \A d, e \in Requests :
        d = e, TableOK, QueuesOK, PlacesOK, HeldOK, Known, Shown,
           Settling, Numbered, Effect
    PROVE  Numbered'
<1>1. ASSUME QuietEffect PROVE Numbered'
  BY <1>1, WorkerFacts, HeldFacts DEF QuietEffect, KeepOrDrop, Drop, Table, Settling, Known,
       Shown, Numbered, Holds, Listed, Pending
<1>2. ASSUME NEW p \in Polls, NEW row \in Row, CreateEffect(p, row) PROVE Numbered'
  <2>1. \A v \in Workers : Holds(v)' => Holds(v) /\ held'[v] = held[v] /\ at'[v] = at[v]
    BY <1>2 DEF CreateEffect, KeepOrDrop, Drop, Holds
  <2>2. (\A t : Listed(t)' <=> Listed(t)) /\ created \in Nat /\ created' = created + 1
    BY <1>2 DEF CreateEffect, Listed, TableOK
  <2>3. \A t : Listed(t) => t \in 1 .. created
    BY DEF Listed, TableOK
  <2>4. \A t \in DOMAIN rows' : rows'[t].seq = 0 <=> ~(Listed(t))'
    BY <1>2, <2>2, <2>3, NumberedParts DEF CreateEffect
  <2>5. \A t, x \in DOMAIN rows' :
            rows'[t].owner = rows'[x].owner /\ rows'[t].seq = rows'[x].seq => t = x \/ rows'[t].seq = 0
    BY <1>2, NumberedParts DEF CreateEffect
  <2>6. ASSUME NEW v \in Workers, at'[v] = "save" PROVE (Fits(v))'
    <3>1. at[v] = "save" /\ held'[v] = held[v] /\ Fits(v) /\ held[v].id \in 1 .. created
      BY <2>1, <2>6, HeldFacts, NumberedParts DEF Holds
    <3>2. held[v].id # created + 1
      BY <2>2, <3>1
    <3> QED
      BY <1>2, <2>2, <3>1, <3>2 DEF CreateEffect, Fits
  <2>8. \A d \in Requests : (Holds(d))' => held'[d].id \in DOMAIN rows'
    BY <1>2, <2>1, WorkerFacts, NumberedParts DEF CreateEffect
  <2> QED
    BY <2>4, <2>5, <2>6, <2>8, NextNumberedParts
<1>3. ASSUME NEW p \in Polls, NEW t \in DOMAIN rows, NEW row \in Row,
             NEW place \in Places, AskEffect(p, t, row, place)
      PROVE  Numbered'
  BY <1>3, WorkerFacts, HeldFacts DEF AskEffect, Put, Others, Table, SameOwner, Settling,
       Known, Shown, Numbered, Holds, Listed, Pending
<1>4. ASSUME NEW p \in Polls, NEW row \in Row, NumberEffect(p, row) PROVE Numbered'
  <2>1. \A v \in Workers : v # p => at'[v] = at[v] /\ held'[v] = held[v]
    BY <1>4 DEF NumberEffect, Others
  <2>2. rows' = rows /\ listed' = listed
    BY <1>4 DEF NumberEffect, Table
  <2>3. /\ p \in Workers /\ p \in Polls /\ p \notin Requests /\ ~Listed(held[p].id)
        /\ held'[p] = [id |-> held[p].id, row |-> row] /\ held'[p].id = held[p].id /\ held'[p].row = row
    BY <1>4, WorkerFacts DEF NumberEffect, Settling, Holds, Put
  <2>4. \A t \in DOMAIN rows' : rows'[t].seq = 0 <=> ~(Listed(t))'
    BY <2>2, NumberedParts DEF Listed
  <2>5. \A t, x \in DOMAIN rows' :
            rows'[t].owner = rows'[x].owner /\ rows'[t].seq = rows'[x].seq => t = x \/ rows'[t].seq = 0
    BY <2>2, NumberedParts
  <2>6. ASSUME NEW v \in Workers, at'[v] = "save" PROVE (Fits(v))'
    <3>1. CASE v # p
      BY <2>1, <2>2, <2>6, <3>1, NumberedParts DEF Fits, Listed
    <3>2. CASE v = p
      <4>1. /\ row.seq \in Nat \ {0}
            /\ \A t \in DOMAIN rows : rows[t].seq \in Nat
            /\ \A t \in DOMAIN rows : rows[t].owner = row.owner => rows[t].seq < row.seq
        BY <1>4, NextSeqFacts DEF NumberEffect, TableOK, Row
      <4>2. \A t \in DOMAIN rows : rows[t].owner = row.owner => rows[t].seq # row.seq
        BY <4>1
      <4>3. row.status # "cancelled" /\ row.seq # 0
        BY <1>4, <4>1 DEF NumberEffect
      <4> QED
        BY <2>2, <2>3, <3>2, <4>2, <4>3 DEF Fits, Listed
    <3> QED
      BY <3>1, <3>2
  <2>8. \A d \in Requests : (Holds(d))' => held'[d].id \in DOMAIN rows'
    BY <1>4, <2>1, WorkerFacts, NumberedParts, <2>2, <2>3 DEF Holds
  <2> QED
    BY <2>4, <2>5, <2>6, <2>8, NextNumberedParts
<1>5. ASSUME NEW p \in Polls, NEW t \in DOMAIN rows, NEW row \in Row, FinishEffect(p, t, row)
      PROVE  Numbered'
  BY <1>5, WorkerFacts, HeldFacts DEF FinishEffect, Put, Others, Table, SameOwner, Settling,
       Known, Shown, Numbered, Holds, Listed, Pending
<1>6. ASSUME NEW d \in Requests, NEW t \in DOMAIN rows, NEW row \in Row,
             NEW place \in Places, EditEffect(d, t, row, place)
      PROVE  Numbered'
  BY <1>6, WorkerFacts, HeldFacts DEF EditEffect, Put, Others, Table, SameOwner, Settling,
       Known, Shown, Numbered, Holds, Listed, Pending
<1>7. ASSUME NEW w \in Workers, SaveEffect(w) PROVE Numbered'
  <2>1. /\ \A v \in Workers : Holds(v)' => v # w /\ Holds(v) /\ held'[v] = held[v] /\ at'[v] = at[v]
        /\ Holds(w) /\ at[w] = "save" /\ held[w].row \in Row /\ held[w].id \in 1 .. created
    BY <1>7, HeldFacts DEF SaveEffect, Drop, Others, Holds
  <2>2. \A t : Listed(t)' <=> Listed(t) \/ (t = held[w].id /\ held[w].row.status = "open")
    <3>1. held[w].row.phone \in Phones
      BY <2>1 DEF Row
    <3> QED
      BY <1>7, <3>1 DEF SaveEffect, Listed
  <2>3. /\ w \in Polls /\ Listed(held[w].id) => held[w].row.status = "done"
        /\ w \in Polls /\ ~Listed(held[w].id) => held[w].row.status \in {"open", "cancelled"}
        /\ w \in Requests => Listed(held[w].id) /\ held[w].row.status \in {"open", "done"}
        /\ w \in Requests => held[w].id \in DOMAIN rows
        /\ Fits(w) /\ rows'[held[w].id] = held[w].row
        /\ \A t \in DOMAIN rows' : t = held[w].id \/ (t \in DOMAIN rows /\ rows'[t] = rows[t])
        /\ w \in Polls \/ w \in Requests
    BY <1>7, <2>1, NumberedParts DEF SaveEffect, Settling, Shown, Workers
  <2>4. \A t \in DOMAIN rows' : rows'[t].seq = 0 <=> ~(Listed(t))'
    BY <2>2, <2>3, NumberedParts DEF Fits
  <2>5. ASSUME NEW t \in DOMAIN rows', NEW x \in DOMAIN rows', rows'[t].owner = rows'[x].owner,
               rows'[t].seq = rows'[x].seq
        PROVE  t = x \/ rows'[t].seq = 0
    BY <2>3, <2>5, NumberedParts DEF Fits
  <2>6. ASSUME NEW v \in Workers, at'[v] = "save" PROVE (Fits(v))'
    <3>1. /\ v # w /\ at[v] = "save" /\ Holds(v) /\ held'[v] = held[v] /\ Fits(v)
          /\ (v \in Requests /\ w \in Polls) \/ (v \in Polls /\ w \in Requests)
      BY <2>1, <2>6, NumberedParts DEF Holds, Workers
    <3>2. v \in Requests => held[v].id \in DOMAIN rows /\ Listed(held[v].id)
      BY <3>1, NumberedParts DEF Shown
    <3>3. held[w].id \in DOMAIN rows => rows[held[w].id].owner = held[w].row.owner
      BY <2>1 DEF Known
    <3>4. held[v].id \in DOMAIN rows => rows[held[v].id].owner = held[v].row.owner
      BY <3>1 DEF Known
    <3>5. held[v].id # held[w].id /\ held[w].row.owner = held[v].row.owner /\ held[v].row.seq # 0
          => held[w].row.seq # held[v].row.seq
      BY <2>3, <3>1, <3>2, <3>3, <3>4 DEF Fits
    <3>6. held[v].id = held[w].id => held[w].row.seq = held[v].row.seq
      BY <2>3, <3>1, <3>2 DEF Fits
    <3>7. held[v].row.seq # 0 =>
              \A x \in DOMAIN rows' : x # held[v].id /\ rows'[x].owner = held[v].row.owner =>
                  rows'[x].seq # held[v].row.seq
      BY <2>3, <3>1, <3>5 DEF Fits
    <3>8. held[v].id \in DOMAIN rows' /\ (Listed(held[v].id))'
              => rows'[held[v].id].seq = held[v].row.seq
      BY <2>2, <2>3, <3>1, <3>6 DEF Fits
    <3> QED
      BY <3>1, <3>7, <3>8 DEF Fits
  <2>8. \A d \in Requests : (Holds(d))' => held'[d].id \in DOMAIN rows'
    BY <1>7, <2>1, WorkerFacts, NumberedParts DEF SaveEffect
  <2> QED
    BY <2>4, <2>5, <2>6, <2>8, NextNumberedParts
<1>8. ASSUME NEW d \in Requests, RemoveEffect(d) PROVE Numbered'
  BY <1>8, WorkerFacts, HeldFacts DEF RemoveEffect, Drop, Others, Settling, Known, Shown,
       Numbered, Holds, Listed, Pending
<1> QED
  BY <1>1, <1>2, <1>3, <1>4, <1>5, <1>6, <1>7, <1>8 DEF Effect

-----------------------------------------------------------------------------
(* The invariant and what follows                                          *)

TicketInv == TypeOK /\ Known /\ Shown /\ OldestHeld

LEMMA InitTyped == Init => TicketInv
<1> SUFFICES ASSUME Init PROVE TicketInv
  OBVIOUS
<1>1. \A w \in Workers : at[w] = "idle" /\ held[w] = NoRow
  BY DEF Init
<1>2. DOMAIN rows = {} /\ created = 0
  BY DEF Init
<1>3. TypeOK
  <2>1. inbox \in Seq(Message) /\ batch \in [Polls -> Seq(Message)]
    BY EmptySeq DEF Init
  <2>2. TableOK
    BY <1>2 DEF TableOK, Init
  <2>3. PlacesOK
    BY WorkerFacts DEF PlacesOK, Init, Places
  <2>4. HeldOK
    BY DEF HeldOK, Init
  <2>5. CountersOK
    BY DEF CountersOK, Init
  <2> QED
    BY <2>1, <2>2, <2>3, <2>4, <2>5, TypeParts DEF QueuesOK
<1>4. \A w \in Workers : ~Holds(w)
  BY <1>1 DEF Holds
<1>5. Known
  BY <1>1, <1>4, WorkerFacts DEF Known
<1>6. Shown
  <2>1. 1 .. created = {}
    BY <1>2
  <2> QED
    BY <1>1, <1>2, <1>4, <2>1, WorkerFacts DEF Shown
<1>7. OldestHeld
  BY <1>4, WorkerFacts DEF OldestHeld
<1> QED
  BY <1>3, <1>5, <1>6, <1>7 DEF TicketInv

LEMMA TypeStep == TypeOK /\ [Next]_vars => TypeOK' /\ Effect
<1> SUFFICES ASSUME TypeOK, [Next]_vars PROVE TypeOK' /\ Effect
  OBVIOUS
<1>1. TableOK /\ QueuesOK /\ PlacesOK /\ HeldOK /\ CountersOK
  BY TypeParts
<1>2. Effect /\ QueuesOK' /\ PlacesOK' /\ CountersOK'
  BY <1>1, StepHasEffect, QueuesTyped, PlacesTyped, CountersTyped
<1>3. TableOK' /\ HeldOK'
  BY <1>1, <1>2, TableTyped, HeldKept
<1> QED
  BY <1>2, <1>3, NextTypeParts

LEMMA InvStep == TicketInv /\ [Next]_vars => TicketInv'
<1> SUFFICES ASSUME TicketInv, [Next]_vars PROVE TicketInv'
  OBVIOUS
<1>1. TableOK /\ QueuesOK /\ PlacesOK /\ HeldOK /\ Known /\ Shown /\ OldestHeld
  BY TypeParts DEF TicketInv
<1>2. TypeOK' /\ Effect
  BY TypeStep DEF TicketInv
<1>3. Known' /\ Shown' /\ OldestHeld'
  BY <1>1, <1>2, KnownKept, ShownKept, OldestKept
<1> QED
  BY <1>2, <1>3 DEF TicketInv

\* In every reachable state the table is what the code left in it, a worker holds a
\* row under its own owner and phone, a ticket that was open never waits again, and a
\* poll that settles a ticket holds the oldest one of its phone.
THEOREM Invariance == Spec => []TicketInv
<1>1. Init => TicketInv
  BY InitTyped
<1>2. TicketInv /\ [Next]_vars => TicketInv'
  BY InvStep
<1> QED
  BY <1>1, <1>2, PTL DEF Spec

\* The tables and the workers have their types, and a worker holds a row exactly
\* between loading and saving it.
THEOREM TypeCorrect == Spec => []TypeOK
<1>1. TicketInv => TypeOK
  BY DEF TicketInv
<1> QED
  BY <1>1, Invariance, PTL

-----------------------------------------------------------------------------
(* Answers settle the oldest question                                      *)

Settles(t) == rows[t].status = "pending_confirm" /\ rows'[t].status # "pending_confirm"

LEMMA OldestStep ==
    TicketInv /\ [Next]_vars =>
        \A t \in DOMAIN rows \cap DOMAIN rows' :
            Settles(t) => \A u \in Pending(rows[t].phone) : t <= u
<1> SUFFICES ASSUME TicketInv, [Next]_vars, NEW t \in DOMAIN rows \cap DOMAIN rows', Settles(t)
             PROVE  \A u \in Pending(rows[t].phone) : t <= u
  OBVIOUS
<1>1. TableOK /\ QueuesOK /\ PlacesOK /\ HeldOK /\ Known /\ Shown /\ OldestHeld
  BY TypeParts DEF TicketInv
<1>2. rows[t] # rows'[t] /\ rows[t].status = "pending_confirm"
  BY DEF Settles
<1>3. PICK w \in Workers : SaveEffect(w)
  <2>1. Effect
    BY TypeStep DEF TicketInv
  <2> QED
    BY <1>2, <2>1, Zenon DEF Effect, QuietEffect, CreateEffect, AskEffect, NumberEffect, FinishEffect,
       EditEffect, RemoveEffect, Table
<1>4. at[w] = "save" /\ Holds(w) /\ held[w].id = t
  BY <1>2, <1>3 DEF SaveEffect, Holds
<1>5. w \in Polls
  <2>1. ~Listed(t)
    BY <1>1, <1>2 DEF Shown
  <2> QED
    BY <1>1, <1>4, <2>1, WorkerFacts DEF Shown
<1>6. held[w].row.phone = rows[t].phone /\ t \in Pending(rows[t].phone)
  BY <1>1, <1>2, <1>4 DEF Known, Pending
<1> QED
  BY <1>1, <1>4, <1>5, <1>6 DEF OldestHeld

\* However polls overlap, fail and start again, and whatever the dashboard does beside
\* them, no ticket leaves pending_confirm before an older one of the same phone.
THEOREM OldestAnswered == Spec => OldestFirst
<1>1. TicketInv /\ [Next]_vars =>
          [\A t \in DOMAIN rows \cap DOMAIN rows' :
              (rows[t].status = "pending_confirm" /\ rows'[t].status # "pending_confirm")
                 => \A u \in Pending(rows[t].phone) : t <= u]_vars
  BY OldestStep DEF Settles
<1> QED
  BY <1>1, Invariance, PTL DEF Spec, OldestFirst

-----------------------------------------------------------------------------
(* One poll at a time: the life of a ticket                                *)

OnePoll == \A p, q \in Polls : p = q
OneRequest == \A d, e \in Requests : d = e

LEMMA SettlingStep ==
    ASSUME OnePoll
    PROVE  /\ Init => Settling
           /\ TicketInv /\ Settling /\ [Next]_vars => Settling'
<1>1. ASSUME Init PROVE Settling
  <2>1. DOMAIN rows = {} /\ \A w \in Workers : at[w] = "idle"
    BY <1>1 DEF Init
  <2> QED
    BY <2>1, WorkerFacts DEF Settling, Holds
<1>2. ASSUME TicketInv, Settling, [Next]_vars PROVE Settling'
  <2>1. TableOK /\ QueuesOK /\ PlacesOK /\ HeldOK /\ Known /\ Shown /\ Effect
    BY <1>2, TypeParts, TypeStep DEF TicketInv
  <2> QED
    BY <1>2, <2>1, SettlingKept DEF OnePoll
<1> QED
  BY <1>1, <1>2

\* What may become of one ticket.
Moves(old, new) ==
    \/ old = new
    \/ old = "none" /\ new = "pending_confirm"
    \/ old = "pending_confirm" /\ new \in {"open", "cancelled"}
    \/ old \in {"open", "done", "deleted"} /\ new \in {"open", "done"}
    \/ old \in {"open", "done"} /\ new = "deleted"

LEMMA OneMoves ==
    ASSUME NEW t \in Nat, Moves(StatusOf(t), StatusOf(t)'),
           \A u \in Ids : u # t => StatusOf(u)' = StatusOf(u)
    PROVE  [Life!Next]_([u \in Ids |-> StatusOf(u)])
<1> DEFINE life == [u \in Ids |-> StatusOf(u)]
<1>1. CASE t \notin Ids \/ StatusOf(t) = StatusOf(t)'
  <2>1. life' = life
    BY <1>1
  <2> QED
    BY <2>1
<1>2. CASE t \in Ids /\ StatusOf(t) # StatusOf(t)'
  <2>1. life' = [life EXCEPT ![t] = StatusOf(t)'] /\ life[t] = StatusOf(t)
    BY <1>2
  <2>2. \/ Life!Create(t) \/ Life!Confirm(t) \/ Life!Cancel(t) \/ Life!Finish(t) \/ Life!Reopen(t)
        \/ Life!Delete(t) \/ Life!PutBack(t)
    BY <1>2, <2>1 DEF Moves, Life!Create, Life!Confirm, Life!Cancel, Life!Finish, Life!Reopen,
       Life!Delete, Life!PutBack, Life!Become
  <2> QED
    BY <1>2, <2>2 DEF Life!Next
<1> QED
  BY <1>1, <1>2

\* Every effect moves at most one ticket, and as its life allows.
LEMMA LifeStep ==
    ASSUME TableOK, QueuesOK, PlacesOK, HeldOK, Known, Shown, Settling, Effect
    PROVE  [Life!Next]_([u \in Ids |-> StatusOf(u)])
<1>1. ASSUME QuietEffect PROVE [Life!Next]_([u \in Ids |-> StatusOf(u)])
  <2>1. \A u : StatusOf(u)' = StatusOf(u)
    BY <1>1 DEF QuietEffect, Table, StatusOf
  <2> QED
    BY <2>1
<1>2. ASSUME NEW p \in Polls, NEW row \in Row, CreateEffect(p, row)
      PROVE  [Life!Next]_([u \in Ids |-> StatusOf(u)])
  <2>1. created \in Nat /\ \A u \in Ids : u \in Nat
    BY TicketAssumption DEF TableOK, Ids
  <2>2. PICK n \in Nat : n = created + 1
    BY <2>1
  <2>3. /\ n \notin DOMAIN rows /\ ~(n <= created) /\ created' = n
        /\ DOMAIN rows' = DOMAIN rows \cup {n} /\ rows'[n].status = "pending_confirm"
        /\ \A u \in DOMAIN rows : rows'[u] = rows[u]
    BY <1>2, <2>1, <2>2 DEF CreateEffect, TableOK
  <2>4. \A u \in Ids : u # n => (u <= created' <=> u <= created)
    BY <2>1, <2>2, <2>3
  <2>5. \A u \in Ids : u # n => StatusOf(u)' = StatusOf(u)
    BY <2>3, <2>4 DEF StatusOf
  <2>6. StatusOf(n) = "none" /\ StatusOf(n)' = "pending_confirm"
    BY <2>3 DEF StatusOf
  <2> QED
    BY <2>5, <2>6, OneMoves DEF Moves
<1>3. ASSUME NEW p \in Polls, NEW t \in DOMAIN rows, NEW row \in Row,
             NEW place \in Places, AskEffect(p, t, row, place)
      PROVE  [Life!Next]_([u \in Ids |-> StatusOf(u)])
  <2>1. \A u : StatusOf(u)' = StatusOf(u)
    BY <1>3 DEF AskEffect, Table, StatusOf
  <2> QED
    BY <2>1
<1>4. ASSUME NEW p \in Polls, NEW row \in Row, NumberEffect(p, row)
      PROVE  [Life!Next]_([u \in Ids |-> StatusOf(u)])
  <2>1. \A u : StatusOf(u)' = StatusOf(u)
    BY <1>4 DEF NumberEffect, Table, StatusOf
  <2> QED
    BY <2>1
<1>5. ASSUME NEW p \in Polls, NEW t \in DOMAIN rows, NEW row \in Row, FinishEffect(p, t, row)
      PROVE  [Life!Next]_([u \in Ids |-> StatusOf(u)])
  <2>1. \A u : StatusOf(u)' = StatusOf(u)
    BY <1>5 DEF FinishEffect, Table, StatusOf
  <2> QED
    BY <2>1
<1>6. ASSUME NEW d \in Requests, NEW t \in DOMAIN rows, NEW row \in Row,
             NEW place \in Places, EditEffect(d, t, row, place)
      PROVE  [Life!Next]_([u \in Ids |-> StatusOf(u)])
  <2>1. \A u : StatusOf(u)' = StatusOf(u)
    BY <1>6 DEF EditEffect, Table, StatusOf
  <2> QED
    BY <2>1
<1>7. ASSUME NEW w \in Workers, SaveEffect(w) PROVE [Life!Next]_([u \in Ids |-> StatusOf(u)])
  <2>1. PICK n \in 1 .. created : n = held[w].id
    BY <1>7, HeldFacts DEF SaveEffect, Holds
  <2>2. n \in Nat /\ n <= created /\ Holds(w) /\ created' = created
    BY <1>7, <2>1 DEF SaveEffect, Holds, TableOK
  <2>3. \A u \in Ids : u # n => StatusOf(u)' = StatusOf(u)
    BY <1>7, <2>1 DEF SaveEffect, StatusOf
  <2>4. StatusOf(n)' = held[w].row.status
    BY <1>7, <2>1 DEF SaveEffect, StatusOf
  <2>5. CASE Listed(n)
    <3>1. StatusOf(n) \in {"open", "done", "deleted"}
      BY <2>2, <2>5 DEF StatusOf, Settling
    <3>2. held[w].row.status \in {"open", "done"}
      BY <1>7, <2>1, <2>2, <2>5 DEF Settling, SaveEffect, Workers
    <3> QED
      BY <2>2, <2>3, <2>4, <3>1, <3>2, OneMoves DEF Moves
  <2>6. CASE ~Listed(n)
    <3>1. n \in DOMAIN rows /\ w \in Polls
      BY <2>1, <2>2, <2>6 DEF Shown, Workers
    <3>2. StatusOf(n) = "pending_confirm" /\ held[w].row.status \in {"open", "cancelled"}
      BY <1>7, <2>1, <2>2, <2>6, <3>1 DEF Settling, SaveEffect, StatusOf
    <3> QED
      BY <2>2, <2>3, <2>4, <3>2, OneMoves DEF Moves
  <2> QED
    BY <2>5, <2>6
<1>8. ASSUME NEW d \in Requests, RemoveEffect(d) PROVE [Life!Next]_([u \in Ids |-> StatusOf(u)])
  <2>1. PICK n \in 1 .. created : n = held[d].id
    BY <1>8, HeldFacts, WorkerFacts DEF RemoveEffect, Holds
  <2>2. n \in Nat /\ n <= created /\ Holds(d) /\ created' = created
    BY <1>8, <2>1 DEF RemoveEffect, Holds, TableOK
  <2>3. \A u \in Ids : u # n => StatusOf(u)' = StatusOf(u)
    BY <1>8, <2>1 DEF RemoveEffect, StatusOf
  <2>4. StatusOf(n)' = "deleted"
    BY <1>8, <2>1, <2>2 DEF RemoveEffect, StatusOf
  <2>5. StatusOf(n) \in {"open", "done", "deleted"}
    BY <2>1, <2>2 DEF StatusOf, Settling, Shown
  <2> QED
    BY <2>2, <2>3, <2>4, <2>5, OneMoves DEF Moves
<1> QED
  BY <1>1, <1>2, <1>3, <1>4, <1>5, <1>6, <1>7, <1>8 DEF Effect

\* While one poll runs at a time, a ticket lives as TicketLifecycle says: it waits, is
\* opened or cancelled once, and is then done, open or deleted, or put back by an update
\* that had loaded it before. Every step moves at most one ticket.
THEOREM LifeRefined == ASSUME OnePoll PROVE Spec => Lifecycle
<1>1. Init => Life!Init
  <2> SUFFICES ASSUME Init PROVE Life!Init
    OBVIOUS
  <2>1. DOMAIN rows = {} /\ created = 0
    BY DEF Init
  <2>2. \A t \in Ids : ~(t <= 0)
    BY TicketAssumption DEF Ids
  <2> QED
    BY <2>1, <2>2 DEF Life!Init, StatusOf
<1>2. Init => Settling
  BY SettlingStep
<1>3. TicketInv /\ Settling /\ [Next]_vars => Settling' /\ [Life!Next]_([t \in Ids |-> StatusOf(t)])
  <2> SUFFICES ASSUME TicketInv, Settling, [Next]_vars
               PROVE  Settling' /\ [Life!Next]_([t \in Ids |-> StatusOf(t)])
    OBVIOUS
  <2>1. TableOK /\ QueuesOK /\ PlacesOK /\ HeldOK /\ Known /\ Shown /\ Effect
    BY TypeParts, TypeStep DEF TicketInv
  <2> QED
    BY <2>1, SettlingStep, LifeStep
<1> QED
  BY <1>1, <1>2, <1>3, Invariance, PTL DEF Spec, Lifecycle, Life!Spec

\* While one poll and one dashboard request run at a time, a number names one ticket of
\* its user for good: no two open tickets of a user share it.
THEOREM NumbersName == ASSUME OnePoll, OneRequest PROVE Spec => []NumbersIdentify
<1>1. Init => Settling /\ Numbered
  <2> SUFFICES ASSUME Init PROVE Settling /\ Numbered
    OBVIOUS
  <2>1. DOMAIN rows = {} /\ \A w \in Workers : at[w] = "idle"
    BY DEF Init
  <2> QED
    BY <2>1, SettlingStep, WorkerFacts DEF Numbered, Holds
<1>2. TicketInv /\ Settling /\ Numbered /\ [Next]_vars => Settling' /\ Numbered'
  <2> SUFFICES ASSUME TicketInv, Settling, Numbered, [Next]_vars
               PROVE  Settling' /\ Numbered'
    OBVIOUS
  <2>1. TableOK /\ QueuesOK /\ PlacesOK /\ HeldOK /\ Known /\ Shown /\ Effect
    BY TypeParts, TypeStep DEF TicketInv
  <2> QED
    BY <2>1, SettlingStep, NumberedKept DEF OnePoll, OneRequest
<1>3. Settling /\ Numbered => NumbersIdentify
  BY DEF Settling, Numbered, NumbersIdentify
<1> QED
  BY <1>1, <1>2, <1>3, Invariance, PTL DEF Spec

-----------------------------------------------------------------------------
(* What a ticket keeps                                                     *)

\* Only a save changes a row that stays.
LEMMA ChangedBySave ==
    ASSUME TypeOK, [Next]_vars, NEW t \in DOMAIN rows \cap DOMAIN rows', rows'[t] # rows[t]
    PROVE  \E w \in Workers : SaveEffect(w) /\ held[w].id = t /\ rows'[t] = held[w].row
<1>1. TableOK /\ Effect
  BY TypeParts, TypeStep
<1>2. t # created + 1
  BY <1>1 DEF TableOK
<1>3. PICK w \in Workers : SaveEffect(w)
  BY <1>1, <1>2, Zenon DEF Effect, QuietEffect, CreateEffect, AskEffect, NumberEffect, FinishEffect,
     EditEffect, RemoveEffect, Table
<1> QED
  BY <1>3 DEF SaveEffect

\* A row that comes back was saved, or is new.
LEMMA AddedBySave ==
    ASSUME TypeOK, [Next]_vars, NEW t \in 1 .. created, t \notin DOMAIN rows, t \in DOMAIN rows'
    PROVE  \E w \in Workers : SaveEffect(w) /\ held[w].id = t /\ rows'[t] = held[w].row
<1>1. TableOK /\ Effect
  BY TypeParts, TypeStep
<1>2. t # created + 1
  BY <1>1 DEF TableOK
<1>3. ASSUME NEW p \in Polls, NEW row \in Row, CreateEffect(p, row) PROVE FALSE
  BY <1>2, <1>3 DEF CreateEffect
<1>4. ASSUME NEW d \in Requests, RemoveEffect(d) PROVE FALSE
  BY <1>4 DEF RemoveEffect
<1>5. rows' # rows
  OBVIOUS
<1>6. PICK w \in Workers : SaveEffect(w)
  BY <1>1, <1>3, <1>4, <1>5, Zenon DEF Effect, QuietEffect, AskEffect, NumberEffect, FinishEffect,
     EditEffect, Table
<1> QED
  BY <1>6 DEF SaveEffect

\* However polls and requests overlap, fail and start again: a ticket that has been
\* answered, cancelled or deleted never waits for a confirmation again, though a stale copy
\* of its row may be saved over it, and it stays with its owner and its phone.
THEOREM AnsweredForGood ==
    Spec => [][/\ \A t \in 1 .. created :
                     StatusOf(t) # "pending_confirm" => StatusOf(t)' # "pending_confirm"
               /\ \A t \in DOMAIN rows \cap DOMAIN rows' :
                     rows'[t].owner = rows[t].owner /\ rows'[t].phone = rows[t].phone]_vars
<1>1. ASSUME TicketInv, [Next]_vars, NEW t \in 1 .. created, StatusOf(t) # "pending_confirm"
      PROVE  StatusOf(t)' # "pending_confirm"
  <2>1. TypeOK /\ Shown
    BY <1>1 DEF TicketInv
  <2>2. ASSUME t \in DOMAIN rows', t \in DOMAIN rows => rows'[t] # rows[t]
        PROVE  rows'[t].status # "pending_confirm"
    <3>1. PICK w \in Workers : SaveEffect(w) /\ rows'[t] = held[w].row
      BY <1>1, <2>1, <2>2, ChangedBySave, AddedBySave
    <3> QED
      BY <2>1, <3>1 DEF SaveEffect, Shown
  <2>3. CASE t \notin DOMAIN rows'
    BY <2>3 DEF StatusOf
  <2>4. CASE t \in DOMAIN rows' /\ t \in DOMAIN rows /\ rows'[t] = rows[t]
    BY <1>1, <2>4 DEF StatusOf
  <2> QED
    BY <2>2, <2>3, <2>4 DEF StatusOf
<1>2. ASSUME TicketInv, [Next]_vars, NEW t \in DOMAIN rows \cap DOMAIN rows'
      PROVE  rows'[t].owner = rows[t].owner /\ rows'[t].phone = rows[t].phone
  <2>1. TypeOK /\ Known
    BY <1>2 DEF TicketInv
  <2>2. CASE rows'[t] # rows[t]
    <3>1. PICK w \in Workers : SaveEffect(w) /\ held[w].id = t /\ rows'[t] = held[w].row
      BY <1>2, <2>1, <2>2, ChangedBySave
    <3> QED
      BY <2>1, <3>1 DEF SaveEffect, Known, Holds
  <2> QED
    BY <2>2
<1>3. TicketInv /\ [Next]_vars =>
          [/\ \A t \in 1 .. created :
                 StatusOf(t) # "pending_confirm" => StatusOf(t)' # "pending_confirm"
           /\ \A t \in DOMAIN rows \cap DOMAIN rows' :
                 rows'[t].owner = rows[t].owner /\ rows'[t].phone = rows[t].phone]_vars
  BY <1>1, <1>2
<1> QED
  BY <1>3, Invariance, PTL DEF Spec

\* While one poll and one dashboard request run at a time, a ticket keeps the number its
\* user was told when it was confirmed, whatever is done to it from then on.
THEOREM NumbersStay ==
    ASSUME OnePoll, OneRequest
    PROVE  Spec => [][\A t \in DOMAIN rows \cap DOMAIN rows' :
                         rows[t].seq # 0 => rows'[t].seq = rows[t].seq]_vars
<1>1. Init => Settling /\ Numbered
  <2> SUFFICES ASSUME Init PROVE Settling /\ Numbered
    OBVIOUS
  <2>1. DOMAIN rows = {} /\ \A w \in Workers : at[w] = "idle"
    BY DEF Init
  <2> QED
    BY <2>1, SettlingStep, WorkerFacts DEF Numbered, Holds
<1>2. TicketInv /\ Settling /\ Numbered /\ [Next]_vars => Settling' /\ Numbered'
  <2> SUFFICES ASSUME TicketInv, Settling, Numbered, [Next]_vars
               PROVE  Settling' /\ Numbered'
    OBVIOUS
  <2>1. TableOK /\ QueuesOK /\ PlacesOK /\ HeldOK /\ Known /\ Shown /\ Effect
    BY TypeParts, TypeStep DEF TicketInv
  <2> QED
    BY <2>1, SettlingStep, NumberedKept DEF OnePoll, OneRequest
<1>3. ASSUME TicketInv, Numbered, [Next]_vars, NEW t \in DOMAIN rows \cap DOMAIN rows',
             rows[t].seq # 0
      PROVE  rows'[t].seq = rows[t].seq
  <2>1. Listed(t)
    BY <1>3 DEF Numbered
  <2>2. CASE rows'[t] # rows[t]
    <3>1. PICK w \in Workers : SaveEffect(w) /\ held[w].id = t /\ rows'[t] = held[w].row
      BY <1>3, <2>2, ChangedBySave DEF TicketInv
    <3> QED
      BY <1>3, <2>1, <3>1 DEF SaveEffect, Numbered
  <2> QED
    BY <2>2
<1>4. TicketInv /\ Numbered /\ [Next]_vars =>
          [\A t \in DOMAIN rows \cap DOMAIN rows' :
              rows[t].seq # 0 => rows'[t].seq = rows[t].seq]_vars
  BY <1>3
<1> QED
  BY <1>1, <1>2, <1>4, Invariance, PTL DEF Spec

-----------------------------------------------------------------------------
(* Only approved tickets                                                   *)

\* The approvals of a phone and of a user, and how many of them have not been handled.
Approvals == {m \in Message : m.kind = "approve"}
ByPhone(ph) == {m \in Approvals : m.phone = ph}
ByOwner(o) == {m \in Approvals : OwnerOf[m.phone] = o}
Ahead(V) == Occurs(inbox, V) + InBatches(batch, Polls, V)

\* A ticket is opened by the approval that a poll is handling.
Opening(w) == w \in Polls /\ at[w] = "save" /\ held[w].row.status = "open"

Owned ==
    /\ \A t \in DOMAIN rows : rows[t].owner = OwnerOf[rows[t].phone]
    /\ \A w \in Workers : Holds(w) => held[w].row.owner = OwnerOf[held[w].row.phone]

Approving ==
    /\ \A p \in Polls : at[p] = "number" \/ Opening(p) =>
          Msg(p).kind = "approve" /\ Msg(p).phone = held[p].row.phone
    /\ \A d \in Requests : Holds(d) => held[d].id \in listed[held[d].row.phone]

\* The approvals that have been handled, or lost, pay for the tickets shown and for the
\* numbers given; a number in the hands of a poll is paid for by the approval it handles.
Paid(ph, k) == k + Ahead(ByPhone(ph)) <= answers[ph]
Within(o, k, more) == k + Ahead(ByOwner(o)) <= ApprovalsOf(o) + more

ShownPaid == \A ph \in Phones, k \in Nat : Cardinality(listed[ph]) = k => Paid(ph, k)

Carries(row, o, k) == row.owner = o /\ row.seq = k

NumbersPaid ==
    \A o \in Owners :
        /\ Within(o, 0, 0)
        /\ \A k \in Nat :
              /\ \A t \in DOMAIN rows : Carries(rows[t], o, k) => Within(o, k, 0)
              /\ \A w \in Workers : Holds(w) /\ Carries(held[w].row, o, k) =>
                    IF Opening(w) THEN Within(o, k, 1) ELSE Within(o, k, 0)

LEMMA AheadIsNat ==
    ASSUME QueuesOK, NEW V
    PROVE  Occurs(inbox, V) \in Nat /\ InBatches(batch, Polls, V) \in Nat /\ Ahead(V) \in Nat
<1>1. Occurs(inbox, V) \in Nat
  BY OccursIsNat DEF QueuesOK
<1>2. InBatches(batch, Polls, V) \in Nat
  <2>1. IsFiniteSet(Polls) /\ batch \in [Polls -> Seq(Message)]
    BY TicketAssumption DEF QueuesOK
  <2> QED
    BY <2>1, InBatchesIsNat
<1> QED
  BY <1>1, <1>2 DEF Ahead

\* A poll is given another batch.
LEMMA BatchSwapped ==
    ASSUME QueuesOK, QueuesOK', NEW p \in Polls, NEW V,
           \A q \in Polls \ {p} : batch'[q] = batch[q]
    PROVE  /\ InBatches(batch, Polls, V) \in Nat /\ InBatches(batch', Polls, V) \in Nat
           /\ Occurs(batch[p], V) \in Nat /\ Occurs(batch'[p], V) \in Nat
           /\ InBatches(batch', Polls, V) + Occurs(batch[p], V) =
                 InBatches(batch, Polls, V) + Occurs(batch'[p], V)
<1>1. \A q \in Polls : batch[q] \in Seq(Message) /\ batch'[q] \in Seq(Message)
  BY DEF QueuesOK
<1>2. \A q \in Polls : Occurs(batch[q], V) \in Nat /\ Occurs(batch'[q], V) \in Nat
  BY <1>1, OccursIsNat
<1>3. IsFiniteSet(Polls)
  BY TicketAssumption
<1>4. /\ InBatches(batch, Polls, V) \in Nat /\ InBatches(batch', Polls, V) \in Nat
      /\ InBatches(batch', Polls, V) + Occurs(batch[p], V) =
            InBatches(batch, Polls, V) + Occurs(batch'[p], V)
  BY <1>2, <1>3, BatchReplaced
<1> QED
  BY <1>2, <1>4

\* A poll that is done with a message, or with all of them, has used it.
LEMMA MessageUsed ==
    ASSUME QueuesOK, QueuesOK', PlacesOK, NEW p \in Polls, at[p] # "idle",
           NextMessage(p) \/ Abort(p), inbox' = inbox, NEW V,
           NEW one, one = IF Msg(p) \in V THEN 1 ELSE 0
    PROVE  \E rest \in Nat : Ahead(V) = Ahead(V)' + (one + rest)
<1> DEFINE was == InBatches(batch, Polls, V)
           is == InBatches(batch', Polls, V)
           all == Occurs(batch[p], V)
           left == Occurs(batch'[p], V)
           arrived == Occurs(inbox, V)
           later == Occurs(Tail(batch[p]), V)
<1>1. batch[p] \in Seq(Message) /\ batch[p] # <<>>
  BY DEF QueuesOK, PlacesOK
<1>2. Tail(batch[p]) \in Seq(Message)
  BY <1>1, TailFacts
<1>3. all = later + one
  <2>1. all = later + (IF Head(batch[p]) \in V THEN 1 ELSE 0)
    BY <1>1, OccursInTail
  <2> QED
    BY <2>1 DEF Msg
<1>4. later \in Nat /\ arrived \in Nat /\ one \in Nat
  BY <1>2, AheadIsNat, OccursIsNat
<1>5. \A q \in Polls \ {p} : batch'[q] = batch[q]
  BY NextMessageFacts, AbortFacts
<1>6. was \in Nat /\ is \in Nat /\ is + all = was + left
  BY <1>5, BatchSwapped
<1>7. left = later \/ left = 0
  <2>1. CASE NextMessage(p)
    <3>1. batch'[p] = Tail(batch[p])
      BY <2>1 DEF NextMessage, QueuesOK
    <3> QED
      BY <3>1
  <2>2. CASE Abort(p)
    <3>1. batch'[p] = <<>>
      BY <2>2, AbortFacts
    <3> QED
      BY <3>1, OccursInEmpty
  <2> QED
    BY <2>1, <2>2
<1> HIDE DEF was, is, all, left, arrived, later
<1>8. \E rest \in Nat : arrived + was = (arrived + is) + (one + rest)
  <2>1. CASE left = later
    <3>1. arrived + was = (arrived + is) + (one + 0)
      BY <1>3, <1>4, <1>6, <2>1
    <3> QED
      BY <3>1
  <2>2. CASE left = 0
    <3>1. arrived + was = (arrived + is) + (one + later)
      BY <1>3, <1>4, <1>6, <2>2
    <3> QED
      BY <1>4, <3>1
  <2> QED
    BY <1>7, <2>1, <2>2
<1> QED
  BY <1>8 DEF Ahead, arrived, was, is

\* What a poll does with its batch.
LEMMA LoopStep ==
    ASSUME QueuesOK, QueuesOK', PlacesOK, NEW p \in Polls, at[p] # "idle",
           NextMessage(p) \/ Abort(p) \/ batch' = batch, inbox' = inbox, NEW V
    PROVE  \E rest \in Nat : Ahead(V) = Ahead(V)' + rest
<1>1. CASE NextMessage(p) \/ Abort(p)
  <2>1. PICK one \in Nat : one = IF Msg(p) \in V THEN 1 ELSE 0
    OBVIOUS
  <2>2. PICK rest \in Nat : Ahead(V) = Ahead(V)' + (one + rest)
    BY <1>1, <2>1, MessageUsed
  <2>3. one + rest \in Nat
    OBVIOUS
  <2> QED
    BY <2>2, <2>3
<1>2. CASE batch' = batch
  <2>1. Ahead(V)' = Ahead(V) /\ Ahead(V) \in Nat
    BY <1>2, AheadIsNat DEF Ahead
  <2> QED
    BY <2>1
<1> QED
  BY <1>1, <1>2

\* A message is read as another one, and neither is an approval.
LEMMA MessageRead ==
    ASSUME QueuesOK, QueuesOK', NEW p \in Polls, batch[p] # <<>>, inbox' = inbox, NEW V,
           Msg(p) \notin V, NEW m \in Message, m \notin V,
           batch' = [batch EXCEPT ![p] = [@ EXCEPT ![1] = m]]
    PROVE  Ahead(V)' = Ahead(V)
<1>1. batch[p] \in Seq(Message) /\ batch \in [Polls -> Seq(Message)]
  BY DEF QueuesOK
<1>2. Msg(p) = batch[p][1] /\ Len(batch[p]) \in Nat \ {0}
  BY <1>1, TailFacts DEF Msg
<1>3. batch'[p] = [batch[p] EXCEPT ![1] = m] /\ \A q \in Polls \ {p} : batch'[q] = batch[q]
  BY <1>1
<1>4. Len(batch'[p]) = Len(batch[p])
  BY <1>1, <1>2, <1>3, ExceptSeq
<1>5. \A i \in 1 .. Len(batch[p]) : batch'[p][i] \in V <=> batch[p][i] \in V
  BY <1>1, <1>2, <1>3, ExceptSeq
<1>6. Occurs(batch'[p], V) = Occurs(batch[p], V)
  BY <1>4, <1>5, OccursAlike
<1>7. \A q \in Polls \ {p} : batch'[q] = batch[q]
  BY <1>3
<1>8. /\ InBatches(batch, Polls, V) \in Nat /\ InBatches(batch', Polls, V) \in Nat
      /\ Occurs(batch[p], V) \in Nat
      /\ InBatches(batch', Polls, V) + Occurs(batch[p], V) =
            InBatches(batch, Polls, V) + Occurs(batch'[p], V)
  BY <1>7, BatchSwapped
<1>9. InBatches(batch', Polls, V) = InBatches(batch, Polls, V)
  BY <1>6, <1>8
<1> QED
  BY <1>9 DEF Ahead

-----------------------------------------------------------------------------
(* Steps by what they do to the messages                                   *)

\* A poll goes on, gives up or keeps its batch.
Looping(p) ==
    /\ at[p] # "idle" /\ UNCHANGED <<inbox, answers>>
    /\ NextMessage(p) \/ Abort(p) \/ batch' = batch

\* A poll reads a message that is not an approval as another one that is not.
Reading(p, m) ==
    /\ at[p] = "next" /\ UNCHANGED <<inbox, answers, at>>
    /\ Msg(p).kind # "approve" /\ m.kind # "approve"
    /\ batch' = [batch EXCEPT ![p] = [@ EXCEPT ![1] = m]]

LEMMA FreeReads ==
    ASSUME QueuesOK, PlacesOK, NEW p \in Polls, handleFreeText(p)
    PROVE  Looping(p) \/ \E m \in Message : Reading(p, m)
<1>1. at[p] = "next" /\ Msg(p).kind = "text" /\ UNCHANGED <<inbox, answers>>
  BY DEF handleFreeText, Handling, WorldUnchanged
<1>2. Msg(p) \in Message /\ batch[p][1] = Msg(p)
  BY <1>1, MsgFacts DEF PlacesOK
<1>3. CASE NextMessage(p)
  BY <1>1, <1>3 DEF Looping
<1>4. ASSUME NEW kind \in {"task", "only"},
             batch' = [batch EXCEPT ![p][1] = [@ EXCEPT !.kind = kind]], at' = at
      PROVE  \E m \in Message : Reading(p, m)
  <2> DEFINE m == [Msg(p) EXCEPT !.kind = kind]
  <2>1. m \in Message /\ m.kind # "approve"
    BY <1>2 DEF Message, Kinds
  <2>2. batch' = [batch EXCEPT ![p] = [@ EXCEPT ![1] = m]]
    BY <1>2, <1>4
  <2> HIDE DEF m
  <2> QED
    BY <1>1, <1>4, <2>1, <2>2 DEF Reading
<1>5. ASSUME NEW n \in Numbers,
             batch' = [batch EXCEPT ![p][1] = [@ EXCEPT !.kind = "done", !.seq = n]], at' = at
      PROVE  \E m \in Message : Reading(p, m)
  <2> DEFINE m == [Msg(p) EXCEPT !.kind = "done", !.seq = n]
  <2>1. n \in Nat
    BY TicketAssumption DEF Numbers
  <2>2. m \in Message /\ m.kind # "approve"
    BY <1>2, <2>1 DEF Message, Kinds
  <2>3. batch' = [batch EXCEPT ![p] = [@ EXCEPT ![1] = m]]
    BY <1>2, <1>5
  <2> HIDE DEF m
  <2> QED
    BY <1>1, <1>5, <2>2, <2>3 DEF Reading
<1> QED
  BY <1>3, <1>4, <1>5 DEF handleFreeText

LEMMA OnlyReads ==
    ASSUME TableOK, QueuesOK, PlacesOK, NEW p \in Polls, CompleteOnly(p)
    PROVE  Looping(p) \/ \E m \in Message : Reading(p, m)
<1>1. at[p] = "next" /\ Msg(p).kind = "only" /\ UNCHANGED <<inbox, answers>>
  BY DEF CompleteOnly, Handling, WorldUnchanged
<1>2. Msg(p) \in Message /\ batch[p][1] = Msg(p)
  BY <1>1, MsgFacts DEF PlacesOK
<1>3. CASE NextMessage(p)
  BY <1>1, <1>3 DEF Looping
<1>4. CASE ~NextMessage(p)
  <2> DEFINE open == OpenOf(OwnerOf[Msg(p).phone])
             seq == rows[CHOOSE t \in open : TRUE].seq
             m == [Msg(p) EXCEPT !.kind = "done", !.seq = seq]
  <2>1. /\ Cardinality(open) = 1 /\ at' = at
        /\ batch' = [batch EXCEPT ![p] = [@ EXCEPT ![1] = m]]
    BY <1>2, <1>4 DEF CompleteOnly
  <2>2. open # {}
    <3>1. Cardinality({}) = 0 /\ 0 # 1
      BY FS_EmptySet
    <3> HIDE DEF open
    <3> QED
      BY <2>1, <3>1, Zenon
  <2>3. (CHOOSE t \in open : TRUE) \in DOMAIN rows
    BY <2>2 DEF OpenOf
  <2>4. seq \in Nat
    BY <2>3 DEF TableOK, Row
  <2> HIDE DEF seq
  <2>5. m \in Message /\ m.kind # "approve"
    BY <1>2, <2>4 DEF Message, Kinds
  <2> HIDE DEF m
  <2> QED
    BY <1>1, <2>1, <2>5 DEF Reading
<1> QED
  BY <1>3, <1>4

Untouched == UNCHANGED <<inbox, batch, answers>>

LEMMA MessageStep ==
    ASSUME TableOK, QueuesOK, PlacesOK, [Next]_vars
    PROVE  \/ \E m \in Messages : Send(m)
           \/ Crash
           \/ \E p \in Polls : Receive(p)
           \/ \E p \in Polls : Looping(p)
           \/ \E p \in Polls, m \in Message : Reading(p, m)
           \/ Untouched
<1>1. \/ \E m \in Messages : Send(m)
      \/ Crash
      \/ \E p \in Polls : Receive(p)
      \/ \E p \in Polls : handleFreeText(p)
      \/ \E p \in Polls : CompleteOnly(p)
      \/ \E p \in Polls : createPending(p) \/ FindPending(p) \/ NumberPending(p) \/ FindOpen(p)
             \/ SaveTicket(p) \/ Throw(p) \/ NoAccount(p)
      \/ \E d \in Requests, t \in Ids, status \in {"open", "done"} : updateTicket(d, t, status)
      \/ \E d \in Requests, t \in Ids : deleteTicket(d, t)
      \/ \E d \in Requests : SaveUpdate(d) \/ RemoveTicket(d)
      \/ UNCHANGED vars
  BY Zenon DEF Next
<1>2. ASSUME NEW p \in Polls, createPending(p) \/ FindPending(p) \/ NumberPending(p) \/ FindOpen(p)
             \/ SaveTicket(p) \/ Throw(p) \/ NoAccount(p)
      PROVE  Looping(p)
  <2>1. CASE createPending(p) \/ NoAccount(p)
    BY <2>1 DEF createPending, NoAccount, Handling, WorldUnchanged, Looping
  <2>2. CASE FindPending(p)
    BY <2>2 DEF FindPending, Handling, WorldUnchanged, Looping
  <2>3. CASE FindOpen(p)
    BY <2>3 DEF FindOpen, Handling, WorldUnchanged, Looping
  <2>4. CASE NumberPending(p) \/ SaveTicket(p) \/ Throw(p)
    BY <2>4 DEF NumberPending, SaveTicket, Throw, WorldUnchanged, Looping
  <2> QED
    BY <1>2, <2>1, <2>2, <2>3, <2>4
<1>3. ASSUME NEW d \in Requests, NEW t \in Ids, NEW status \in {"open", "done"},
             updateTicket(d, t, status)
      PROVE  Untouched
  BY <1>3 DEF updateTicket, Untouched
<1>4. ASSUME NEW d \in Requests, NEW t \in Ids, deleteTicket(d, t) PROVE Untouched
  BY <1>4 DEF deleteTicket, Untouched
<1>5. ASSUME NEW d \in Requests, SaveUpdate(d) \/ RemoveTicket(d) PROVE Untouched
  BY <1>5 DEF SaveUpdate, RemoveTicket, WorldUnchanged, Untouched
<1>6. UNCHANGED vars => Untouched
  BY DEF vars, Untouched
<1> QED
  BY <1>1, <1>2, <1>3, <1>4, <1>5, <1>6, FreeReads, OnlyReads

\* A poll that still holds a row is at the same message.
LEMMA BatchStays ==
    ASSUME TableOK, QueuesOK, PlacesOK, [Next]_vars, NEW p \in Polls, Holds(p) \/ at[p] = "next",
           Holds(p)'
    PROVE  Msg(p)' = Msg(p)
<1>1. p \in Workers
  BY WorkerFacts
<1>2. ASSUME NEW q \in Polls, Looping(q) PROVE batch'[p] = batch[p]
  BY <1>1, <1>2, NextMessageFacts, AbortFacts DEF Looping, Holds
<1>3. ASSUME NEW q \in Polls, Receive(q) PROVE batch'[p] = batch[p]
  BY <1>1, <1>3 DEF Receive, GoTo, Holds, QueuesOK, PlacesOK
<1>4. ASSUME NEW q \in Polls, NEW m \in Message, Reading(q, m) PROVE batch'[p] = batch[p]
  BY <1>1, <1>4 DEF Reading, Holds, QueuesOK
<1>5. ASSUME Crash PROVE batch'[p] = batch[p]
  BY <1>1, <1>5 DEF Crash, Holds
<1>6. ASSUME NEW m \in Messages, Send(m) PROVE batch'[p] = batch[p]
  BY <1>6 DEF Send
<1>7. batch'[p] = batch[p]
  BY <1>2, <1>3, <1>4, <1>5, <1>6, MessageStep DEF Untouched
<1> QED
  BY <1>7 DEF Msg

\* A message that is sent waits; otherwise messages are only used up.
LEMMA AheadStep ==
    ASSUME TableOK, QueuesOK, PlacesOK, QueuesOK', [Next]_vars, NEW V, V \subseteq Approvals
    PROVE  \/ answers' = answers /\ \E rest \in Nat : Ahead(V) = Ahead(V)' + rest
           \/ \E m \in Messages : Send(m) /\ Ahead(V)' = Ahead(V) + (IF m \in V THEN 1 ELSE 0)
<1> DEFINE Used == answers' = answers /\ \E rest \in Nat : Ahead(V) = Ahead(V)' + rest
<1>1. ASSUME NEW m \in Messages, Send(m)
      PROVE  Ahead(V)' = Ahead(V) + (IF m \in V THEN 1 ELSE 0)
  <2>1. inbox' = Append(inbox, m) /\ batch' = batch
    BY <1>1 DEF Send
  <2>2. Occurs(inbox', V) = Occurs(inbox, V) + (IF m \in V THEN 1 ELSE 0)
    BY <2>1, OccursInAppend, TicketAssumption DEF QueuesOK
  <2>3. InBatches(batch', Polls, V) = InBatches(batch, Polls, V)
    BY <2>1
  <2>4. Occurs(inbox, V) \in Nat /\ InBatches(batch, Polls, V) \in Nat
    BY AheadIsNat
  <2> QED
    BY <2>2, <2>3, <2>4 DEF Ahead
<1>2. ASSUME Crash PROVE Used
  <2>1. inbox' = inbox /\ answers' = answers /\ \A p \in Polls : batch'[p] = <<>>
    BY <1>2 DEF Crash, WorldUnchanged
  <2>2. InBatches(batch', Polls, V) = 0
    BY <2>1, InBatchesNone, TicketAssumption
  <2>3. Occurs(inbox, V) \in Nat /\ InBatches(batch, Polls, V) \in Nat
    BY AheadIsNat
  <2>4. Ahead(V) = Ahead(V)' + InBatches(batch, Polls, V)
    BY <2>1, <2>2, <2>3 DEF Ahead
  <2> QED
    BY <2>1, <2>3, <2>4
<1>3. ASSUME NEW p \in Polls, Receive(p) PROVE Used
  <2>1. /\ batch[p] = <<>> /\ batch'[p] = inbox /\ inbox' = <<>> /\ answers' = answers
        /\ \A q \in Polls \ {p} : batch'[q] = batch[q]
    BY <1>3 DEF Receive, QueuesOK, PlacesOK
  <2>2. \A q \in Polls \ {p} : batch'[q] = batch[q]
    BY <2>1
  <2>3. Occurs(batch[p], V) = 0 /\ Occurs(inbox', V) = 0 /\ Occurs(batch'[p], V) = Occurs(inbox, V)
    BY <2>1, OccursInEmpty
  <2>4. /\ InBatches(batch, Polls, V) \in Nat /\ InBatches(batch', Polls, V) \in Nat
        /\ Occurs(batch'[p], V) \in Nat
        /\ InBatches(batch', Polls, V) + Occurs(batch[p], V) =
              InBatches(batch, Polls, V) + Occurs(batch'[p], V)
    BY <2>2, BatchSwapped
  <2>5. Ahead(V) = Ahead(V)' + 0
    BY <2>3, <2>4 DEF Ahead
  <2> QED
    BY <2>1, <2>5
<1>4. ASSUME NEW p \in Polls, Looping(p) PROVE Used
  BY <1>4, LoopStep DEF Looping
<1>5. ASSUME NEW p \in Polls, NEW m \in Message, Reading(p, m) PROVE Used
  <2>1. batch[p] # <<>> /\ inbox' = inbox /\ answers' = answers /\ Msg(p) \notin V /\ m \notin V
    BY <1>5 DEF Reading, PlacesOK, Approvals
  <2>2. Ahead(V)' = Ahead(V) /\ Ahead(V) \in Nat
    BY <1>5, <2>1, MessageRead, AheadIsNat DEF Reading
  <2> QED
    BY <2>1, <2>2
<1>6. ASSUME Untouched PROVE Used
  <2>1. Ahead(V)' = Ahead(V) /\ Ahead(V) \in Nat
    BY <1>6, AheadIsNat DEF Untouched, Ahead
  <2> QED
    BY <1>6, <2>1 DEF Untouched
<1> QED
  BY <1>1, <1>2, <1>3, <1>4, <1>5, <1>6, MessageStep

\* The approvals of a user are those of the phones.
OwnPhones(o) == {ph \in Phones : OwnerOf[ph] = o}

LEMMA ApprovalsTotal == \A o : ApprovalsOf(o) = Total(answers, OwnPhones(o))
BY DEF ApprovalsOf, Total, OwnPhones

LEMMA NextApprovalsTotal == \A o : ApprovalsOf(o)' = Total(answers', OwnPhones(o))
<1>1. (\A o : ApprovalsOf(o) = Total(answers, OwnPhones(o)))'
  BY ApprovalsTotal, PTL
<1> QED
  BY <1>1

LEMMA ApprovalsAdd ==
    ASSUME CountersOK, CountersOK', NEW o,
           NEW ph \in Phones, \A q \in Phones \ {ph} : answers'[q] = answers[q]
    PROVE  /\ ApprovalsOf(o) \in Nat /\ ApprovalsOf(o)' \in Nat
           /\ ApprovalsOf(o)' =
                 ApprovalsOf(o) + (IF OwnerOf[ph] = o THEN answers'[ph] - answers[ph] ELSE 0)
<1> DEFINE own == OwnPhones(o)
<1>1. ApprovalsOf(o) = Total(answers, own) /\ ApprovalsOf(o)' = Total(answers', own)
  BY ApprovalsTotal, NextApprovalsTotal
<1>2. own \subseteq Phones /\ IsFiniteSet(own) /\ (ph \in own <=> OwnerOf[ph] = o)
  BY TicketAssumption, FS_Subset DEF OwnPhones
<1>3. \A q \in own : answers[q] \in Nat /\ answers'[q] \in Nat
  BY <1>2 DEF CountersOK
<1>4. \A q \in own \ {ph} : answers'[q] = answers[q]
  BY <1>2
<1> HIDE DEF own
<1>5. /\ Total(answers, own) \in Nat /\ Total(answers', own) \in Nat
      /\ Total(answers', own) =
            Total(answers, own) + (IF ph \in own THEN answers'[ph] - answers[ph] ELSE 0)
  BY <1>2, <1>3, <1>4, TotalsDiffer
<1> QED
  BY <1>1, <1>2, <1>5

LEMMA ApprovalsNat ==
    ASSUME CountersOK, NEW o
    PROVE  ApprovalsOf(o) \in Nat
<1>1. IsFiniteSet(OwnPhones(o)) /\ OwnPhones(o) \subseteq Phones
  BY TicketAssumption, FS_Subset DEF OwnPhones
<1>2. \A q \in OwnPhones(o) : answers[q] \in Nat /\ answers[q] = answers[q]
  BY <1>1 DEF CountersOK
<1> QED
  BY <1>1, <1>2, TotalOfSame, ApprovalsTotal

LEMMA NextAheadIsNat == QueuesOK' => \A V : Ahead(V)' \in Nat
<1>1. QueuesOK => \A V : Ahead(V) \in Nat
  BY AheadIsNat
<1>2. (QueuesOK => \A V : Ahead(V) \in Nat)'
  BY <1>1, PTL
<1> QED
  BY <1>2

\* What has been paid for stays paid for.
LEMMA PaidStep ==
    ASSUME TableOK, QueuesOK, PlacesOK, CountersOK, QueuesOK', CountersOK', [Next]_vars,
           NEW ph \in Phones, NEW k \in Nat, Paid(ph, k)
    PROVE  Paid(ph, k)'
<1> DEFINE V == ByPhone(ph)
<1>1. V \subseteq Approvals /\ \A m \in Message : m \in V <=> m.kind = "approve" /\ m.phone = ph
  BY DEF ByPhone, Approvals
<1>2. Ahead(V) \in Nat /\ Ahead(V)' \in Nat /\ answers[ph] \in Nat /\ answers'[ph] \in Nat
  BY AheadIsNat, NextAheadIsNat DEF CountersOK
<1>3. k + Ahead(V) <= answers[ph]
  BY DEF Paid
<1> HIDE DEF V
<1>4. CASE answers' = answers /\ \E rest \in Nat : Ahead(V) = Ahead(V)' + rest
  <2>1. k + Ahead(V)' <= answers'[ph]
    BY <1>2, <1>3, <1>4
  <2> QED
    BY <2>1 DEF Paid, V
<1>5. ASSUME NEW m \in Messages, Send(m), Ahead(V)' = Ahead(V) + (IF m \in V THEN 1 ELSE 0)
      PROVE  Paid(ph, k)'
  <2>1. m \in Message /\ m.phone \in Phones
    BY TicketAssumption DEF Message
  <2>2. answers' = IF m.kind = "approve" THEN [answers EXCEPT ![m.phone] = @ + 1] ELSE answers
    BY <1>5 DEF Send
  <2>3. answers'[ph] = answers[ph] + (IF m \in V THEN 1 ELSE 0)
         \/ (answers'[ph] = answers[ph] /\ m \notin V)
    BY <1>1, <2>1, <2>2 DEF CountersOK
  <2>4. k + Ahead(V)' <= answers'[ph]
    BY <1>2, <1>3, <1>5, <2>3
  <2> QED
    BY <2>4 DEF Paid, V
<1> QED
  BY <1>1, <1>4, <1>5, AheadStep

LEMMA WithinStep ==
    ASSUME TableOK, QueuesOK, PlacesOK, CountersOK, QueuesOK', CountersOK', [Next]_vars,
           NEW o, NEW k \in Nat, NEW more \in Nat, Within(o, k, more)
    PROVE  Within(o, k, more)'
<1> DEFINE V == ByOwner(o)
<1>1. V \subseteq Approvals
      /\ \A m \in Message : m \in V <=> m.kind = "approve" /\ OwnerOf[m.phone] = o
  BY DEF ByOwner, Approvals
<1>2. Ahead(V) \in Nat /\ Ahead(V)' \in Nat /\ ApprovalsOf(o) \in Nat
  BY AheadIsNat, NextAheadIsNat, ApprovalsNat
<1>3. k + Ahead(V) <= ApprovalsOf(o) + more
  BY DEF Within
<1> HIDE DEF V
<1>4. CASE answers' = answers /\ \E rest \in Nat : Ahead(V) = Ahead(V)' + rest
  <2>1. ApprovalsOf(o)' = ApprovalsOf(o)
    BY <1>4, ApprovalsTotal, NextApprovalsTotal
  <2>2. k + Ahead(V)' <= ApprovalsOf(o)' + more
    BY <1>2, <1>3, <1>4, <2>1
  <2> QED
    BY <2>2 DEF Within, V
<1>5. ASSUME NEW m \in Messages, Send(m), Ahead(V)' = Ahead(V) + (IF m \in V THEN 1 ELSE 0)
      PROVE  Within(o, k, more)'
  <2>1. m \in Message /\ m.phone \in Phones
    BY TicketAssumption DEF Message
  <2>2. answers' = IF m.kind = "approve" THEN [answers EXCEPT ![m.phone] = @ + 1] ELSE answers
    BY <1>5 DEF Send
  <2>3. \A q \in Phones \ {m.phone} : answers'[q] = answers[q]
    BY <2>1, <2>2 DEF CountersOK
  <2>4. ApprovalsOf(o)' = ApprovalsOf(o)
            + (IF OwnerOf[m.phone] = o THEN answers'[m.phone] - answers[m.phone] ELSE 0)
    BY <2>1, <2>3, ApprovalsAdd
  <2>5. answers'[m.phone] - answers[m.phone] = IF m.kind = "approve" THEN 1 ELSE 0
    BY <2>1, <2>2 DEF CountersOK
  <2>6. ApprovalsOf(o)' = ApprovalsOf(o) + (IF m \in V THEN 1 ELSE 0)
    BY <1>1, <1>2, <2>1, <2>4, <2>5
  <2>7. k + Ahead(V)' <= ApprovalsOf(o)' + more
    BY <1>2, <1>3, <1>5, <2>6
  <2> QED
    BY <2>7 DEF Within, V
<1> QED
  BY <1>1, <1>4, <1>5, AheadStep

\* The approval a poll handled pays for one more.
LEMMA ApprovalUsed ==
    ASSUME TableOK, QueuesOK, PlacesOK, CountersOK, QueuesOK', CountersOK', NEW p \in Polls,
           SaveTicket(p), Msg(p).kind = "approve", NEW ph \in Phones, Msg(p).phone = ph
    PROVE  /\ \A k \in Nat : Paid(ph, k) => Paid(ph, k + 1)'
           /\ \A k \in Nat : Within(OwnerOf[ph], k, 1) => Within(OwnerOf[ph], k, 0)'
<1>1. at[p] # "idle" /\ (NextMessage(p) \/ Abort(p)) /\ UNCHANGED <<inbox, answers>>
  BY DEF SaveTicket, WorldUnchanged
<1>2. Msg(p) \in Message
  BY <1>1, MsgFacts DEF PlacesOK
<1>3. ASSUME NEW V, Msg(p) \in V PROVE \E rest \in Nat : Ahead(V) = Ahead(V)' + (1 + rest)
  <2>1. PICK one \in Nat : one = IF Msg(p) \in V THEN 1 ELSE 0
    OBVIOUS
  <2>2. one = 1
    BY <1>3, <2>1
  <2>3. \E rest \in Nat : Ahead(V) = Ahead(V)' + (one + rest)
    BY <1>1, <2>1, MessageUsed
  <2> QED
    BY <2>2, <2>3
<1>4. ASSUME NEW k \in Nat, Paid(ph, k) PROVE Paid(ph, k + 1)'
  <2> DEFINE V == ByPhone(ph)
  <2>1. Msg(p) \in V
    BY <1>2 DEF ByPhone, Approvals
  <2>2. Ahead(V) \in Nat /\ Ahead(V)' \in Nat /\ answers'[ph] = answers[ph] /\ answers[ph] \in Nat
    BY <1>1, AheadIsNat, NextAheadIsNat DEF CountersOK
  <2>3. k + Ahead(V) <= answers[ph]
    BY <1>4 DEF Paid
  <2> HIDE DEF V
  <2>4. PICK rest \in Nat : Ahead(V) = Ahead(V)' + (1 + rest)
    BY <1>3, <2>1
  <2>5. k + 1 + Ahead(V)' <= answers'[ph]
    BY <2>2, <2>3, <2>4
  <2> QED
    BY <2>5 DEF Paid, V
<1>5. ASSUME NEW k \in Nat, Within(OwnerOf[ph], k, 1) PROVE Within(OwnerOf[ph], k, 0)'
  <2> DEFINE V == ByOwner(OwnerOf[ph])
             sum == ApprovalsOf(OwnerOf[ph])
  <2>1. Msg(p) \in V
    BY <1>2 DEF ByOwner, Approvals
  <2>2. Ahead(V) \in Nat /\ Ahead(V)' \in Nat /\ sum' = sum /\ sum \in Nat
    BY <1>1, AheadIsNat, NextAheadIsNat, ApprovalsNat, ApprovalsTotal, NextApprovalsTotal
  <2>3. k + Ahead(V) <= sum + 1
    BY <1>5 DEF Within
  <2> HIDE DEF V, sum
  <2>4. PICK rest \in Nat : Ahead(V) = Ahead(V)' + (1 + rest)
    BY <1>3, <2>1
  <2>5. k + Ahead(V)' <= sum' + 0
    BY <2>2, <2>3, <2>4
  <2> QED
    BY <2>5 DEF Within, V, sum
<1> QED
  BY <1>4, <1>5

-----------------------------------------------------------------------------
(* Where rows come from                                                    *)

\* A row in a worker's hands was there before, was loaded from the table, or was numbered.
Loaded(w, t) ==
    /\ held'[w].id = t /\ SameOwner(held'[w].row, t) /\ held'[w].row.seq = rows[t].seq
    /\ ~Opening(w)'
    /\ w \in Polls => at[w] = "next"
    /\ w \in Polls /\ at'[w] = "number" =>
          Msg(w).kind = "approve" /\ Msg(w).phone = held'[w].row.phone
    /\ w \in Requests => t \in listed[rows[t].phone]

JustNumbered(p) ==
    /\ p \in Polls /\ at[p] = "number" /\ held'[p].row.seq = nextSeq(held'[p].row.owner)
    /\ held'[p].row.owner = held[p].row.owner /\ held'[p].row.phone = held[p].row.phone
    /\ Opening(p)'

HeldFrom(w) ==
    \/ at'[w] = at[w] /\ held'[w] = held[w]
    \/ \E t \in DOMAIN rows : Loaded(w, t)
    \/ JustNumbered(w)

Saving(w) == w \in Workers /\ at[w] = "save" /\ (w \in Polls => SaveTicket(w))

RowFrom(t) ==
    \/ t \in DOMAIN rows /\ rows'[t] = rows[t]
    \/ rows'[t].seq = 0 /\ rows'[t].owner = OwnerOf[rows'[t].phone]
    \/ \E w \in Workers : Saving(w) /\ rows'[t] = held[w].row

ListedFrom(ph) ==
    \/ listed'[ph] = listed[ph]
    \/ \E w \in Workers : /\ Saving(w) /\ held[w].row.status = "open" /\ held[w].row.phone = ph
                          /\ listed'[ph] = listed[ph] \cup {held[w].id}

Sources ==
    /\ \A w \in Workers : Holds(w)' => HeldFrom(w)
    /\ \A t \in DOMAIN rows' : RowFrom(t)
    /\ \A ph \in Phones : ListedFrom(ph)

LEMMA FromTable ==
    ASSUME Table
    PROVE  (\A t \in DOMAIN rows' : RowFrom(t)) /\ \A ph \in Phones : ListedFrom(ph)
BY DEF Table, RowFrom, ListedFrom

LEMMA FromOthers ==
    ASSUME NEW w \in Workers, Others(w), Holds(w)' => HeldFrom(w)
    PROVE  \A v \in Workers : Holds(v)' => HeldFrom(v)
BY DEF Others, HeldFrom

LEMMA FromKept ==
    ASSUME KeepOrDrop
    PROVE  \A w \in Workers : Holds(w)' => HeldFrom(w)
BY DEF KeepOrDrop, Drop, HeldFrom, Holds

LEMMA QuietSources ==
    ASSUME QuietEffect
    PROVE  Sources
BY FromTable, FromKept DEF QuietEffect, Sources

LEMMA CreateSources ==
    ASSUME TableOK, QueuesOK, PlacesOK, HeldOK, CountersOK, NEW p \in Polls, createPending(p)
    PROVE  Sources
<1>1. PICK row \in Row : CreateEffect(p, row)
  BY CreateHasEffect
<1>2. batch[p] # <<>> /\ created \in Nat
  BY DEF createPending, Handling, PlacesOK, TableOK
<1>3. Msg(p).phone \in Phones
  BY <1>2, MsgFacts DEF Message
<1>4. /\ rows'[created + 1].owner = OwnerOf[Msg(p).phone]
      /\ rows'[created + 1].phone = Msg(p).phone
  BY <1>2 DEF createPending
<1>5. \A t \in DOMAIN rows' : RowFrom(t)
  BY <1>1, <1>4 DEF CreateEffect, RowFrom
<1>6. \A ph \in Phones : ListedFrom(ph)
  BY <1>1 DEF CreateEffect, ListedFrom
<1> QED
  BY <1>1, <1>5, <1>6, FromKept DEF CreateEffect, Sources

LEMMA AskSources ==
    ASSUME TableOK, QueuesOK, PlacesOK, HeldOK, CountersOK, NEW p \in Polls, FindPending(p)
    PROVE  Sources
<1>1. CASE QuietEffect
  BY <1>1, QuietSources
<1>2. ASSUME NEW t \in DOMAIN rows, NEW row \in Row, NEW place \in Places,
             AskEffect(p, t, row, place)
      PROVE  Sources
  <2>1. p \in Workers /\ p \notin Requests /\ at[p] = "next" /\ batch[p] # <<>>
    BY WorkerFacts DEF FindPending, Handling, PlacesOK
  <2>2. held'[p].id = t /\ held'[p].row = row /\ at'[p] = place
    BY <1>2 DEF AskEffect, Put
  <2>3. ASSUME place = "number" PROVE Msg(p).kind = "approve" /\ Msg(p).phone = row.phone
    <3>1. Msg(p).phone \in Phones
      BY <2>1, MsgFacts DEF Message
    <3> DEFINE ph == Msg(p).phone
    <3>2. at'[p] = "number"
      BY <2>2, <2>3
    <3>3. Pending(ph) # {}
      <4>1. ~NextMessage(p)
        BY <2>1, <3>2, NextMessageFacts
      <4> QED
        BY <4>1 DEF FindPending
    <3>4. rows[Oldest(ph)].phone = ph
      BY <3>1, <3>3, PendingFacts
    <3>5. ~GoTo(p, "save")
      BY <2>1, <3>2 DEF GoTo, PlacesOK
    <3>6. Msg(p).kind = "approve" /\ Hold(p, Oldest(ph), rows[Oldest(ph)])
      BY <3>3, <3>5 DEF FindPending
    <3>7. held'[p].row = rows[Oldest(ph)]
      BY <2>1, <3>6 DEF Hold, HeldOK
    <3> QED
      BY <2>2, <3>4, <3>6, <3>7
  <2>4. ~Opening(p)'
    BY <1>2, <2>2 DEF AskEffect, Opening
  <2>5. Loaded(p, t)
    BY <1>2, <2>1, <2>2, <2>3, <2>4 DEF AskEffect, Loaded
  <2>6. HeldFrom(p) /\ Others(p) /\ Table
    BY <1>2, <2>5 DEF AskEffect, HeldFrom
  <2> QED
    BY <2>1, <2>6, FromTable, FromOthers DEF Sources
<1> QED
  BY <1>1, <1>2, FindPendingHasEffect

LEMMA NumberSources ==
    ASSUME TableOK, QueuesOK, PlacesOK, HeldOK, CountersOK, NEW p \in Polls, NumberPending(p)
    PROVE  Sources
<1>1. PICK row \in Row : NumberEffect(p, row)
  BY NumberHasEffect
<1>2. p \in Workers /\ held'[p].row = row /\ at'[p] = "save"
  BY <1>1, WorkerFacts DEF NumberEffect, Put
<1>3. JustNumbered(p)
  BY <1>1, <1>2 DEF NumberEffect, JustNumbered, Opening
<1>4. HeldFrom(p) /\ Others(p) /\ Table
  BY <1>1, <1>3 DEF NumberEffect, HeldFrom
<1> QED
  BY <1>2, <1>4, FromTable, FromOthers DEF Sources

LEMMA FinishSources ==
    ASSUME TableOK, QueuesOK, PlacesOK, HeldOK, CountersOK, NEW p \in Polls, FindOpen(p)
    PROVE  Sources
<1>1. CASE QuietEffect
  BY <1>1, QuietSources
<1>2. ASSUME NEW t \in DOMAIN rows, NEW row \in Row, FinishEffect(p, t, row) PROVE Sources
  <2>1. p \in Workers /\ p \notin Requests /\ at[p] = "next"
    BY WorkerFacts DEF FindOpen, Handling
  <2>2. held'[p].id = t /\ held'[p].row = row /\ at'[p] = "save"
    BY <1>2 DEF FinishEffect, Put
  <2>3. Loaded(p, t)
    BY <1>2, <2>1, <2>2 DEF FinishEffect, Loaded, Opening
  <2>4. HeldFrom(p) /\ Others(p) /\ Table
    BY <1>2, <2>3 DEF FinishEffect, HeldFrom
  <2> QED
    BY <2>1, <2>4, FromTable, FromOthers DEF Sources
<1> QED
  BY <1>1, <1>2, FindOpenHasEffect

LEMMA EditSources ==
    ASSUME NEW d \in Requests, NEW t \in DOMAIN rows, NEW row \in Row, NEW place \in Places,
           EditEffect(d, t, row, place), t \in listed[rows[t].phone]
    PROVE  Sources
<1>1. d \in Workers /\ d \notin Polls
  BY WorkerFacts
<1>2. held'[d].id = t /\ held'[d].row = row
  BY DEF EditEffect, Put
<1>3. Loaded(d, t)
  BY <1>1, <1>2 DEF EditEffect, Loaded, Opening
<1>4. HeldFrom(d) /\ Others(d) /\ Table
  BY <1>3 DEF EditEffect, HeldFrom
<1> QED
  BY <1>1, <1>4, FromTable, FromOthers DEF Sources

LEMMA SaveSources ==
    ASSUME NEW w \in Workers, SaveEffect(w), w \in Polls => SaveTicket(w)
    PROVE  Sources
<1>1. Saving(w)
  BY DEF SaveEffect, Saving
<1>2. ~Holds(w)' /\ Others(w)
  BY DEF SaveEffect, Drop, Holds
<1>3. \A t \in DOMAIN rows' : RowFrom(t)
  BY <1>1 DEF SaveEffect, RowFrom
<1>4. \A ph \in Phones : ListedFrom(ph)
  BY <1>1 DEF SaveEffect, ListedFrom
<1> QED
  BY <1>2, <1>3, <1>4, FromOthers DEF Sources

LEMMA RemoveSources ==
    ASSUME NEW d \in Requests, RemoveEffect(d)
    PROVE  Sources
<1>1. ~Holds(d)' /\ Others(d) /\ d \in Workers
  BY WorkerFacts DEF RemoveEffect, Drop, Holds
<1>2. \A t \in DOMAIN rows' : RowFrom(t)
  BY DEF RemoveEffect, RowFrom
<1>3. \A ph \in Phones : ListedFrom(ph)
  BY DEF RemoveEffect, ListedFrom
<1> QED
  BY <1>1, <1>2, <1>3, FromOthers DEF Sources

LEMMA StepSources ==
    ASSUME TableOK, QueuesOK, PlacesOK, HeldOK, CountersOK, [Next]_vars
    PROVE  Sources
<1>1. ASSUME UNCHANGED vars PROVE QuietEffect
  BY <1>1 DEF vars, QuietEffect, Table, KeepOrDrop, HeldTyped, HeldOK
<1>2. \/ \E m \in Messages : Send(m)
      \/ Crash
      \/ \E p \in Polls : Receive(p) \/ handleFreeText(p) \/ CompleteOnly(p) \/ Throw(p) \/ NoAccount(p)
      \/ \E p \in Polls : createPending(p)
      \/ \E p \in Polls : FindPending(p)
      \/ \E p \in Polls : NumberPending(p)
      \/ \E p \in Polls : FindOpen(p)
      \/ \E p \in Polls : SaveTicket(p)
      \/ \E d \in Requests, t \in Ids, status \in {"open", "done"} : updateTicket(d, t, status)
      \/ \E d \in Requests, t \in Ids : deleteTicket(d, t)
      \/ \E d \in Requests : SaveUpdate(d)
      \/ \E d \in Requests : RemoveTicket(d)
      \/ UNCHANGED vars
  BY Zenon DEF Next
<1>3. ASSUME NEW d \in Requests, NEW t \in Ids, NEW status \in {"open", "done"},
          updateTicket(d, t, status)
      PROVE  Sources
  <2>1. t \in listed[rows[t].phone]
    BY <1>3 DEF updateTicket
  <2> QED
    BY <1>3, <2>1, UpdateHasEffect, EditSources
<1>4. ASSUME NEW d \in Requests, NEW t \in Ids, deleteTicket(d, t) PROVE Sources
  <2>1. t \in listed[rows[t].phone]
    BY <1>4 DEF deleteTicket
  <2> QED
    BY <1>4, <2>1, DeleteHasEffect, EditSources
<1>5. ASSUME NEW p \in Polls, SaveTicket(p) PROVE Sources
  BY <1>5, SaveHasEffect, SaveSources, WorkerFacts
<1>6. ASSUME NEW d \in Requests, SaveUpdate(d) PROVE Sources
  BY <1>6, SaveUpdateHasEffect, SaveSources, WorkerFacts
<1>7. ASSUME NEW d \in Requests, RemoveTicket(d) PROVE Sources
  BY <1>7, RemoveHasEffect, RemoveSources
<1>8. ASSUME NEW p \in Polls,
             createPending(p) \/ FindPending(p) \/ NumberPending(p) \/ FindOpen(p)
      PROVE  Sources
  BY <1>8, CreateSources, AskSources, NumberSources, FinishSources
<1>9. QuietEffect => Sources
  BY QuietSources
<1> QED
  BY <1>1, <1>2, <1>3, <1>4, <1>5, <1>6, <1>7, <1>8, <1>9, SendQuiet, CrashQuiet, ReceiveQuiet,
     FreeQuiet, OnlyQuiet, ThrowQuiet, NoAccountQuiet

-----------------------------------------------------------------------------
(* The invariant behind OnlyApproved, part by part                         *)

LEMMA SavingFacts ==
    ASSUME PlacesOK, HeldOK, NEW w \in Workers, Saving(w)
    PROVE  Holds(w) /\ held[w].row \in Row /\ held[w].id \in 1 .. created
BY HeldFacts DEF Saving, Holds

LEMMA OwnedKept ==
    ASSUME TableOK, PlacesOK, HeldOK, Owned, Sources
    PROVE  Owned'
<1>1. ASSUME NEW t \in DOMAIN rows' PROVE rows'[t].owner = OwnerOf[rows'[t].phone]
  <2>1. RowFrom(t)
    BY DEF Sources
  <2> QED
    BY <2>1, SavingFacts DEF RowFrom, Owned
<1>2. ASSUME NEW w \in Workers, Holds(w)'
      PROVE  held'[w].row.owner = OwnerOf[held'[w].row.phone]
  <2>1. CASE at'[w] = at[w] /\ held'[w] = held[w]
    BY <1>2, <2>1 DEF Owned, Holds
  <2>2. ASSUME NEW t \in DOMAIN rows, Loaded(w, t)
        PROVE  held'[w].row.owner = OwnerOf[held'[w].row.phone]
    BY <2>2 DEF Loaded, SameOwner, Owned
  <2>3. CASE JustNumbered(w)
    BY <2>3 DEF JustNumbered, Owned, Holds
  <2> QED
    BY <1>2, <2>1, <2>2, <2>3 DEF Sources, HeldFrom
<1> QED
  BY <1>1, <1>2 DEF Owned

LEMMA ApprovingKept ==
    ASSUME TableOK, QueuesOK, PlacesOK, HeldOK, Approving, Sources, [Next]_vars
    PROVE  Approving'
<1>1. ASSUME NEW p \in Polls, (at[p] = "number" \/ Opening(p))'
      PROVE  (Msg(p).kind = "approve" /\ Msg(p).phone = held[p].row.phone)'
  <2>1. p \in Workers /\ Holds(p)'
    BY <1>1, WorkerFacts DEF Opening, Holds
  <2>2. CASE at'[p] = at[p] /\ held'[p] = held[p]
    <3>1. at[p] = "number" \/ Opening(p)
      BY <1>1, <2>2 DEF Opening
    <3>2. Msg(p)' = Msg(p)
      BY <2>1, <3>1, BatchStays DEF Opening, Holds
    <3> QED
      BY <2>2, <3>1, <3>2 DEF Approving
  <2>3. ASSUME NEW t \in DOMAIN rows, Loaded(p, t)
        PROVE  (Msg(p).kind = "approve" /\ Msg(p).phone = held[p].row.phone)'
    <3>1. at[p] = "next" /\ at'[p] = "number"
      BY <1>1, <2>3 DEF Loaded
    <3>2. Msg(p)' = Msg(p)
      BY <2>1, <3>1, BatchStays
    <3> QED
      BY <2>3, <3>1, <3>2 DEF Loaded
  <2>4. CASE JustNumbered(p)
    <3>1. at[p] = "number"
      BY <2>4 DEF JustNumbered
    <3>2. Msg(p)' = Msg(p)
      BY <2>1, <3>1, BatchStays DEF Holds
    <3> QED
      BY <2>4, <3>1, <3>2 DEF JustNumbered, Approving
  <2> QED
    BY <2>1, <2>2, <2>3, <2>4 DEF Sources, HeldFrom
<1>2. ASSUME NEW d \in Requests, Holds(d)'
      PROVE  held'[d].id \in listed'[held'[d].row.phone]
  <2>1. d \in Workers /\ d \notin Polls
    BY WorkerFacts
  <2>2. \A ph \in Phones : listed[ph] \subseteq listed'[ph]
    BY DEF Sources, ListedFrom
  <2>3. CASE at'[d] = at[d] /\ held'[d] = held[d]
    <3>1. Holds(d) /\ held[d].row.phone \in Phones
      BY <1>2, <2>1, <2>3, HeldFacts DEF Holds, Row
    <3> QED
      BY <2>2, <2>3, <3>1 DEF Approving
  <2>4. ASSUME NEW t \in DOMAIN rows, Loaded(d, t)
        PROVE  held'[d].id \in listed'[held'[d].row.phone]
    <3>1. rows[t].phone \in Phones
      BY DEF TableOK, Row
    <3> QED
      BY <2>2, <2>4, <3>1 DEF Loaded, SameOwner
  <2> QED
    BY <1>2, <2>1, <2>3, <2>4 DEF Sources, HeldFrom, JustNumbered
<1> QED
  BY <1>1, <1>2 DEF Approving

LEMMA ListedFinite ==
    ASSUME TableOK, NEW ph \in Phones
    PROVE  IsFiniteSet(listed[ph]) /\ Cardinality(listed[ph]) \in Nat
<1>1. listed[ph] \subseteq 1 .. created /\ created \in Nat
  BY DEF TableOK
<1>2. IsFiniteSet(1 .. created)
  BY <1>1, FS_Interval
<1>3. IsFiniteSet(listed[ph])
  BY <1>1, <1>2, FS_Subset
<1> QED
  BY <1>3, FS_CardinalityType

\* A ticket is shown for the first time when the poll that opens it has used its approval.
LEMMA ShownPaidKept ==
    ASSUME TableOK, QueuesOK, PlacesOK, HeldOK, CountersOK, QueuesOK', CountersOK',
           Approving, ShownPaid, Sources, [Next]_vars
    PROVE  ShownPaid'
<1> SUFFICES ASSUME NEW ph \in Phones, NEW n \in Nat, Cardinality(listed'[ph]) = n
             PROVE  Paid(ph, n)'
  BY DEF ShownPaid
<1>1. IsFiniteSet(listed[ph]) /\ Cardinality(listed[ph]) \in Nat
  BY ListedFinite
<1>2. PICK k \in Nat : k = Cardinality(listed[ph])
  BY <1>1
<1>3. Paid(ph, k)
  BY <1>2 DEF ShownPaid
<1>4. CASE listed'[ph] = listed[ph]
  <2>1. Paid(ph, k)'
    BY <1>3, PaidStep
  <2>2. n = k
    BY <1>2, <1>4
  <2> QED
    BY <2>1, <2>2
<1>5. ASSUME NEW w \in Workers, Saving(w), held[w].row.status = "open", held[w].row.phone = ph,
             listed'[ph] = listed[ph] \cup {held[w].id}, listed'[ph] # listed[ph]
      PROVE  Paid(ph, n)'
  <2>1. Holds(w) /\ held[w].id \notin listed[ph]
    BY <1>5, SavingFacts
  <2>2. w \in Polls
    BY <1>5, <2>1 DEF Approving, Workers
  <2>3. SaveTicket(w) /\ Opening(w)
    BY <1>5, <2>2 DEF Saving, Opening
  <2>4. Msg(w).kind = "approve" /\ Msg(w).phone = ph
    BY <1>5, <2>2, <2>3 DEF Approving
  <2>5. Paid(ph, k + 1)'
    BY <1>3, <2>2, <2>3, <2>4, ApprovalUsed
  <2>6. Cardinality(listed[ph] \cup {held[w].id}) = k + 1
    BY <1>1, <1>2, <2>1, FS_AddElement
  <2>7. n = k + 1
    BY <1>5, <2>6
  <2> QED
    BY <2>5, <2>7
<1> QED
  BY <1>4, <1>5 DEF Sources, ListedFrom

LEMMA NextSeqSource ==
    ASSUME TableOK, NEW owner
    PROVE  nextSeq(owner) = 1
           \/ \E t \in DOMAIN rows : rows[t].owner = owner /\ nextSeq(owner) = rows[t].seq + 1
<1> DEFINE f == [i \in 1 .. created |-> IF i \in DOMAIN rows THEN rows[i].seq ELSE 0]
           T == {0} \cup {rows[t].seq : t \in {x \in DOMAIN rows : rows[x].owner = owner}}
<1>1. f \in [1 .. created -> Nat] /\ created \in Nat
  BY DEF TableOK, Row
<1>2. PICK b \in Nat : \A i \in 1 .. created : f[i] <= b
  BY <1>1, Bounded
<1>3. T \in SUBSET Nat /\ T # {}
  BY DEF TableOK, Row
<1>4. \A y \in T : y <= b
  <2>1. \A t \in DOMAIN rows : rows[t].seq <= b
    BY <1>2 DEF TableOK
  <2> QED
    BY <1>2, <2>1
<1>5. nextSeq(owner) = Max(T) + 1
  BY DEF nextSeq
<1>6. Max(T) \in T
  <2> HIDE DEF T, f
  <2> QED
    BY <1>2, <1>3, <1>4, MaxOfNats
<1>7. PICK y : y = Max(T) /\ y \in T
  BY <1>6
<1>8. y = 0 \/ \E t \in DOMAIN rows : rows[t].owner = owner /\ y = rows[t].seq
  BY <1>7
<1> QED
  BY <1>5, <1>7, <1>8

\* A number is one more than a number that has been paid for, and the approval that the
\* poll handles pays for it when the ticket is saved.
LEMMA NumbersPaidKept ==
    ASSUME TableOK, QueuesOK, PlacesOK, HeldOK, CountersOK, QueuesOK', CountersOK',
           Owned, Approving, NumbersPaid, Sources, [Next]_vars
    PROVE  NumbersPaid'
<1> SUFFICES ASSUME NEW o \in Owners
             PROVE  /\ Within(o, 0, 0)'
                    /\ \A k \in Nat :
                          /\ \A t \in DOMAIN rows' : Carries(rows'[t], o, k) => Within(o, k, 0)'
                          /\ \A w \in Workers : Holds(w)' /\ Carries(held'[w].row, o, k) =>
                                IF Opening(w)' THEN Within(o, k, 1)' ELSE Within(o, k, 0)'
  BY DEF NumbersPaid, Carries
<1>1. Within(o, 0, 0) /\ Within(o, 0, 0)'
  <2>1. Within(o, 0, 0)
    BY DEF NumbersPaid
  <2> QED
    BY <2>1, WithinStep
<1>2. ASSUME NEW k \in Nat, NEW t \in DOMAIN rows, Carries(rows[t], o, k)
      PROVE  Within(o, k, 0) /\ Within(o, k, 0)'
  <2>1. Within(o, k, 0)
    BY <1>2 DEF NumbersPaid
  <2> QED
    BY <2>1, WithinStep
<1>3. ASSUME NEW k \in Nat, NEW w \in Workers, Holds(w), Carries(held[w].row, o, k)
      PROVE  IF Opening(w) THEN Within(o, k, 1)' ELSE Within(o, k, 0)'
  <2>1. IF Opening(w) THEN Within(o, k, 1) ELSE Within(o, k, 0)
    BY <1>3 DEF NumbersPaid
  <2> QED
    BY <2>1, WithinStep
<1>4. ASSUME NEW k \in Nat, NEW t \in DOMAIN rows', Carries(rows'[t], o, k)
      PROVE  Within(o, k, 0)'
  <2>1. CASE t \in DOMAIN rows /\ rows'[t] = rows[t]
    BY <1>2, <1>4, <2>1
  <2>2. CASE rows'[t].seq = 0
    BY <1>1, <1>4, <2>2 DEF Carries
  <2>3. ASSUME NEW w \in Workers, Saving(w), rows'[t] = held[w].row
        PROVE  Within(o, k, 0)'
    <3>1. Holds(w) /\ held[w].row \in Row /\ Carries(held[w].row, o, k)
      BY <1>4, <2>3, SavingFacts
    <3>2. CASE ~Opening(w)
      BY <1>3, <3>1, <3>2
    <3>3. CASE Opening(w)
      <4>1. w \in Polls /\ SaveTicket(w)
        BY <2>3, <3>3 DEF Opening, Saving
      <4>2. PICK ph \in Phones : ph = held[w].row.phone
        BY <3>1 DEF Row
      <4>3. Msg(w).kind = "approve" /\ Msg(w).phone = ph
        BY <3>3, <4>1, <4>2 DEF Approving
      <4>4. OwnerOf[ph] = o
        BY <3>1, <4>2 DEF Owned, Carries
      <4>5. Within(OwnerOf[ph], k, 1)
        BY <3>1, <3>3, <4>4 DEF NumbersPaid
      <4>6. Within(OwnerOf[ph], k, 0)'
        BY <4>1, <4>3, <4>5, ApprovalUsed
      <4> QED
        BY <4>4, <4>6
    <3> QED
      BY <3>2, <3>3
  <2> QED
    BY <2>1, <2>2, <2>3 DEF Sources, RowFrom
<1>5. ASSUME NEW k \in Nat, NEW w \in Workers, Holds(w)', Carries(held'[w].row, o, k)
      PROVE  IF Opening(w)' THEN Within(o, k, 1)' ELSE Within(o, k, 0)'
  <2>1. CASE at'[w] = at[w] /\ held'[w] = held[w]
    <3>1. Holds(w) /\ Carries(held[w].row, o, k) /\ (Opening(w)' <=> Opening(w))
      BY <1>5, <2>1 DEF Holds, Opening
    <3> QED
      BY <1>3, <3>1
  <2>2. ASSUME NEW t \in DOMAIN rows, Loaded(w, t)
        PROVE  Within(o, k, 0)' /\ ~Opening(w)'
    <3>1. Carries(rows[t], o, k) /\ ~Opening(w)'
      BY <1>5, <2>2 DEF Loaded, SameOwner, Carries
    <3> QED
      BY <1>2, <3>1
  <2>3. CASE JustNumbered(w)
    <3>1. Opening(w)' /\ nextSeq(o) = k
      BY <1>5, <2>3 DEF JustNumbered, Carries
    <3>2. PICK n \in Nat : k = n + 1 /\ Within(o, n, 0)
      <4>1. CASE k = 1
        BY <1>1, <4>1
      <4>2. ASSUME NEW t \in DOMAIN rows, rows[t].owner = o, k = rows[t].seq + 1
            PROVE  \E n \in Nat : k = n + 1 /\ Within(o, n, 0)
        <5>1. rows[t].seq \in Nat /\ Carries(rows[t], o, rows[t].seq)
          BY <4>2 DEF TableOK, Row, Carries
        <5> QED
          BY <1>2, <4>2, <5>1
      <4> QED
        BY <3>1, <4>1, <4>2, NextSeqSource
    <3>3. Within(o, n + 1, 1)
      <4>1. Ahead(ByOwner(o)) \in Nat /\ ApprovalsOf(o) \in Nat
        BY AheadIsNat, ApprovalsNat
      <4>2. n + Ahead(ByOwner(o)) <= ApprovalsOf(o) + 0
        BY <3>2 DEF Within
      <4>3. (n + 1) + Ahead(ByOwner(o)) <= ApprovalsOf(o) + 1
        BY <4>1, <4>2
      <4> QED
        BY <4>3 DEF Within
    <3>4. Within(o, k, 1)'
      BY <3>2, <3>3, WithinStep
    <3> QED
      BY <3>1, <3>4
  <2> QED
    BY <1>5, <2>1, <2>2, <2>3 DEF Sources, HeldFrom
<1> QED
  BY <1>1, <1>4, <1>5

ApprovedInv == Owned /\ Approving /\ ShownPaid /\ NumbersPaid

LEMMA NothingApproved == Init => ApprovedInv
<1> SUFFICES ASSUME Init PROVE ApprovedInv
  OBVIOUS
<1>1. DOMAIN rows = {} /\ \A w \in Workers : at[w] = "idle"
  BY DEF Init
<1>2. Owned /\ Approving
  BY <1>1, WorkerFacts DEF Owned, Approving, Holds, Opening
<1>3. \A V : Ahead(V) = 0
  <2>1. inbox = <<>> /\ \A p \in Polls : batch[p] = <<>>
    BY DEF Init
  <2>2. \A V : Occurs(inbox, V) = 0
    BY <2>1, OccursInEmpty
  <2>3. \A V : InBatches(batch, Polls, V) = 0
    BY <2>1, InBatchesNone, TicketAssumption
  <2> QED
    BY <2>2, <2>3 DEF Ahead
<1>4. ShownPaid
  <2>1. \A ph \in Phones : Cardinality(listed[ph]) = 0 /\ answers[ph] = 0
    BY FS_EmptySet DEF Init
  <2> QED
    BY <1>3, <2>1 DEF ShownPaid, Paid
<1>5. NumbersPaid
  <2>1. ASSUME NEW o \in Owners PROVE Within(o, 0, 0)
    <3>1. IsFiniteSet(OwnPhones(o)) /\ \A ph \in OwnPhones(o) : answers[ph] = 0
      BY TicketAssumption, FS_Subset DEF Init, OwnPhones
    <3>2. ApprovalsOf(o) = 0
      BY <3>1, TotalOfZeros, ApprovalsTotal
    <3> QED
      BY <1>3, <3>2 DEF Within
  <2> QED
    BY <1>1, <2>1 DEF NumbersPaid, Holds
<1> QED
  BY <1>2, <1>4, <1>5 DEF ApprovedInv

\* Whatever polls and requests overlap, fail or are dropped, a phone has no more tickets
\* shown than it sent approvals, and a user's numbers never run ahead of that user's
\* approvals: each approval pays for one ticket and one number, and is used once.
THEOREM ApprovedOnly == Spec => []OnlyApproved
<1>1. TicketInv /\ ApprovedInv /\ [Next]_vars => ApprovedInv'
  <2> SUFFICES ASSUME TicketInv, ApprovedInv, [Next]_vars PROVE ApprovedInv'
    OBVIOUS
  <2>1. TableOK /\ QueuesOK /\ PlacesOK /\ HeldOK /\ CountersOK
    BY TypeParts DEF TicketInv
  <2>2. QueuesOK' /\ CountersOK'
    BY <2>1, QueuesTyped, CountersTyped
  <2>3. Sources
    BY <2>1, StepSources
  <2> QED
    BY <2>1, <2>2, <2>3, OwnedKept, ApprovingKept, ShownPaidKept, NumbersPaidKept DEF ApprovedInv
<1>2. TicketInv /\ ApprovedInv => OnlyApproved
  <2> SUFFICES ASSUME TicketInv, ApprovedInv PROVE OnlyApproved
    OBVIOUS
  <2>1. TableOK /\ QueuesOK /\ CountersOK
    BY TypeParts DEF TicketInv
  <2>2. ASSUME NEW ph \in Phones PROVE Cardinality(listed[ph]) <= answers[ph]
    <3>1. answers[ph] \in Nat
      BY <2>1 DEF CountersOK
    <3>2. Cardinality(listed[ph]) \in Nat
      BY <2>1, ListedFinite
    <3>3. Ahead(ByPhone(ph)) \in Nat
      BY <2>1, AheadIsNat
    <3>4. Cardinality(listed[ph]) + Ahead(ByPhone(ph)) <= answers[ph]
      BY <3>2 DEF ApprovedInv, ShownPaid, Paid
    <3> QED
      BY <3>1, <3>2, <3>3, <3>4
  <2>3. ASSUME NEW t \in DOMAIN rows PROVE rows[t].seq <= ApprovalsOf(rows[t].owner)
    <3>1. PICK o \in Owners, k \in Nat : Carries(rows[t], o, k)
      BY <2>1 DEF TableOK, Row, Carries
    <3>2. k + Ahead(ByOwner(o)) <= ApprovalsOf(o) + 0
      BY <3>1 DEF ApprovedInv, NumbersPaid, Within
    <3>3. Ahead(ByOwner(o)) \in Nat /\ ApprovalsOf(o) \in Nat
      BY <2>1, AheadIsNat, ApprovalsNat
    <3>4. k <= ApprovalsOf(o)
      BY <3>2, <3>3
    <3> QED
      BY <3>1, <3>4 DEF Carries
  <2> QED
    BY <2>2, <2>3 DEF OnlyApproved
<1> QED
  BY <1>1, <1>2, NothingApproved, Invariance, PTL DEF Spec

=============================================================================
