--------------------------- MODULE SignalTickets ---------------------------
(***************************************************************************)
(* Tickets made and confirmed by Signal messages (TicketsService, and the  *)
(* ticket part of DocumentsService.pollSignal), beside the dashboard's     *)
(* PATCH and DELETE of the same rows.                                      *)
(*                                                                         *)
(* pollSignal runs every five seconds whether or not the previous one has  *)
(* ended, so Polls are concurrent activations of it. An action is what one *)
(* activation does up to its next database call or remote call. A row is   *)
(* loaded, changed in memory and saved as a whole, and saving a row that   *)
(* was deleted inserts it again.                                           *)
(***************************************************************************)
EXTENDS Naturals, FiniteSets, Sequences, FiniteSetsExt, TLC

CONSTANTS
    Phones,        \* phone numbers that send Signal messages
    Owners,        \* portal users
    OwnerOf,       \* the user findUserByPhone finds for a phone
    Polls,         \* concurrent activations of pollSignal
    Requests,      \* concurrent dashboard requests
    Messages,      \* the messages users send
    MaxMessages,   \* bound: how many they send over the whole behaviour
    MaxInbox,      \* bound: how many wait in signal-api at a time
    MaxFaults,     \* bound: crashes and failed calls
    MaxRequests    \* bound: dashboard requests

\* "text" is a message without a command, which the language model interprets;
\* "only" is its reading "the task is done" without a number.
Kinds == {"task", "approve", "cancel", "done", "text", "only"}
Message == [phone : Phones, kind : Kinds, seq : Nat]

ASSUME TicketAssumption ==
    /\ OwnerOf \in [Phones -> Owners]
    /\ Polls \cap Requests = {}
    /\ Messages \subseteq Message
    /\ IsFiniteSet(Phones) /\ IsFiniteSet(Polls)
    /\ MaxMessages \in Nat /\ MaxInbox \in Nat /\ MaxFaults \in Nat /\ MaxRequests \in Nat

Workers == Polls \cup Requests

\* Rows are numbered in the order of their createdAt.
Ids == 1 .. MaxMessages
Status == {"pending_confirm", "open", "done", "cancelled"}
Row == [owner : Owners, phone : Phones, seq : Nat, status : Status]

Numbers == 1 .. MaxMessages

NoRow == [id |-> 0]

VARIABLES
    rows,      \* the table signal_tickets: a function from ids to rows
    created,   \* rows inserted so far
    inbox,     \* messages waiting in signal-api
    batch,     \* the messages a poll received and has not handled yet
    at,        \* where each worker is
    held,      \* the row a worker loaded and changed, with its id
    listed,    \* per phone, the ids the dashboard has shown: those ever open
    answers,   \* per phone, the approvals sent so far
    sent,      \* messages sent so far
    faults,    \* crashes and failed calls so far
    asked      \* dashboard requests so far

vars == <<rows, created, inbox, batch, at, held, listed, answers, sent, faults, asked>>

-----------------------------------------------------------------------------
(* Reading the table                                                       *)

\* Fault: the status is not asked for.
Pending_AnyStatus(ph) == {t \in DOMAIN rows : rows[t].phone = ph}

Pending(ph) ==
    {t \in DOMAIN rows : rows[t].phone = ph /\ rows[t].status = "pending_confirm"}

OpenOf(o) == {t \in DOMAIN rows : rows[t].owner = o /\ rows[t].status = "open"}

\* Fault: the numbers of one user are found again among the open rows only.
nextSeq_OpenOnly(o) == Max({0} \cup {rows[t].seq : t \in OpenOf(o)}) + 1

nextSeq(o) == Max({0} \cup {rows[t].seq : t \in {u \in DOMAIN rows : rows[u].owner = o}}) + 1

-----------------------------------------------------------------------------
(* Steps a worker takes                                                    *)

GoTo(w, place) == at' = [at EXCEPT ![w] = place]

\* Holds row t with the fields the code has assigned to it.
Hold(w, t, row) == held' = [held EXCEPT ![w] = [id |-> t, row |-> row]]
Release(w) == held' = [held EXCEPT ![w] = NoRow]

\* Fault: the poll returns after the first message it handles.
NextMessage_Return(p) ==
    /\ batch' = [batch EXCEPT ![p] = <<>>]
    /\ GoTo(p, "idle")

\* The for loop of pollSignal goes on with the next message.
NextMessage(p) ==
    /\ batch' = [batch EXCEPT ![p] = Tail(@)]
    /\ GoTo(p, IF Len(batch[p]) = 1 THEN "idle" ELSE "next")

\* Fault: a failure leaves the message to be handled again.
Abort_Retries(p) ==
    /\ GoTo(p, "next")
    /\ UNCHANGED batch

\* Fault: the batch is still there when the poll has ended.
Abort_KeepsBatch(p) ==
    /\ GoTo(p, "idle")
    /\ UNCHANGED batch

\* An exception leaves the loop: the rest of the batch is dropped.
Abort(p) ==
    /\ batch' = [batch EXCEPT ![p] = <<>>]
    /\ GoTo(p, "idle")

MayFail == faults < MaxFaults

\* The message a poll is handling.
Msg(p) == Head(batch[p])
Handling(p, kinds) == at[p] = "next" /\ Msg(p).kind \in kinds

\* repo.save of an entity: every column is written, and a row that is gone is
\* inserted again.
saveRow(w) ==
    /\ rows' = [t \in DOMAIN rows \cup {held[w].id} |->
                   IF t = held[w].id THEN held[w].row ELSE rows[t]]
    /\ listed' = IF held[w].row.status = "open"
                 THEN [listed EXCEPT ![held[w].row.phone] = @ \cup {held[w].id}]
                 ELSE listed

TableUnchanged == UNCHANGED <<rows, created, listed>>
WorldUnchanged == UNCHANGED <<inbox, answers, sent, asked>>

-----------------------------------------------------------------------------
Init ==
    /\ rows = <<>>
    /\ created = 0
    /\ inbox = <<>>
    /\ batch = [p \in Polls |-> <<>>]
    /\ at = [w \in Workers |-> "idle"]
    /\ held = [w \in Workers |-> NoRow]
    /\ listed = [ph \in Phones |-> {}]
    /\ answers = [ph \in Phones |-> 0]
    /\ sent = 0 /\ faults = 0 /\ asked = 0

-----------------------------------------------------------------------------
(* The world outside                                                       *)

\* A user sends a message; signal-api keeps it until somebody receives it.
Send(m) ==
    /\ sent < MaxMessages
    /\ Len(inbox) < MaxInbox
    /\ sent' = sent + 1
    /\ inbox' = Append(inbox, m)
    /\ answers' = IF m.kind = "approve" THEN [answers EXCEPT ![m.phone] = @ + 1] ELSE answers
    /\ UNCHANGED <<rows, created, batch, at, held, listed, faults, asked>>

\* The API process dies and starts again: received messages are lost.
Crash ==
    /\ MayFail
    /\ faults' = faults + 1
    /\ batch' = [p \in Polls |-> <<>>]
    /\ at' = [w \in Workers |-> "idle"]
    /\ held' = [w \in Workers |-> NoRow]
    /\ TableUnchanged
    /\ WorldUnchanged

-----------------------------------------------------------------------------
(* pollSignal                                                              *)

\* GET /v1/receive empties signal-api.
Receive(p) ==
    /\ at[p] = "idle"
    /\ inbox # <<>>
    /\ batch' = [batch EXCEPT ![p] = inbox]
    /\ inbox' = <<>>
    /\ GoTo(p, "next")
    /\ UNCHANGED <<rows, created, held, listed, answers, sent, faults, asked>>

\* A call throws while a message is handled.
Throw(p) ==
    /\ at[p] # "idle"
    /\ MayFail
    /\ faults' = faults + 1
    /\ Abort(p)
    /\ Release(p)
    /\ TableUnchanged
    /\ WorldUnchanged

\* findUserByPhone fails: the sender is told there is no account.
NoAccount(p) ==
    /\ Handling(p, {"task", "done", "only"})
    /\ MayFail
    /\ faults' = faults + 1
    /\ NextMessage(p)
    /\ UNCHANGED held
    /\ TableUnchanged
    /\ WorldUnchanged

\* handleFreeText: the model reads a message as a command or as neither.
handleFreeText(p) ==
    /\ Handling(p, {"text"})
    /\ \/ /\ \/ \E kind \in {"task", "only"} : batch' = [batch EXCEPT ![p][1] = [@ EXCEPT !.kind = kind]]
             \/ \E n \in Numbers :
                   batch' = [batch EXCEPT ![p][1] = [@ EXCEPT !.kind = "done", !.seq = n]]
          /\ UNCHANGED at
       \/ NextMessage(p)
    /\ UNCHANGED <<held, faults>>
    /\ TableUnchanged
    /\ WorldUnchanged

\* complete_task without a number: the only open ticket, if there is just one.
CompleteOnly(p) ==
    /\ Handling(p, {"only"})
    /\ LET open == OpenOf(OwnerOf[Msg(p).phone])
       IN  IF Cardinality(open) = 1
           THEN /\ LET seq == rows[CHOOSE t \in open : TRUE].seq
                   IN  batch' = [batch EXCEPT ![p][1] = [@ EXCEPT !.kind = "done", !.seq = seq]]
                /\ UNCHANGED at
           ELSE NextMessage(p)
    /\ UNCHANGED <<held, faults>>
    /\ TableUnchanged
    /\ WorldUnchanged

createPending(p) ==
    /\ Handling(p, {"task"})
    /\ created' = created + 1
    /\ LET new == [owner |-> OwnerOf[Msg(p).phone], phone |-> Msg(p).phone,
                   seq |-> 0, status |-> "pending_confirm"]
       IN  rows' = [t \in DOMAIN rows \cup {created'} |-> IF t = created' THEN new ELSE rows[t]]
    /\ NextMessage(p)
    /\ UNCHANGED <<held, listed, faults>>
    /\ WorldUnchanged

\* Fault: the newest pending ticket is taken.
Oldest_Newest(ph) == Max(Pending(ph))

Oldest(ph) == Min(Pending(ph))

\* confirmPending and cancelPending load the oldest pending ticket of the phone.
FindPending(p) ==
    /\ Handling(p, {"approve", "cancel"})
    /\ LET ph == Msg(p).phone
       IN  IF Pending(ph) = {}
           THEN NextMessage(p) /\ UNCHANGED held
           ELSE /\ IF Msg(p).kind = "approve"
                   THEN GoTo(p, "number") /\ Hold(p, Oldest(ph), rows[Oldest(ph)])
                   ELSE /\ GoTo(p, "save")
                        /\ Hold(p, Oldest(ph), [rows[Oldest(ph)] EXCEPT !.status = "cancelled"])
                /\ UNCHANGED batch
    /\ UNCHANGED faults
    /\ TableUnchanged
    /\ WorldUnchanged

\* confirmPending gives the ticket the user's next number.
NumberPending(p) ==
    /\ at[p] = "number"
    /\ Hold(p, held[p].id,
            [held[p].row EXCEPT !.seq = nextSeq(held[p].row.owner), !.status = "open"])
    /\ GoTo(p, "save")
    /\ UNCHANGED <<batch, faults>>
    /\ TableUnchanged
    /\ WorldUnchanged

\* markDone loads an open ticket of the sender with that number.
FindOpen(p) ==
    /\ Handling(p, {"done"})
    /\ LET found == {t \in OpenOf(OwnerOf[Msg(p).phone]) : rows[t].seq = Msg(p).seq}
       IN  IF found = {}
           THEN NextMessage(p) /\ UNCHANGED held
           ELSE /\ \E t \in found : Hold(p, t, [rows[t] EXCEPT !.status = "done"])
                /\ GoTo(p, "save")
                /\ UNCHANGED batch
    /\ UNCHANGED faults
    /\ TableUnchanged
    /\ WorldUnchanged

\* repo.save, then the audit entry, whose failure leaves the loop although the
\* ticket is saved.
SaveTicket(p) ==
    /\ at[p] = "save"
    /\ saveRow(p)
    /\ Release(p)
    /\ \/ NextMessage(p) /\ UNCHANGED faults
       \/ MayFail /\ faults' = faults + 1 /\ Abort(p)
    /\ UNCHANGED created
    /\ WorldUnchanged

-----------------------------------------------------------------------------
(* The dashboard                                                           *)

\* PATCH and DELETE /users/me/tickets/:id load a ticket the page has shown.
updateTicket(d, t, status) ==
    /\ at[d] = "idle"
    /\ asked < MaxRequests
    /\ t \in DOMAIN rows /\ t \in listed[rows[t].phone]
    /\ asked' = asked + 1
    /\ Hold(d, t, [rows[t] EXCEPT !.status = status])
    /\ GoTo(d, "save")
    /\ UNCHANGED <<batch, inbox, answers, sent, faults>>
    /\ TableUnchanged

deleteTicket(d, t) ==
    /\ at[d] = "idle"
    /\ asked < MaxRequests
    /\ t \in DOMAIN rows /\ t \in listed[rows[t].phone]
    /\ asked' = asked + 1
    /\ Hold(d, t, rows[t])
    /\ GoTo(d, "remove")
    /\ UNCHANGED <<batch, inbox, answers, sent, faults>>
    /\ TableUnchanged

SaveUpdate(d) ==
    /\ at[d] = "save"
    /\ saveRow(d)
    /\ Release(d)
    /\ GoTo(d, "idle")
    /\ UNCHANGED <<batch, created, faults>>
    /\ WorldUnchanged

RemoveTicket(d) ==
    /\ at[d] = "remove"
    /\ rows' = [t \in DOMAIN rows \ {held[d].id} |-> rows[t]]
    /\ Release(d)
    /\ GoTo(d, "idle")
    /\ UNCHANGED <<batch, created, listed, faults>>
    /\ WorldUnchanged

-----------------------------------------------------------------------------
\* What a poll does unless a call fails.
PollStep(p) ==
    \/ Receive(p)
    \/ handleFreeText(p)
    \/ CompleteOnly(p)
    \/ createPending(p)
    \/ FindPending(p)
    \/ NumberPending(p)
    \/ FindOpen(p)
    \/ SaveTicket(p)

Next ==
    \/ \E m \in Messages : Send(m)
    \/ Crash
    \/ \E p \in Polls : Receive(p)
    \/ \E p \in Polls : handleFreeText(p)
    \/ \E p \in Polls : CompleteOnly(p)
    \/ \E p \in Polls : createPending(p)
    \/ \E p \in Polls : FindPending(p)
    \/ \E p \in Polls : NumberPending(p)
    \/ \E p \in Polls : FindOpen(p)
    \/ \E p \in Polls : SaveTicket(p)
    \/ \E p \in Polls : Throw(p)
    \/ \E p \in Polls : NoAccount(p)
    \/ \E d \in Requests, t \in Ids, status \in {"open", "done"} : updateTicket(d, t, status)
    \/ \E d \in Requests, t \in Ids : deleteTicket(d, t)
    \/ \E d \in Requests : SaveUpdate(d)
    \/ \E d \in Requests : RemoveTicket(d)

Spec == Init /\ [][Next]_vars

\* The timer keeps polling, and a call of a poll returns or throws.
FairSpec == Spec /\ \A p \in Polls : WF_vars(PollStep(p))

-----------------------------------------------------------------------------
(* Properties                                                              *)

Places == {"idle", "next", "number", "save", "remove"}

TypeOK ==
    /\ created \in Nat
    /\ DOMAIN rows \subseteq 1 .. created
    /\ \A t \in DOMAIN rows : rows[t] \in Row
    /\ inbox \in Seq(Message)
    /\ batch \in [Polls -> Seq(Message)]
    /\ at \in [Workers -> Places]
    /\ \A p \in Polls : at[p] = "idle" <=> batch[p] = <<>>
    /\ held \in [Workers -> {NoRow} \cup [id : 1 .. created, row : Row]]
    /\ \A w \in Workers : at[w] \in {"idle", "next"} <=> held[w] = NoRow
    /\ listed \in [Phones -> SUBSET (1 .. created)]
    /\ answers \in [Phones -> Nat]
    /\ sent \in Nat /\ faults \in Nat /\ asked \in Nat

ApprovalsOf(o) == MapThenSumSet(LAMBDA ph : answers[ph], {ph \in Phones : OwnerOf[ph] = o})

\* No ticket is opened without a confirmation of its own, and a user's numbers never
\* run ahead of that user's confirmations: one approval opens at most one ticket and
\* uses at most one number, whatever overlaps, fails or is retried.
OnlyApproved ==
    /\ \A ph \in Phones : Cardinality(listed[ph]) <= answers[ph]
    /\ \A t \in DOMAIN rows : rows[t].seq <= ApprovalsOf(rows[t].owner)

\* docs/superpowers/specs/2026-05-24-signal-tickets-design.md:41, "Per-user
\* sequential number (1, 2, 3 ...) for `/klaar 3`": the number names one ticket.
NumbersIdentify ==
    \A t, u \in DOMAIN rows :
        /\ rows[t].owner = rows[u].owner
        /\ rows[t].status = "open" /\ rows[u].status = "open"
        /\ rows[t].seq = rows[u].seq
        => t = u

\* An answer settles the oldest question of its phone: no ticket leaves
\* pending_confirm before an older one.
OldestFirst ==
    [][\A t \in DOMAIN rows \cap DOMAIN rows' :
         (rows[t].status = "pending_confirm" /\ rows'[t].status # "pending_confirm")
            => \A u \in Pending(rows[t].phone) : t <= u]_vars

\* Answers of a phone that are waiting or being handled.
Waiting(ph) ==
    LET Answer(m) == m.phone = ph /\ m.kind \in {"approve", "cancel"}
    IN  Cardinality({i \in 1 .. Len(inbox) : Answer(inbox[i])})
        + MapThenSumSet(LAMBDA p : Cardinality({i \in 1 .. Len(batch[p]) : Answer(batch[p][i])}),
                        Polls)

\* A pending ticket with an answer for it and for every older one of its phone
\* is settled, unless something fails on the way.
AnswerSettles ==
    \A t \in Ids :
        (/\ t \in DOMAIN rows
         /\ rows[t].status = "pending_confirm"
         /\ Waiting(rows[t].phone) >= Cardinality(Pending(rows[t].phone) \cap 1 .. t))
        ~> \/ t \in DOMAIN rows /\ rows[t].status # "pending_confirm"
           \/ t \notin DOMAIN rows
           \/ faults > 0

\* What a ticket's life is to a user: see TicketLifecycle.
StatusOf(t) ==
    IF t \in DOMAIN rows THEN rows[t].status
    ELSE IF t <= created THEN "deleted" ELSE "none"

Life == INSTANCE TicketLifecycle WITH status <- [t \in Ids |-> StatusOf(t)]
Lifecycle == Life!Spec
=============================================================================
