--------------------------- MODULE SignalDelivery ---------------------------
(***************************************************************************)
(* How a Signal message reaches whoever handles it. Two programs empty the *)
(* same queue of signal-api: pollSignal of the API, and the consumer       *)
(* script, which stores attachments and notes in Paperless and forwards    *)
(* commands to the API. Two kinds of Redis keys join them: a forwarded     *)
(* command waits under signal:pending:<millisecond>, and a message being   *)
(* uploaded is marked by signal:processed:<its timestamp>.                 *)
(*                                                                         *)
(* pollSignal is started every five seconds whether or not the last one    *)
(* has ended: Polls are concurrent activations. What the API does with a   *)
(* message is one step here; SignalTickets and DocSummary have the details.*)
(***************************************************************************)
EXTENDS Naturals, FiniteSets, Sequences, TLC

CONSTANTS
    Msgs,          \* the messages users may send, each at most once
    KindOf,        \* the kind of each message
    SenderOf,      \* its sender
    FilesOf,       \* how many uploads it asks for
    Polls,         \* concurrent activations of pollSignal
    MaxTime,       \* bound: milliseconds
    MaxSent,       \* bound: messages sent
    MaxFaults      \* bound: crashes, failed calls and expired keys

\* "sync" is a message a user sent from a second device: its envelope has a
\* syncMessage and no dataMessage. An approval is a text or a reaction, and a file
\* is sent without a text.
Kinds == {"command", "help", "approval", "text", "file", "note", "sync"}

Times == 1 .. MaxTime

ASSUME DeliveryAssumption ==
    /\ KindOf \in [Msgs -> Kinds]
    /\ FilesOf \in [Msgs -> Nat \ {0}]
    /\ DOMAIN SenderOf = Msgs
    /\ IsFiniteSet(Polls) /\ "consumer" \notin Polls
    /\ MaxTime \in Nat \ {0} /\ MaxSent \in Nat /\ MaxFaults \in Nat

Consumer == "consumer"
Readers == Polls \cup {Consumer}

\* A message in an envelope with its timestamp.
Envelope == [msg : Msgs, time : Times]

VARIABLES
    secret,    \* whether the consumer was given the API's INTERNAL_API_SECRET
    inbox,     \* envelopes waiting in signal-api
    pending,   \* signal:pending:*, a function from milliseconds to messages
    processed, \* signal:processed:*, a set of timestamps
    at,        \* where each reader is
    batch,     \* the envelopes each reader has received and not handled
    keys,      \* the pending keys each poll has listed and not drained
    key,       \* the pending key each poll has read and not deleted, or 0
    left,      \* uploads the consumer has still to attempt
    now,       \* the API's clock
    acted,     \* how often the API acted upon each message
    stored,    \* how many documents Paperless has of each message
    told,      \* messages whose sender was told that they are stored
    sentAt,    \* the timestamp a message was sent with, or 0
    parkedAt,  \* the key it was parked under, or 0
    faults     \* crashes, failed calls and expired keys so far

consumerVars == <<secret, left, processed, stored, told>>
pollVars == <<keys, key>>
parkVars == <<pending, now, parkedAt>>
vars == <<secret, inbox, pending, processed, at, batch, keys, key, left, now, acted, stored,
          told, sentAt, parkedAt, faults>>

-----------------------------------------------------------------------------
(* Helpers                                                                 *)

Sent == {m \in Msgs : sentAt[m] # 0}

\* The timestamp a message goes by: parking it replaces the sender's.
Stamp(m) == IF parkedAt[m] = 0 THEN sentAt[m] ELSE parkedAt[m]
Collision(m) == \E n \in Sent \ {m} : Stamp(n) = Stamp(m)

GoTo(r, place) == at' = [at EXCEPT ![r] = place]
Current(r) == Head(batch[r])
Handling(r, kinds) == at[r] = "next" /\ KindOf[Current(r).msg] \in kinds

Fault ==
    /\ faults < MaxFaults
    /\ faults' = faults + 1

\* Fault: the loop ends with the first message.
NextMessage_Return(r) ==
    /\ batch' = [batch EXCEPT ![r] = <<>>]
    /\ GoTo(r, "idle")

\* The for loop of a reader goes on with the next message.
NextMessage(r) ==
    /\ batch' = [batch EXCEPT ![r] = Tail(@)]
    /\ GoTo(r, IF Len(batch[r]) = 1 THEN "idle" ELSE "next")

\* Fault: the batch outlives the loop.
Abort_KeepsBatch(r) ==
    /\ GoTo(r, "idle")
    /\ UNCHANGED batch

\* An exception leaves the loop: signal-api has forgotten the rest.
Abort(r) ==
    /\ batch' = [batch EXCEPT ![r] = <<>>]
    /\ GoTo(r, "idle")

IsProcessed(time) == time \in processed

\* The API acts on commands and texts, and passes over a bare attachment.
ActsOn(m) == KindOf[m] # "file"

-----------------------------------------------------------------------------
\* A deployment may give the consumer the secret; docker-compose.yml gives it none.
Init ==
    /\ secret \in BOOLEAN
    /\ inbox = <<>> /\ pending = <<>> /\ processed = {}
    /\ at = [r \in Readers |-> "idle"]
    /\ batch = [r \in Readers |-> <<>>]
    /\ keys = [p \in Polls |-> {}]
    /\ key = [p \in Polls |-> 0]
    /\ left = 0 /\ now = 1 /\ faults = 0
    /\ acted = [m \in Msgs |-> 0]
    /\ stored = [m \in Msgs |-> 0]
    /\ told = {}
    /\ sentAt = [m \in Msgs |-> 0]
    /\ parkedAt = [m \in Msgs |-> 0]

-----------------------------------------------------------------------------
(* The world outside                                                       *)

\* The timestamp is the clock of the sender's device, on which no two messages
\* share one.
Send(m, time) ==
    /\ m \notin Sent
    /\ Cardinality(Sent) < MaxSent
    /\ \A n \in Sent : SenderOf[n] = SenderOf[m] => sentAt[n] # time
    /\ sentAt' = [sentAt EXCEPT ![m] = time]
    /\ inbox' = Append(inbox, [msg |-> m, time |-> time])
    /\ UNCHANGED <<at, batch, acted, faults, consumerVars, pollVars, parkVars>>

\* A pending key lives 300 seconds.
Expire(k) ==
    /\ Fault
    /\ k \in DOMAIN pending
    /\ pending' = [j \in DOMAIN pending \ {k} |-> pending[j]]
    /\ UNCHANGED <<inbox, at, batch, now, acted, sentAt, parkedAt, consumerVars, pollVars>>

\* The answer of GET /v1/receive is lost after signal-api was emptied.
ReceiveLost ==
    /\ Fault
    /\ inbox # <<>>
    /\ inbox' = <<>>
    /\ UNCHANGED <<at, batch, acted, sentAt, consumerVars, pollVars, parkVars>>

-----------------------------------------------------------------------------
(* The consumer: poll_loop and process_message                             *)

ConsumerReceive ==
    /\ at[Consumer] = "idle"
    /\ inbox # <<>>
    /\ batch' = [batch EXCEPT ![Consumer] = inbox]
    /\ inbox' = <<>>
    /\ GoTo(Consumer, "next")
    /\ UNCHANGED <<acted, sentAt, faults, consumerVars, pollVars, parkVars>>

\* Envelopes without a dataMessage, messages that are marked as processed, texts
\* without !inbox (their sender gets the usage text, also for an approval), and
\* reactions.
Decline ==
    /\ at[Consumer] = "next"
    /\ \/ IsProcessed(Current(Consumer).time)
       \/ Handling(Consumer, {"approval", "text", "sync"})
    /\ NextMessage(Consumer)
    /\ UNCHANGED <<inbox, acted, sentAt, faults, consumerVars, pollVars, parkVars>>

\* handleSignalCommand: parked under the current millisecond, over what is there;
\* /help is answered at once as well.
handleSignalCommand(m, k) ==
    /\ k >= now
    /\ now' = k
    /\ pending' = [j \in DOMAIN pending \cup {k} |-> IF j = k THEN m ELSE pending[j]]
    /\ parkedAt' = [parkedAt EXCEPT ![m] = k]
    /\ acted' = IF KindOf[m] = "help" THEN [acted EXCEPT ![m] = @ + 1] ELSE acted

\* Fault: every text is forwarded, and without returning.
Forward_NoReturn(k) ==
    /\ Handling(Consumer, {"command", "help", "note"})
    /\ ~IsProcessed(Current(Consumer).time)
    /\ IF KindOf[Current(Consumer).msg] = "note" THEN UNCHANGED <<at, batch>> ELSE NextMessage(Consumer)
    /\ handleSignalCommand(Current(Consumer).msg, k)
    /\ UNCHANGED <<inbox, sentAt, faults, consumerVars, pollVars>>

\* A command is posted to the API, whose guard refuses a request without the
\* secret. Neither a refusal nor a failed call is noticed.
Forward(k) ==
    /\ Handling(Consumer, {"command", "help"})
    /\ ~IsProcessed(Current(Consumer).time)
    /\ NextMessage(Consumer)
    /\ \/ /\ IF secret
             THEN handleSignalCommand(Current(Consumer).msg, k)
             ELSE UNCHANGED <<acted, parkVars>>
          /\ UNCHANGED faults
       \/ Fault /\ UNCHANGED <<acted, parkVars>>
    /\ UNCHANGED <<inbox, sentAt, consumerVars, pollVars>>

mark_processed ==
    /\ Handling(Consumer, {"file", "note"})
    /\ ~IsProcessed(Current(Consumer).time)
    /\ processed' = processed \cup {Current(Consumer).time}
    /\ left' = FilesOf[Current(Consumer).msg]
    /\ GoTo(Consumer, "upload")
    /\ UNCHANGED <<secret, inbox, batch, acted, stored, told, sentAt, faults, pollVars,
                   parkVars>>

\* Fault: the reply comes after the try block.
Reply_Always(m, ok) == IF left = 1 THEN told \cup {m} ELSE told

\* The reply after the last upload: a note's only if the upload succeeded.
Reply(m, ok) ==
    IF left = 1 /\ (ok \/ KindOf[m] = "file") THEN told \cup {m} ELSE told

\* One upload. A failed one may have reached Paperless.
upload_to_paperless ==
    /\ at[Consumer] = "upload"
    /\ LET m == Current(Consumer).msg
           Store == stored' = [stored EXCEPT ![m] = @ + 1]
       IN  \/ Store /\ told' = Reply(m, TRUE) /\ UNCHANGED faults
           \/ Fault /\ told' = Reply(m, FALSE) /\ (Store \/ UNCHANGED stored)
    /\ left' = left - 1
    /\ IF left = 1 THEN NextMessage(Consumer) ELSE UNCHANGED <<at, batch>>
    /\ UNCHANGED <<secret, inbox, processed, acted, sentAt, pollVars, parkVars>>

\* Redis does not answer process_message, or the consumer dies.
ConsumerFails ==
    /\ at[Consumer] # "idle"
    /\ Fault
    /\ Abort(Consumer)
    /\ left' = 0
    /\ UNCHANGED <<secret, inbox, processed, acted, stored, told, sentAt, pollVars, parkVars>>

-----------------------------------------------------------------------------
(* The API: pollSignal                                                     *)

\* Fault: an empty answer ends the poll before the pending keys are drained.
Receive_OnlyInbox(p) ==
    /\ at[p] = "idle"
    /\ inbox # <<>>
    /\ batch' = [batch EXCEPT ![p] = inbox]
    /\ inbox' = <<>>
    /\ GoTo(p, "list")
    /\ UNCHANGED <<acted, sentAt, faults, consumerVars, pollVars, parkVars>>

\* Receives, and lists the pending keys afterwards.
Receive(p) ==
    /\ at[p] = "idle"
    /\ inbox # <<>> \/ DOMAIN pending # {}
    /\ batch' = [batch EXCEPT ![p] = inbox]
    /\ inbox' = <<>>
    /\ GoTo(p, "list")
    /\ UNCHANGED <<acted, sentAt, faults, consumerVars, pollVars, parkVars>>

\* After draining: the loop over all messages, if there are any.
StartLoop(p, messages) == GoTo(p, IF messages = <<>> THEN "idle" ELSE "next")

ListKeys(p) ==
    /\ at[p] = "list"
    /\ keys' = [keys EXCEPT ![p] = DOMAIN pending]
    /\ IF DOMAIN pending = {} THEN StartLoop(p, batch[p]) ELSE GoTo(p, "drain")
    /\ UNCHANGED <<inbox, batch, key, acted, sentAt, faults, consumerVars, parkVars>>

\* redis.get of one listed key: the drained message carries the key's time.
GetKey(p, k) ==
    /\ at[p] = "drain"
    /\ k \in keys[p]
    /\ keys' = [keys EXCEPT ![p] = @ \ {k}]
    /\ IF k \in DOMAIN pending
       THEN /\ batch' = [batch EXCEPT ![p] = Append(@, [msg |-> pending[k], time |-> k])]
            /\ key' = [key EXCEPT ![p] = k]
            /\ GoTo(p, "delete")
       ELSE /\ IF keys[p] = {k} THEN StartLoop(p, batch[p]) ELSE UNCHANGED at
            /\ UNCHANGED <<batch, key>>
    /\ UNCHANGED <<inbox, acted, sentAt, faults, consumerVars, parkVars>>

\* Fault: the key is left to expire.
DeleteKey_Keeps(p) ==
    /\ at[p] = "delete"
    /\ key' = [key EXCEPT ![p] = 0]
    /\ GoTo(p, IF keys[p] = {} THEN "next" ELSE "drain")
    /\ UNCHANGED <<inbox, batch, keys, acted, sentAt, faults, consumerVars, parkVars>>

DeleteKey(p) ==
    /\ at[p] = "delete"
    /\ pending' = [k \in DOMAIN pending \ {key[p]} |-> pending[k]]
    /\ key' = [key EXCEPT ![p] = 0]
    /\ GoTo(p, IF keys[p] = {} THEN "next" ELSE "drain")
    /\ UNCHANGED <<inbox, batch, keys, now, acted, sentAt, parkedAt, faults, consumerVars>>

\* One message of the loop: skipped if the consumer marked its timestamp. A
\* failing call leaves the loop, before or after the message had its effect.
HandleMessage(p) ==
    /\ at[p] = "next"
    /\ LET m == Current(p).msg
           Act == acted' = [acted EXCEPT ![m] = @ + 1]
       IN  \/ /\ IF ~IsProcessed(Current(p).time) /\ ActsOn(m) THEN Act ELSE UNCHANGED acted
              /\ NextMessage(p)
              /\ UNCHANGED faults
           \/ /\ ~IsProcessed(Current(p).time) /\ ActsOn(m)
              /\ Act
              /\ Fault
              /\ Abort(p)
    /\ UNCHANGED <<inbox, sentAt, consumerVars, pollVars, parkVars>>

\* A call throws, or the API dies while this poll is under way.
PollFails(p) ==
    /\ at[p] # "idle"
    /\ Fault
    /\ Abort(p)
    /\ keys' = [keys EXCEPT ![p] = {}]
    /\ key' = [key EXCEPT ![p] = 0]
    /\ UNCHANGED <<inbox, acted, sentAt, consumerVars, parkVars>>

-----------------------------------------------------------------------------
ConsumerStep ==
    \/ ConsumerReceive
    \/ Decline
    \/ \E k \in Times : Forward(k)
    \/ mark_processed
    \/ upload_to_paperless

PollStep(p) ==
    \/ Receive(p)
    \/ ListKeys(p)
    \/ \E k \in Times : GetKey(p, k)
    \/ DeleteKey(p)
    \/ HandleMessage(p)

Next ==
    \/ \E m \in Msgs, time \in Times : Send(m, time)
    \/ \E k \in Times : Expire(k)
    \/ ReceiveLost
    \/ ConsumerReceive
    \/ Decline
    \/ \E k \in Times : Forward(k)
    \/ mark_processed
    \/ upload_to_paperless
    \/ ConsumerFails
    \/ \E p \in Polls : Receive(p)
    \/ \E p \in Polls : ListKeys(p)
    \/ \E p \in Polls, k \in Times : GetKey(p, k)
    \/ \E p \in Polls : DeleteKey(p)
    \/ \E p \in Polls : HandleMessage(p)
    \/ \E p \in Polls : PollFails(p)

Spec == Init /\ [][Next]_vars

\* Both programs loop for ever, and every call they make returns or throws.
FairSpec == Spec /\ WF_vars(ConsumerStep) /\ \A p \in Polls : WF_vars(PollStep(p))

-----------------------------------------------------------------------------
(* Properties                                                              *)

Places == {"idle", "list", "drain", "delete", "next", "upload"}

\* Types, and what each place of a reader says of the variables it uses.
TypeOK ==
    /\ secret \in BOOLEAN
    /\ inbox \in Seq(Envelope)
    /\ DOMAIN pending \subseteq Times /\ pending \in [DOMAIN pending -> Msgs]
    /\ processed \subseteq Times
    /\ at \in [Readers -> Places]
    /\ batch \in [Readers -> Seq(Envelope)]
    /\ keys \in [Polls -> SUBSET Times]
    /\ key \in [Polls -> Times \cup {0}]
    /\ left \in Nat /\ now \in Times /\ faults \in Nat
    /\ acted \in [Msgs -> Nat] /\ stored \in [Msgs -> Nat] /\ told \subseteq Msgs
    /\ sentAt \in [Msgs -> Times \cup {0}] /\ parkedAt \in [Msgs -> Times \cup {0}]
    /\ \A r \in Readers : at[r] \in {"next", "upload", "delete"} => batch[r] # <<>>
    /\ \A r \in Readers : at[r] = "idle" => batch[r] = <<>>
    /\ \A p \in Polls : (at[p] = "drain" <=> keys[p] # {} /\ key[p] = 0)
    /\ \A p \in Polls : (at[p] = "delete" <=> key[p] # 0)
    /\ at[Consumer] = "upload" <=> left > 0

\* Who has message m: nobody forgets a message that somebody still has.
Waits(m) ==
    \/ \E i \in 1 .. Len(inbox) : inbox[i].msg = m
    \/ \E r \in Readers : \E i \in 1 .. Len(batch[r]) : batch[r][i].msg = m
    \/ \E k \in DOMAIN pending : pending[k] = m

fate == [m \in Msgs |->
            IF m \notin Sent THEN "unsent"
            ELSE IF acted[m] > 0 THEN "acted"
            ELSE IF stored[m] > 0 THEN "stored"
            ELSE IF Waits(m) THEN "waiting" ELSE "lost"]

Abstract == INSTANCE MessageFate

\* Every message has one fate: it is never lost and then found, nor acted upon
\* and then stored, whatever overlaps, fails, expires or collides.
Fates == Abstract!Spec

\* Once the senders stop (they send MaxSent messages at most), every message is
\* disposed of: none is held or parked for ever.
Settles == <>[](\A m \in Msgs : ~Waits(m))

\* scripts/signal_consumer.py:8-9, no double processing: at most one document for
\* each upload asked for; the API acts once on what it receives itself, and on a
\* forwarded command once for each poll that was under way, with one answer more
\* to /help; and it does not act on what the consumer stores.
ActsOf(m) ==
    (IF parkedAt[m] = 0 THEN 1 ELSE Cardinality(Polls))
    + (IF parkedAt[m] # 0 /\ KindOf[m] = "help" THEN 1 ELSE 0)

NoDoubleProcessing ==
    \A m \in Msgs :
        /\ stored[m] <= FilesOf[m]
        /\ acted[m] <= ActsOf(m)
        /\ stored[m] = 0 \/ acted[m] = 0

\* While nothing fails, no note is lost, and no command either if the consumer has
\* the secret, except for another message of the same millisecond that is not
\* lost: it took the pending key, or its mark was mistaken for this message's. And
\* of a file or a note no part is missing once the consumer has let go.
NothingMissing ==
    \A m \in Sent :
        faults > 0 \/
        /\ KindOf[m] = "note" \/ (secret /\ KindOf[m] \in {"command", "help"}) =>
              fate[m] # "lost" \/ \E n \in Sent \ {m} : Stamp(n) = Stamp(m) /\ fate[n] # "lost"
        /\ stored[m] > 0 /\ ~Waits(m) => stored[m] = FilesOf[m]

\* "Notitie opgeslagen in Paperless" is true whenever it is said.
NoteConfirmed == \A m \in told : KindOf[m] = "note" => stored[m] > 0

\* README.md:121, "When the user replies with a check mark (text or reaction),
\* the API queues a BullMQ job": no approval is lost while nothing fails.
ApprovalsReachApi ==
    \A m \in Sent :
        KindOf[m] = "approval" /\ faults = 0 /\ ~Collision(m) => fate[m] # "lost"

\* api/src/documents/documents.service.ts:90-96, "the consumer forwards commands
\* here via HTTP" so that "the next pollSignal cycle processes it like a real
\* message": no command is lost while nothing fails.
CommandsReachApi ==
    \A m \in Sent :
        KindOf[m] \in {"command", "help"} /\ faults = 0 /\ ~Collision(m) => fate[m] # "lost"
=============================================================================
