------------------------ MODULE SignalDeliveryProofs ------------------------
(***************************************************************************)
(* What holds of message delivery for every set of messages and polls, and *)
(* every number of faults.                                                 *)
(***************************************************************************)
EXTENDS SignalDelivery, CommonLemmas, FiniteSetTheorems

\* The parts of TypeOK.
QueuesOK ==
    /\ inbox \in Seq(Envelope)
    /\ batch \in [Readers -> Seq(Envelope)]

KeysOK ==
    /\ DOMAIN pending \subseteq Times /\ pending \in [DOMAIN pending -> Msgs]
    /\ processed \subseteq Times
    /\ keys \in [Polls -> SUBSET Times]
    /\ key \in [Polls -> Times \cup {0}]
    /\ now \in Times

PlacesOK ==
    /\ at \in [Readers -> Places]
    /\ \A r \in Readers : at[r] \in {"next", "upload", "delete"} => batch[r] # <<>>
    /\ \A r \in Readers : at[r] = "idle" => batch[r] = <<>>
    /\ \A p \in Polls : (at[p] = "drain" <=> keys[p] # {} /\ key[p] = 0)
    /\ \A p \in Polls : (at[p] = "delete" <=> key[p] # 0)
    /\ at[Consumer] = "upload" <=> left > 0

CountsOK ==
    /\ left \in Nat /\ faults \in Nat
    /\ acted \in [Msgs -> Nat] /\ stored \in [Msgs -> Nat] /\ told \subseteq Msgs

SecretOK == secret \in BOOLEAN

StampsOK == sentAt \in [Msgs -> Times \cup {0}] /\ parkedAt \in [Msgs -> Times \cup {0}]

\* A sequence of envelopes carries a message; it carries none twice; and each under
\* the timestamp the message goes by.
Carries(seq, m) == \E i \in 1 .. Len(seq) : seq[i].msg = m
Distinct(seq) == \A i, j \in 1 .. Len(seq) : seq[i].msg = seq[j].msg => i = j
Timed(seq) == \A i \in 1 .. Len(seq) : seq[i].time = Stamp(seq[i].msg)

Parked(m) == \E k \in DOMAIN pending : pending[k] = m
Uploading(m) == at[Consumer] = "upload" /\ Current(Consumer).msg = m
Uploads == {"file", "note"}

Orderly ==
    /\ Distinct(inbox) /\ Timed(inbox)
    /\ \A r \in Readers : Distinct(batch[r]) /\ Timed(batch[r])

\* Nobody has handled a message that is in signal-api, and nobody else has it.
Queued ==
    \A m \in Msgs : Carries(inbox, m) =>
        /\ m \in Sent /\ parkedAt[m] = 0 /\ acted[m] = 0 /\ stored[m] = 0
        /\ \A r \in Readers : ~Carries(batch[r], m)

\* One reader has a message that was not parked, and has not acted upon it; the
\* consumer has no other, and has stored nothing of it unless it is uploading it.
Received ==
    \A r \in Readers, m \in Msgs : Carries(batch[r], m) =>
        /\ m \in Sent
        /\ parkedAt[m] = 0 => acted[m] = 0 /\ \A q \in Readers : Carries(batch[q], m) => q = r
        /\ r = Consumer => parkedAt[m] = 0
        /\ stored[m] > 0 => r = Consumer /\ Uploading(m)

\* A command waits under the key it was parked with, once.
Forwarded ==
    /\ \A m \in Msgs : parkedAt[m] # 0 =>
          m \in Sent /\ KindOf[m] \in {"command", "help"} /\ stored[m] = 0
    /\ \A k \in DOMAIN pending : parkedAt[pending[k]] = k

\* A poll that has drained a message does not find it again: its key is listed no
\* more, and is deleted next if it still leads to it.
Drained ==
    \A p \in Polls, m \in Msgs : Carries(batch[p], m) /\ parkedAt[m] # 0 =>
        /\ at[p] # "list" /\ parkedAt[m] \notin keys[p]
        /\ Parked(m) => at[p] = "delete" /\ key[p] = parkedAt[m]

\* What is uploaded and what is left add up to what was asked for.
Uploaded ==
    /\ \A m \in Msgs : sentAt[m] = 0 => acted[m] = 0 /\ stored[m] = 0
    /\ \A m \in Msgs : Uploading(m) =>
          /\ KindOf[m] \in Uploads
          /\ stored[m] + left <= FilesOf[m]
          /\ faults = 0 => stored[m] + left = FilesOf[m]
    /\ \A m \in Msgs : stored[m] > 0 =>
          /\ KindOf[m] \in Uploads /\ acted[m] = 0 /\ stored[m] <= FilesOf[m]
          /\ faults = 0 => Uploading(m) \/ stored[m] = FilesOf[m]

\* The polls that have a forwarded command may each act upon it once more; none
\* has yet while it is parked.
Answers(m) == IF KindOf[m] = "help" THEN 1 ELSE 0
Holders(m) == {p \in Polls : Carries(batch[p], m)}

\* Every mark stands for a message that is being uploaded or was.
Marked ==
    \A time \in processed : \E n \in Sent :
        /\ sentAt[n] = time /\ KindOf[n] \in Uploads
        /\ faults > 0 \/ stored[n] > 0 \/ Uploading(n)

\* A poll deletes the key of a message that it has.
Deleting ==
    \A p \in Polls : at[p] = "delete" =>
        \E m \in Msgs : Carries(batch[p], m) /\ parkedAt[m] = key[p]

\* A message is lost to another that goes by the same timestamp for good.
Twin(m) ==
    \E n \in Sent \ {m} :
        Stamp(n) = Stamp(m) /\ (parkedAt[n] # 0 \/ KindOf[n] \in Uploads)

\* A message that is not lost: it is stored, being uploaded, or parked and then acted
\* upon.
Kept(n) ==
    \/ stored[n] > 0
    \/ Uploading(n)
    \/ parkedAt[n] # 0 /\ (acted[n] > 0 \/ Waits(n))

Heir(m) == \E n \in Sent \ {m} : Stamp(n) = Stamp(m) /\ Kept(n)

\* What must not be lost: notes, and commands if the consumer has the secret.
Promised(m) == KindOf[m] = "note" \/ (secret /\ KindOf[m] \in {"command", "help"})

Accounted ==
    faults = 0 =>
        \A m \in Sent :
            Promised(m) /\ acted[m] = 0 /\ stored[m] = 0 /\ ~Waits(m) => Heir(m)

-----------------------------------------------------------------------------
(* What readers receive and drop                                           *)

\* TypeOK is the conjunction of its parts.
LEMMA TypeParts == TypeOK <=> SecretOK /\ QueuesOK /\ KeysOK /\ PlacesOK /\ CountsOK /\ StampsOK
BY Zenon DEF TypeOK, SecretOK, QueuesOK, KeysOK, PlacesOK, CountsOK, StampsOK

LEMMA ReaderFacts == Consumer \in Readers /\ Consumer \notin Polls /\ Polls \subseteq Readers
BY DeliveryAssumption DEF Consumer, Readers

\* Nobody gives the consumer the secret, or takes it away, while it runs.
LEMMA SecretKept == ASSUME [Next]_vars PROVE secret' = secret
BY DEF Next, vars, Send, Expire, ReceiveLost, ConsumerReceive, Decline, Forward, mark_processed,
       upload_to_paperless, ConsumerFails, Receive, ListKeys, GetKey, DeleteKey, HandleMessage,
       PollFails, consumerVars

\* The message a reader handles is one of its batch, and what is left of the batch
\* is the rest.
LEMMA CurrentFacts ==
    ASSUME QueuesOK, NEW r \in Readers, batch[r] # <<>>
    PROVE  /\ Current(r) \in Envelope
           /\ Current(r).msg \in Msgs /\ Current(r).time \in Times
           /\ Carries(batch[r], Current(r).msg)
           /\ Tail(batch[r]) \in Seq(Envelope)
           /\ Tail(batch[r]) = <<>> <=> Len(batch[r]) = 1
<1> DEFINE s == batch[r]
<1>1. s \in Seq(Envelope) /\ s # <<>>
  BY DEF QueuesOK
<1>2. /\ Head(s) \in Envelope /\ Head(s) = s[1] /\ Len(s) \in Nat \ {0}
      /\ Tail(s) \in Seq(Envelope) /\ (Tail(s) = <<>> <=> Len(s) = 1)
  BY <1>1, TailFacts
<1>3. 1 \in 1 .. Len(s)
  BY <1>2
<1>4. Carries(s, Head(s).msg)
  BY <1>2, <1>3 DEF Carries
<1> QED
  BY <1>2, <1>4 DEF Current, Envelope

\* Dropping the first envelope.
LEMMA TailCarries ==
    ASSUME NEW s \in Seq(Envelope), s # <<>>, Distinct(s)
    PROVE  /\ Distinct(Tail(s))
           /\ \A m \in Msgs : Carries(Tail(s), m) <=> Carries(s, m) /\ m # Head(s).msg
           /\ Timed(s) => Timed(Tail(s)) /\ Head(s).time = Stamp(Head(s).msg)
<1> DEFINE t == Tail(s)
<1>1. /\ Head(s) = s[1] /\ Len(s) \in Nat \ {0} /\ t \in Seq(Envelope) /\ Len(t) = Len(s) - 1
      /\ \A i \in 1 .. Len(t) : i + 1 \in 1 .. Len(s) /\ t[i] = s[i + 1]
  BY TailFacts, HeadTailProperties
<1>2. 1 \in 1 .. Len(s) /\ \A i \in 1 .. Len(s) : i # 1 => i - 1 \in 1 .. Len(t) /\ (i - 1) + 1 = i
  BY <1>1
<1>3. Distinct(t)
  <2> SUFFICES ASSUME NEW i \in 1 .. Len(t), NEW j \in 1 .. Len(t), t[i].msg = t[j].msg
               PROVE  i = j
    BY DEF Distinct
  <2>1. i + 1 = j + 1
    BY <1>1 DEF Distinct
  <2> QED
    BY <1>1, <2>1
<1>4. ASSUME NEW m \in Msgs, Carries(t, m) PROVE Carries(s, m) /\ m # Head(s).msg
  <2>1. PICK i \in 1 .. Len(t) : t[i].msg = m
    BY <1>4 DEF Carries
  <2>2. i + 1 \in 1 .. Len(s) /\ i + 1 # 1 /\ s[i + 1].msg = m
    BY <1>1, <2>1
  <2> QED
    BY <1>1, <1>2, <2>2 DEF Carries, Distinct
<1>5. ASSUME NEW m \in Msgs, Carries(s, m), m # Head(s).msg PROVE Carries(t, m)
  <2>1. PICK i \in 1 .. Len(s) : s[i].msg = m
    BY <1>5 DEF Carries
  <2>2. i # 1
    BY <1>1, <1>5, <2>1
  <2>3. i - 1 \in 1 .. Len(t) /\ t[i - 1] = s[(i - 1) + 1] /\ (i - 1) + 1 = i
    BY <1>1, <1>2, <2>2
  <2> QED
    BY <2>1, <2>3 DEF Carries
<1>6. ASSUME Timed(s) PROVE Timed(t) /\ Head(s).time = Stamp(Head(s).msg)
  BY <1>1, <1>2, <1>6 DEF Timed
<1> QED
  BY <1>3, <1>4, <1>5, <1>6

\* Adding one.
LEMMA AppendCarries ==
    ASSUME NEW s \in Seq(Envelope), NEW e \in Envelope
    PROVE  /\ Append(s, e) \in Seq(Envelope) /\ Append(s, e) # <<>>
           /\ \A m \in Msgs : Carries(Append(s, e), m) <=> Carries(s, m) \/ m = e.msg
           /\ Distinct(s) /\ ~Carries(s, e.msg) => Distinct(Append(s, e))
           /\ Timed(s) /\ e.time = Stamp(e.msg) => Timed(Append(s, e))
<1> DEFINE t == Append(s, e)
<1>1. /\ t \in Seq(Envelope) /\ t # <<>> /\ Len(t) = Len(s) + 1 /\ Len(s) \in Nat
      /\ \A i \in 1 .. Len(s) : t[i] = s[i]
      /\ t[Len(s) + 1] = e
  BY AppendProperties, LenProperties
<1>2. \A i \in 1 .. Len(t) : i \in 1 .. Len(s) \/ i = Len(s) + 1
  BY <1>1
<1>3. Len(s) + 1 \in 1 .. Len(t) /\ \A i \in 1 .. Len(s) : i \in 1 .. Len(t)
  BY <1>1
<1>4. \A m \in Msgs : Carries(t, m) <=> Carries(s, m) \/ m = e.msg
  BY <1>1, <1>2, <1>3 DEF Carries
<1>5. Distinct(s) /\ ~Carries(s, e.msg) => Distinct(t)
  BY <1>1, <1>2 DEF Distinct, Carries
<1>6. Timed(s) /\ e.time = Stamp(e.msg) => Timed(t)
  BY <1>1, <1>2 DEF Timed
<1> QED
  BY <1>1, <1>4, <1>5, <1>6

LEMMA EmptyCarries ==
    /\ <<>> \in Seq(Envelope)
    /\ \A m : ~Carries(<<>>, m)
    /\ Distinct(<<>>) /\ Timed(<<>>)
<1>1. <<>> \in Seq(Envelope) /\ Len(<<>>) = 0
  BY EmptySeq
<1> QED
  BY <1>1 DEF Carries, Distinct, Timed

\* The end of one turn of a reader's loop.
LEMMA NextMessageFacts ==
    ASSUME QueuesOK, PlacesOK, NEW r \in Readers, batch[r] # <<>>, NextMessage(r)
    PROVE  /\ batch' \in [Readers -> Seq(Envelope)] /\ at' \in [Readers -> Places]
           /\ \A q \in Readers : q # r => batch'[q] = batch[q] /\ at'[q] = at[q]
           /\ at'[r] \in {"idle", "next"} /\ (at'[r] = "idle" <=> batch'[r] = <<>>)
           /\ batch'[r] = Tail(batch[r])
<1>1. Tail(batch[r]) \in Seq(Envelope) /\ (Tail(batch[r]) = <<>> <=> Len(batch[r]) = 1)
  BY CurrentFacts
<1>2. batch' = [batch EXCEPT ![r] = Tail(batch[r])] /\ batch \in [Readers -> Seq(Envelope)]
  BY DEF NextMessage, QueuesOK
<1>3. /\ at' = [at EXCEPT ![r] = IF Len(batch[r]) = 1 THEN "idle" ELSE "next"]
      /\ at \in [Readers -> Places]
  BY DEF NextMessage, GoTo, PlacesOK
<1>4. batch'[r] = Tail(batch[r])
  BY <1>2
<1> QED
  BY <1>1, <1>2, <1>3, <1>4 DEF Places

\* Queues and batches keep their types.
LEMMA QueuesTyped ==
    ASSUME QueuesOK, KeysOK, PlacesOK, CountsOK, StampsOK, [Next]_vars
    PROVE  QueuesOK'
<1> USE EmptyCarries DEF QueuesOK, KeysOK, PlacesOK
<1>1. ASSUME NEW m \in Msgs, NEW time \in Times, Send(m, time) PROVE QueuesOK'
  <2>1. [msg |-> m, time |-> time] \in Envelope
    BY DEF Envelope
  <2> QED
    BY <1>1, <2>1, AppendCarries DEF Send
<1>2. ASSUME NEW k \in Times, Expire(k) PROVE QueuesOK'
  BY <1>2 DEF Expire, Fault, consumerVars, pollVars
<1>3. ASSUME ReceiveLost PROVE QueuesOK'
  BY <1>3 DEF ReceiveLost, Fault, consumerVars, pollVars, parkVars
<1>4. ASSUME ConsumerReceive PROVE QueuesOK'
  BY <1>4, ReaderFacts DEF ConsumerReceive, GoTo, consumerVars, pollVars, parkVars
<1>5. ASSUME Decline PROVE QueuesOK'
  <2>1. Consumer \in Readers /\ batch[Consumer] # <<>>
    BY <1>5, ReaderFacts DEF Decline, Handling
  <2>2. NextMessage(Consumer) => batch' \in [Readers -> Seq(Envelope)]
    BY <2>1, NextMessageFacts
  <2> QED
    BY <1>5, <2>1, <2>2 DEF Decline, Handling, Abort, GoTo
<1>6. ASSUME NEW k \in Times, Forward(k) PROVE QueuesOK'
  <2>1. Consumer \in Readers /\ batch[Consumer] # <<>>
    BY <1>6, ReaderFacts DEF Forward, Handling
  <2>2. NextMessage(Consumer) => batch' \in [Readers -> Seq(Envelope)]
    BY <2>1, NextMessageFacts
  <2> QED
    BY <1>6, <2>1, <2>2 DEF Forward, Handling, Abort, GoTo
<1>7. ASSUME mark_processed PROVE QueuesOK'
  BY <1>7 DEF mark_processed, Handling, GoTo, pollVars, parkVars
<1>8. ASSUME upload_to_paperless PROVE QueuesOK'
  <2>1. Consumer \in Readers /\ batch[Consumer] # <<>>
    BY <1>8, ReaderFacts DEF upload_to_paperless
  <2>2. NextMessage(Consumer) => batch' \in [Readers -> Seq(Envelope)]
    BY <2>1, NextMessageFacts
  <2> QED
    BY <1>8, <2>1, <2>2 DEF upload_to_paperless, Abort, GoTo
<1>9. ASSUME ConsumerFails PROVE QueuesOK'
  BY <1>9, ReaderFacts DEF ConsumerFails, Abort
<1>10. ASSUME NEW p \in Polls, Receive(p) PROVE QueuesOK'
  BY <1>10, ReaderFacts DEF Receive, GoTo, consumerVars, pollVars, parkVars
<1>11. ASSUME NEW p \in Polls, ListKeys(p) PROVE QueuesOK'
  BY <1>11 DEF ListKeys, StartLoop, GoTo, consumerVars, parkVars
<1>12. ASSUME NEW p \in Polls, NEW k \in Times, GetKey(p, k) PROVE QueuesOK'
  <2>1. k \in DOMAIN pending => [msg |-> pending[k], time |-> k] \in Envelope
    BY DEF Envelope
  <2>2. batch[p] \in Seq(Envelope) /\ p \in Readers
    BY ReaderFacts
  <2>3. k \in DOMAIN pending =>
            Append(batch[p], [msg |-> pending[k], time |-> k]) \in Seq(Envelope)
    BY <2>1, <2>2, AppendCarries
  <2> QED
    BY <1>12, <2>2, <2>3 DEF GetKey
<1>13. ASSUME NEW p \in Polls, DeleteKey(p) PROVE QueuesOK'
  BY <1>13 DEF DeleteKey, GoTo, consumerVars
<1>14. ASSUME NEW p \in Polls, HandleMessage(p) PROVE QueuesOK'
  <2>1. p \in Readers /\ batch[p] # <<>>
    BY <1>14, ReaderFacts DEF HandleMessage
  <2>2. NextMessage(p) => batch' \in [Readers -> Seq(Envelope)]
    BY <2>1, NextMessageFacts
  <2> QED
    BY <1>14, <2>1, <2>2 DEF HandleMessage, Abort, GoTo
<1>15. ASSUME NEW p \in Polls, PollFails(p) PROVE QueuesOK'
  BY <1>15, ReaderFacts DEF PollFails, Abort
<1>16. CASE UNCHANGED vars
  BY <1>16 DEF vars
<1> QED
  BY <1>1, <1>2, <1>3, <1>4, <1>5, <1>6, <1>7, <1>8, <1>9, <1>10, <1>11, <1>12, <1>13,
       <1>14, <1>15, <1>16 DEF Next

\* Redis keys and what polls know of them keep their types.
LEMMA KeysTyped ==
    ASSUME QueuesOK, KeysOK, PlacesOK, CountsOK, StampsOK, [Next]_vars
    PROVE  KeysOK'
<1> USE DEF QueuesOK, KeysOK, PlacesOK, StampsOK
<1>1. ASSUME NEW m \in Msgs, NEW time \in Times, Send(m, time) PROVE KeysOK'
  BY <1>1 DEF Send, consumerVars, pollVars, parkVars
<1>2. ASSUME NEW k \in Times, Expire(k) PROVE KeysOK'
  BY <1>2 DEF Expire, Fault, consumerVars, pollVars
<1>3. ASSUME ReceiveLost PROVE KeysOK'
  BY <1>3 DEF ReceiveLost, Fault, consumerVars, pollVars, parkVars
<1>4. ASSUME ConsumerReceive PROVE KeysOK'
  BY <1>4 DEF ConsumerReceive, GoTo, consumerVars, pollVars, parkVars
<1>5. ASSUME Decline PROVE KeysOK'
  BY <1>5 DEF Decline, Handling, GoTo, consumerVars, pollVars, parkVars
<1>6. ASSUME NEW k \in Times, Forward(k) PROVE KeysOK'
  <2>1. batch[Consumer] # <<>> /\ Current(Consumer).msg \in Msgs
    BY <1>6, ReaderFacts, CurrentFacts DEF Forward, Handling
  <2>2. CASE handleSignalCommand(Current(Consumer).msg, k)
    BY <1>6, <2>1, <2>2 DEF Forward, handleSignalCommand, consumerVars, pollVars
  <2>3. CASE UNCHANGED parkVars
    BY <1>6, <2>1, <2>3 DEF Forward, parkVars, consumerVars, pollVars
  <2> QED
    BY <1>6, <2>2, <2>3 DEF Forward
<1>7. ASSUME mark_processed PROVE KeysOK'
  <2>1. batch[Consumer] # <<>> /\ Current(Consumer).msg \in Msgs /\ Current(Consumer).time \in Times
    BY <1>7, ReaderFacts, CurrentFacts DEF mark_processed, Handling
  <2> QED
    BY <1>7, <2>1 DEF mark_processed, GoTo, pollVars, parkVars
<1>8. ASSUME upload_to_paperless PROVE KeysOK'
  BY <1>8 DEF upload_to_paperless, Fault, GoTo, pollVars, parkVars
<1>9. ASSUME ConsumerFails PROVE KeysOK'
  BY <1>9 DEF ConsumerFails, Fault, Abort, GoTo, pollVars, parkVars
<1>10. ASSUME NEW p \in Polls, Receive(p) PROVE KeysOK'
  BY <1>10 DEF Receive, GoTo, consumerVars, pollVars, parkVars
<1>11. ASSUME NEW p \in Polls, ListKeys(p) PROVE KeysOK'
  BY <1>11 DEF ListKeys, StartLoop, GoTo, consumerVars, parkVars
<1>12. ASSUME NEW p \in Polls, NEW k \in Times, GetKey(p, k) PROVE KeysOK'
  BY <1>12 DEF GetKey, StartLoop, GoTo, consumerVars, parkVars
<1>13. ASSUME NEW p \in Polls, DeleteKey(p) PROVE KeysOK'
  BY <1>13 DEF DeleteKey, GoTo, consumerVars
<1>14. ASSUME NEW p \in Polls, HandleMessage(p) PROVE KeysOK'
  BY <1>14 DEF HandleMessage, Fault, GoTo, consumerVars, pollVars, parkVars
<1>15. ASSUME NEW p \in Polls, PollFails(p) PROVE KeysOK'
  BY <1>15 DEF PollFails, Fault, Abort, GoTo, consumerVars, parkVars
<1>16. CASE UNCHANGED vars
  BY <1>16 DEF vars
<1> QED
  BY <1>1, <1>2, <1>3, <1>4, <1>5, <1>6, <1>7, <1>8, <1>9, <1>10, <1>11, <1>12, <1>13,
       <1>14, <1>15, <1>16 DEF Next

\* A reader that ends a turn is at the next message or idle.
LEMMA LoopPlaces ==
    ASSUME PlacesOK, NEW r \in Readers, at[r] \in {"next", "upload"}, UNCHANGED <<keys, key>>,
           at' \in [Readers -> Places],
           \A q \in Readers : q # r => batch'[q] = batch[q] /\ at'[q] = at[q],
           at'[r] \in {"idle", "next"}, at'[r] = "idle" <=> batch'[r] = <<>>,
           left' > 0 <=> left > 0 /\ r # Consumer
    PROVE  PlacesOK'
<1>1. \A q \in Readers : at'[q] \in {"next", "upload", "delete"} => batch'[q] # <<>>
  BY DEF PlacesOK
<1>2. \A q \in Readers : at'[q] = "idle" => batch'[q] = <<>>
  BY DEF PlacesOK
<1>3. ASSUME NEW p \in Polls PROVE (at'[p] = "drain" <=> keys'[p] # {} /\ key'[p] = 0)
                                   /\ (at'[p] = "delete" <=> key'[p] # 0)
  <2>1. p \in Readers /\ keys'[p] = keys[p] /\ key'[p] = key[p]
    BY ReaderFacts
  <2>2. CASE p = r
    BY <2>1, <2>2 DEF PlacesOK
  <2>3. CASE p # r
    BY <2>1, <2>3 DEF PlacesOK
  <2> QED
    BY <2>2, <2>3
<1>4. at'[Consumer] = "upload" <=> left' > 0
  BY ReaderFacts DEF PlacesOK
<1> QED
  BY <1>1, <1>2, <1>3, <1>4 DEF PlacesOK

\* A reader's place says what it holds.
LEMMA PlacesTyped ==
    ASSUME QueuesOK, KeysOK, PlacesOK, CountsOK, StampsOK, [Next]_vars
    PROVE  PlacesOK'
<1> USE ReaderFacts DEF QueuesOK, KeysOK, PlacesOK, CountsOK, Places
<1>1. ASSUME NEW m \in Msgs, NEW time \in Times, Send(m, time) PROVE PlacesOK'
  BY <1>1 DEF Send, consumerVars, pollVars, parkVars
<1>2. ASSUME NEW k \in Times, Expire(k) PROVE PlacesOK'
  BY <1>2 DEF Expire, Fault, consumerVars, pollVars
<1>3. ASSUME ReceiveLost PROVE PlacesOK'
  BY <1>3 DEF ReceiveLost, Fault, consumerVars, pollVars, parkVars
<1>4. ASSUME ConsumerReceive PROVE PlacesOK'
  BY <1>4 DEF ConsumerReceive, GoTo, consumerVars, pollVars, parkVars
<1>5. ASSUME Decline PROVE PlacesOK'
  <2>1. Consumer \in Readers /\ batch[Consumer] # <<>> /\ at[Consumer] \in {"next", "upload"}
    BY <1>5, ReaderFacts DEF Decline, Handling
  <2>2. CASE NextMessage(Consumer)
    <3>1. /\ at' \in [Readers -> Places]
          /\ \A q \in Readers : q # Consumer => batch'[q] = batch[q] /\ at'[q] = at[q]
          /\ at'[Consumer] \in {"idle", "next"} /\ (at'[Consumer] = "idle" <=> batch'[Consumer] = <<>>)
      BY <2>1, <2>2, NextMessageFacts
    <3>2. UNCHANGED <<keys, key>> /\ (left' > 0 <=> left > 0 /\ Consumer # Consumer)
      BY <1>5, <2>1, <2>2, ReaderFacts DEF Decline, Handling, NextMessage, GoTo,
           consumerVars, pollVars
    <3> QED
      BY <2>1, <3>1, <3>2, LoopPlaces
  <2> QED
    BY <1>5, <2>1, <2>2 DEF Decline, Handling
<1>6. ASSUME NEW k \in Times, Forward(k) PROVE PlacesOK'
  <2>1. Consumer \in Readers /\ batch[Consumer] # <<>> /\ at[Consumer] \in {"next", "upload"}
    BY <1>6, ReaderFacts DEF Forward, Handling
  <2>2. CASE NextMessage(Consumer)
    <3>1. /\ at' \in [Readers -> Places]
          /\ \A q \in Readers : q # Consumer => batch'[q] = batch[q] /\ at'[q] = at[q]
          /\ at'[Consumer] \in {"idle", "next"} /\ (at'[Consumer] = "idle" <=> batch'[Consumer] = <<>>)
      BY <2>1, <2>2, NextMessageFacts
    <3>2. UNCHANGED <<keys, key>> /\ (left' > 0 <=> left > 0 /\ Consumer # Consumer)
      BY <1>6, <2>1, <2>2, ReaderFacts DEF Forward, Handling, NextMessage, GoTo,
           consumerVars, pollVars
    <3> QED
      BY <2>1, <3>1, <3>2, LoopPlaces
  <2> QED
    BY <1>6, <2>1, <2>2 DEF Forward, Handling
<1>7. ASSUME mark_processed PROVE PlacesOK'
  <2>1. batch[Consumer] # <<>> /\ Current(Consumer).msg \in Msgs
    BY <1>7, ReaderFacts, CurrentFacts DEF mark_processed, Handling
  <2>2. FilesOf[Current(Consumer).msg] > 0
    BY <2>1, DeliveryAssumption
  <2> QED
    BY <1>7, <2>1, <2>2 DEF mark_processed, GoTo, pollVars
<1>8. ASSUME upload_to_paperless PROVE PlacesOK'
  <2>1. Consumer \in Readers /\ batch[Consumer] # <<>> /\ at[Consumer] \in {"next", "upload"}
    BY <1>8, ReaderFacts DEF upload_to_paperless
  <2>2. CASE NextMessage(Consumer)
    <3>1. /\ at' \in [Readers -> Places]
          /\ \A q \in Readers : q # Consumer => batch'[q] = batch[q] /\ at'[q] = at[q]
          /\ at'[Consumer] \in {"idle", "next"} /\ (at'[Consumer] = "idle" <=> batch'[Consumer] = <<>>)
      BY <2>1, <2>2, NextMessageFacts
    <3>2. UNCHANGED <<keys, key>> /\ (left' > 0 <=> left > 0 /\ Consumer # Consumer)
      BY <1>8, <2>1, <2>2, ReaderFacts DEF upload_to_paperless, NextMessage, GoTo, pollVars
    <3> QED
      BY <2>1, <3>1, <3>2, LoopPlaces
  <2>3. CASE left # 1
    <3>1. UNCHANGED <<at, batch, keys, key>> /\ left' = left - 1 /\ left \in Nat /\ left > 0
      BY <1>8, <2>3 DEF upload_to_paperless, pollVars
    <3> QED
      BY <2>3, <3>1
  <2> QED
    BY <1>8, <2>1, <2>2, <2>3 DEF upload_to_paperless
<1>9. ASSUME ConsumerFails PROVE PlacesOK'
  BY <1>9 DEF ConsumerFails, Fault, Abort, GoTo, pollVars, parkVars
<1>10. ASSUME NEW p \in Polls, Receive(p) PROVE PlacesOK'
  BY <1>10 DEF Receive, GoTo, consumerVars, pollVars, parkVars
<1>11. ASSUME NEW p \in Polls, ListKeys(p) PROVE PlacesOK'
  BY <1>11 DEF ListKeys, StartLoop, GoTo, consumerVars, parkVars
<1>12. ASSUME NEW p \in Polls, NEW k \in Times, GetKey(p, k) PROVE PlacesOK'
  <2>1. k \in DOMAIN pending => [msg |-> pending[k], time |-> k] \in Envelope
    BY DEF Envelope
  <2>2. batch[p] \in Seq(Envelope)
    OBVIOUS
  <2>3. k \in DOMAIN pending => Append(batch[p], [msg |-> pending[k], time |-> k]) # <<>>
    BY <2>1, <2>2, AppendCarries
  <2>4. k \in Times /\ k # 0
    BY DEF Times
  <2>5. p \in Readers /\ p # Consumer /\ key[p] = 0
    BY <1>12 DEF GetKey
  <2>6. CASE k \in DOMAIN pending
    BY <1>12, <2>3, <2>4, <2>5, <2>6 DEF GetKey, GoTo, consumerVars
  <2>7. CASE k \notin DOMAIN pending
    <3>1. \A q \in Polls : q # p => keys'[q] = keys[q] /\ at'[q] = at[q]
      BY <1>12, <2>7 DEF GetKey, StartLoop, GoTo
    <3>2. keys'[p] = keys[p] \ {k} /\ k \in keys[p] /\ UNCHANGED <<batch, key, left>>
      BY <1>12, <2>7 DEF GetKey, consumerVars
    <3>3. CASE keys[p] = {k}
      <4>1. /\ keys'[p] = {} /\ at'[p] = (IF batch[p] = <<>> THEN "idle" ELSE "next")
            /\ \A q \in Readers : q # p => at'[q] = at[q]
            /\ at' \in [Readers -> Places]
        BY <1>12, <2>5, <2>7, <3>2, <3>3 DEF GetKey, StartLoop, GoTo
      <4>2. \A q \in Readers : /\ at'[q] \in {"next", "upload", "delete"} => batch'[q] # <<>>
                               /\ at'[q] = "idle" => batch'[q] = <<>>
        BY <2>5, <3>2, <4>1
      <4> QED
        BY <2>5, <3>1, <3>2, <4>1, <4>2
    <3>4. CASE keys[p] # {k}
      BY <1>12, <2>5, <2>7, <3>1, <3>2, <3>4 DEF GetKey
    <3> QED
      BY <3>3, <3>4
  <2> QED
    BY <2>6, <2>7
<1>13. ASSUME NEW p \in Polls, DeleteKey(p) PROVE PlacesOK'
  BY <1>13 DEF DeleteKey, GoTo, consumerVars
<1>14. ASSUME NEW p \in Polls, HandleMessage(p) PROVE PlacesOK'
  <2>1. p \in Readers /\ batch[p] # <<>> /\ at[p] \in {"next", "upload"}
    BY <1>14, ReaderFacts DEF HandleMessage
  <2>2. CASE NextMessage(p)
    <3>1. /\ at' \in [Readers -> Places]
          /\ \A q \in Readers : q # p => batch'[q] = batch[q] /\ at'[q] = at[q]
          /\ at'[p] \in {"idle", "next"} /\ (at'[p] = "idle" <=> batch'[p] = <<>>)
      BY <2>1, <2>2, NextMessageFacts
    <3>2. UNCHANGED <<keys, key>> /\ (left' > 0 <=> left > 0 /\ p # Consumer)
      BY <1>14, <2>1, <2>2, ReaderFacts DEF HandleMessage, NextMessage, GoTo, consumerVars,
           pollVars
    <3> QED
      BY <2>1, <3>1, <3>2, LoopPlaces
  <2>3. CASE Abort(p)
    <3>1. /\ at' \in [Readers -> Places]
          /\ \A q \in Readers : q # p => batch'[q] = batch[q] /\ at'[q] = at[q]
          /\ at'[p] = "idle" /\ batch'[p] = <<>>
      BY <2>1, <2>3 DEF Abort, GoTo
    <3>2. UNCHANGED <<keys, key>> /\ (left' > 0 <=> left > 0 /\ p # Consumer)
      BY <1>14, <2>1, <2>3, ReaderFacts DEF HandleMessage, consumerVars, pollVars
    <3> QED
      BY <2>1, <3>1, <3>2, LoopPlaces
  <2> QED
    BY <1>14, <2>1, <2>2, <2>3 DEF HandleMessage
<1>15. ASSUME NEW p \in Polls, PollFails(p) PROVE PlacesOK'
  BY <1>15 DEF PollFails, Fault, Abort, GoTo, consumerVars, parkVars
<1>16. CASE UNCHANGED vars
  BY <1>16 DEF vars
<1> QED
  BY <1>1, <1>2, <1>3, <1>4, <1>5, <1>6, <1>7, <1>8, <1>9, <1>10, <1>11, <1>12, <1>13,
       <1>14, <1>15, <1>16 DEF Next

\* The counters keep their types.
LEMMA CountsTyped ==
    ASSUME QueuesOK, KeysOK, PlacesOK, CountsOK, StampsOK, [Next]_vars
    PROVE  CountsOK'
<1> USE DeliveryAssumption DEF QueuesOK, PlacesOK, CountsOK
<1>1. ASSUME NEW m \in Msgs, NEW time \in Times, Send(m, time) PROVE CountsOK'
  BY <1>1 DEF Send, consumerVars, pollVars, parkVars
<1>2. ASSUME NEW k \in Times, Expire(k) PROVE CountsOK'
  BY <1>2 DEF Expire, Fault, consumerVars, pollVars
<1>3. ASSUME ReceiveLost PROVE CountsOK'
  BY <1>3 DEF ReceiveLost, Fault, consumerVars, pollVars, parkVars
<1>4. ASSUME ConsumerReceive PROVE CountsOK'
  BY <1>4 DEF ConsumerReceive, GoTo, consumerVars, pollVars, parkVars
<1>5. ASSUME Decline PROVE CountsOK'
  BY <1>5 DEF Decline, Handling, GoTo, consumerVars, pollVars, parkVars
<1>6. ASSUME NEW k \in Times, Forward(k) PROVE CountsOK'
  <2>1. batch[Consumer] # <<>> /\ Current(Consumer).msg \in Msgs
    BY <1>6, ReaderFacts, CurrentFacts DEF Forward, Handling
  <2>2. PICK m \in Msgs : m = Current(Consumer).msg
    BY <2>1
  <2>3. acted[m] + 1 \in Nat /\ stored[m] + 1 \in Nat
    OBVIOUS
  <2>4. [acted EXCEPT ![m] = @ + 1] \in [Msgs -> Nat] /\ [stored EXCEPT ![m] = @ + 1] \in [Msgs -> Nat]
    BY <2>3
  <2>5. acted' \in [Msgs -> Nat] /\ stored' \in [Msgs -> Nat]
    BY <1>6, <2>2, <2>4 DEF Forward, handleSignalCommand, consumerVars, parkVars
  <2> QED
    BY <1>6, <2>2, <2>5, ReaderFacts DEF Forward, handleSignalCommand, Fault, consumerVars,
         parkVars
<1>7. ASSUME mark_processed PROVE CountsOK'
  <2>1. batch[Consumer] # <<>> /\ Current(Consumer).msg \in Msgs
    BY <1>7, ReaderFacts, CurrentFacts DEF mark_processed, Handling
  <2> QED
    BY <1>7, <2>1 DEF mark_processed
<1>8. ASSUME upload_to_paperless PROVE CountsOK'
  <2>1. batch[Consumer] # <<>> /\ Current(Consumer).msg \in Msgs
    BY <1>8, ReaderFacts, CurrentFacts DEF upload_to_paperless, Handling
  <2>2. PICK m \in Msgs : m = Current(Consumer).msg
    BY <2>1
  <2>3. acted[m] + 1 \in Nat /\ stored[m] + 1 \in Nat
    OBVIOUS
  <2>4. [acted EXCEPT ![m] = @ + 1] \in [Msgs -> Nat] /\ [stored EXCEPT ![m] = @ + 1] \in [Msgs -> Nat]
    BY <2>3
  <2>5. acted' \in [Msgs -> Nat] /\ stored' \in [Msgs -> Nat]
    BY <1>8, <2>2, <2>4 DEF upload_to_paperless, Reply
  <2> QED
    BY <1>8, <2>2, <2>5, ReaderFacts DEF upload_to_paperless, Fault, Reply
<1>9. ASSUME ConsumerFails PROVE CountsOK'
  BY <1>9 DEF ConsumerFails, Fault, Abort, GoTo, pollVars, parkVars
<1>10. ASSUME NEW p \in Polls, Receive(p) PROVE CountsOK'
  BY <1>10 DEF Receive, GoTo, consumerVars, pollVars, parkVars
<1>11. ASSUME NEW p \in Polls, ListKeys(p) PROVE CountsOK'
  BY <1>11 DEF ListKeys, StartLoop, GoTo, consumerVars, parkVars
<1>12. ASSUME NEW p \in Polls, NEW k \in Times, GetKey(p, k) PROVE CountsOK'
  BY <1>12 DEF GetKey, StartLoop, GoTo, consumerVars, parkVars
<1>13. ASSUME NEW p \in Polls, DeleteKey(p) PROVE CountsOK'
  BY <1>13 DEF DeleteKey, GoTo, consumerVars
<1>14. ASSUME NEW p \in Polls, HandleMessage(p) PROVE CountsOK'
  <2>1. batch[p] # <<>> /\ Current(p).msg \in Msgs
    BY <1>14, ReaderFacts, CurrentFacts DEF HandleMessage, Handling
  <2>2. PICK m \in Msgs : m = Current(p).msg
    BY <2>1
  <2>3. acted[m] + 1 \in Nat /\ stored[m] + 1 \in Nat
    OBVIOUS
  <2>4. [acted EXCEPT ![m] = @ + 1] \in [Msgs -> Nat] /\ [stored EXCEPT ![m] = @ + 1] \in [Msgs -> Nat]
    BY <2>3
  <2>5. acted' \in [Msgs -> Nat] /\ stored' \in [Msgs -> Nat]
    BY <1>14, <2>2, <2>4 DEF HandleMessage, consumerVars
  <2> QED
    BY <1>14, <2>2, <2>5, ReaderFacts DEF HandleMessage, Fault, consumerVars
<1>15. ASSUME NEW p \in Polls, PollFails(p) PROVE CountsOK'
  BY <1>15 DEF PollFails, Fault, Abort, GoTo, consumerVars, parkVars
<1>16. CASE UNCHANGED vars
  BY <1>16 DEF vars
<1> QED
  BY <1>1, <1>2, <1>3, <1>4, <1>5, <1>6, <1>7, <1>8, <1>9, <1>10, <1>11, <1>12, <1>13,
       <1>14, <1>15, <1>16 DEF Next

\* Timestamps keep their types.
LEMMA StampsTyped ==
    ASSUME QueuesOK, KeysOK, PlacesOK, CountsOK, StampsOK, [Next]_vars
    PROVE  StampsOK'
<1> USE DEF QueuesOK, KeysOK, PlacesOK, StampsOK
<1>1. ASSUME NEW m \in Msgs, NEW time \in Times, Send(m, time) PROVE StampsOK'
  BY <1>1 DEF Send, consumerVars, pollVars, parkVars
<1>2. ASSUME NEW k \in Times, Expire(k) PROVE StampsOK'
  BY <1>2 DEF Expire, Fault, consumerVars, pollVars
<1>3. ASSUME ReceiveLost PROVE StampsOK'
  BY <1>3 DEF ReceiveLost, Fault, consumerVars, pollVars, parkVars
<1>4. ASSUME ConsumerReceive PROVE StampsOK'
  BY <1>4 DEF ConsumerReceive, GoTo, consumerVars, pollVars, parkVars
<1>5. ASSUME Decline PROVE StampsOK'
  BY <1>5 DEF Decline, Handling, GoTo, consumerVars, pollVars, parkVars
<1>6. ASSUME NEW k \in Times, Forward(k) PROVE StampsOK'
  <2>1. batch[Consumer] # <<>> /\ Current(Consumer).msg \in Msgs
    BY <1>6, ReaderFacts, CurrentFacts DEF Forward, Handling
  <2>2. CASE handleSignalCommand(Current(Consumer).msg, k)
    BY <1>6, <2>1, <2>2 DEF Forward, handleSignalCommand, consumerVars, pollVars
  <2>3. CASE UNCHANGED parkVars
    BY <1>6, <2>1, <2>3 DEF Forward, parkVars, consumerVars, pollVars
  <2> QED
    BY <1>6, <2>2, <2>3 DEF Forward
<1>7. ASSUME mark_processed PROVE StampsOK'
  BY <1>7 DEF mark_processed, Handling, GoTo, pollVars, parkVars
<1>8. ASSUME upload_to_paperless PROVE StampsOK'
  BY <1>8 DEF upload_to_paperless, Fault, GoTo, pollVars, parkVars
<1>9. ASSUME ConsumerFails PROVE StampsOK'
  BY <1>9 DEF ConsumerFails, Fault, Abort, GoTo, pollVars, parkVars
<1>10. ASSUME NEW p \in Polls, Receive(p) PROVE StampsOK'
  BY <1>10 DEF Receive, GoTo, consumerVars, pollVars, parkVars
<1>11. ASSUME NEW p \in Polls, ListKeys(p) PROVE StampsOK'
  BY <1>11 DEF ListKeys, StartLoop, GoTo, consumerVars, parkVars
<1>12. ASSUME NEW p \in Polls, NEW k \in Times, GetKey(p, k) PROVE StampsOK'
  BY <1>12 DEF GetKey, StartLoop, GoTo, consumerVars, parkVars
<1>13. ASSUME NEW p \in Polls, DeleteKey(p) PROVE StampsOK'
  BY <1>13 DEF DeleteKey, GoTo, consumerVars
<1>14. ASSUME NEW p \in Polls, HandleMessage(p) PROVE StampsOK'
  BY <1>14 DEF HandleMessage, Fault, GoTo, consumerVars, pollVars, parkVars
<1>15. ASSUME NEW p \in Polls, PollFails(p) PROVE StampsOK'
  BY <1>15 DEF PollFails, Fault, Abort, GoTo, consumerVars, parkVars
<1>16. CASE UNCHANGED vars
  BY <1>16 DEF vars
<1> QED
  BY <1>1, <1>2, <1>3, <1>4, <1>5, <1>6, <1>7, <1>8, <1>9, <1>10, <1>11, <1>12, <1>13,
       <1>14, <1>15, <1>16 DEF Next

-----------------------------------------------------------------------------
(* Which messages each step moves                                          *)

\* A reader that goes on with the next message has dropped the first.
LEMMA NextMessageCarries ==
    ASSUME QueuesOK, PlacesOK, Orderly, NEW r \in Readers, batch[r] # <<>>, NextMessage(r)
    PROVE  /\ \A q \in Readers, m \in Msgs :
                 Carries(batch'[q], m) <=> Carries(batch[q], m) /\ ~(q = r /\ m = Current(r).msg)
           /\ \A q \in Readers : Distinct(batch'[q]) /\ Timed(batch'[q])
<1>1. /\ \A q \in Readers : q # r => batch'[q] = batch[q]
      /\ batch'[r] = Tail(batch[r])
  BY NextMessageFacts
<1>2. \A q \in Readers : batch[q] \in Seq(Envelope) /\ Distinct(batch[q]) /\ Timed(batch[q])
  BY DEF QueuesOK, Orderly
<1>3. /\ Distinct(Tail(batch[r])) /\ Timed(Tail(batch[r]))
      /\ \A m \in Msgs : Carries(Tail(batch[r]), m) <=> Carries(batch[r], m) /\ m # Current(r).msg
  BY <1>2, TailCarries DEF Current
<1> QED
  BY <1>1, <1>2, <1>3

\* One whose loop has ended has none.
LEMMA AbortCarries ==
    ASSUME QueuesOK, PlacesOK, Orderly, NEW r \in Readers, Abort(r)
    PROVE  /\ \A q \in Readers, m \in Msgs : Carries(batch'[q], m) <=> Carries(batch[q], m) /\ q # r
           /\ \A q \in Readers : Distinct(batch'[q]) /\ Timed(batch'[q])
           /\ \A q \in Readers : q # r => at'[q] = at[q] /\ batch'[q] = batch[q]
           /\ at'[r] = "idle" /\ batch'[r] = <<>>
<1>1. /\ \A q \in Readers : q # r => batch'[q] = batch[q] /\ at'[q] = at[q]
      /\ batch'[r] = <<>> /\ at'[r] = "idle"
  BY DEF Abort, GoTo, QueuesOK, PlacesOK
<1> QED
  BY <1>1, EmptyCarries DEF Orderly

\* One that receives has what was in signal-api.
LEMMA ReceiveCarries ==
    ASSUME QueuesOK, Orderly, NEW r \in Readers, batch' = [batch EXCEPT ![r] = inbox], inbox' = <<>>
    PROVE  /\ \A q \in Readers, m \in Msgs :
                 Carries(batch'[q], m) <=> IF q = r THEN Carries(inbox, m) ELSE Carries(batch[q], m)
           /\ \A q \in Readers : Distinct(batch'[q]) /\ Timed(batch'[q])
           /\ \A m \in Msgs : ~Carries(inbox', m)
           /\ Distinct(inbox') /\ Timed(inbox')
<1>1. (\A q \in Readers : q # r => batch'[q] = batch[q]) /\ batch'[r] = inbox
  BY DEF QueuesOK
<1> QED
  BY <1>1, EmptyCarries DEF Orderly

LEMMA UploadingKept ==
    ASSUME at'[Consumer] = at[Consumer], batch'[Consumer] = batch[Consumer]
    PROVE  \A m : Uploading(m)' <=> Uploading(m)
BY DEF Uploading, Current

LEMMA NotUploading ==
    /\ at[Consumer] # "upload" => \A m : ~Uploading(m)
    /\ at'[Consumer] # "upload" => \A m : ~Uploading(m)'
BY DEF Uploading

\* Timestamps and sequences that only lose messages stay in order.
LEMMA OrderlyKept ==
    ASSUME QueuesOK', Distinct(inbox'), Timed(inbox'),
           \A r \in Readers : Distinct(batch'[r]) /\ Timed(batch'[r]),
           \A m \in Msgs : Carries(inbox', m) => Stamp(m)' = Stamp(m),
           \A r \in Readers, m \in Msgs : Carries(batch'[r], m) => Stamp(m)' = Stamp(m)
    PROVE  Orderly'
<1>1. inbox' \in Seq(Envelope) /\ \A r \in Readers : batch'[r] \in Seq(Envelope)
  BY DEF QueuesOK
<1>2. ASSUME NEW i \in 1 .. Len(inbox') PROVE (inbox[i].time = Stamp(inbox[i].msg))'
  <2>1. inbox'[i] \in Envelope
    BY <1>1, ElementOfSeq
  <2>2. inbox'[i].msg \in Msgs /\ Carries(inbox', inbox'[i].msg)
            /\ inbox'[i].time = Stamp(inbox'[i].msg)
    BY <2>1 DEF Envelope, Carries, Timed
  <2> QED
    BY <2>2 DEF Stamp
<1>3. ASSUME NEW r \in Readers, NEW i \in 1 .. Len(batch'[r])
      PROVE  (batch[r][i].time = Stamp(batch[r][i].msg))'
  <2>1. batch'[r][i] \in Envelope
    BY <1>1, ElementOfSeq
  <2>2. /\ batch'[r][i].msg \in Msgs /\ Carries(batch'[r], batch'[r][i].msg)
        /\ batch'[r][i].time = Stamp(batch'[r][i].msg)
    BY <2>1 DEF Envelope, Carries, Timed
  <2> QED
    BY <2>2 DEF Stamp
<1>4. Timed(inbox)' /\ \A r \in Readers : Timed(batch[r])'
  BY <1>2, <1>3 DEF Timed, Stamp
<1>5. Distinct(inbox)' /\ \A r \in Readers : Distinct(batch[r])'
  OBVIOUS
<1> QED
  BY <1>4, <1>5 DEF Orderly

\* What the message at hand is.
LEMMA CurrentStamped ==
    ASSUME QueuesOK, Orderly, NEW r \in Readers, batch[r] # <<>>
    PROVE  /\ Current(r).msg \in Msgs /\ Carries(batch[r], Current(r).msg)
           /\ Current(r).time = Stamp(Current(r).msg)
           /\ Current(r).time \in Times
<1>1. batch[r] \in Seq(Envelope) /\ Distinct(batch[r]) /\ Timed(batch[r])
  BY DEF QueuesOK, Orderly
<1> QED
  BY <1>1, CurrentFacts, TailCarries DEF Current

\* The consumer drops a message.

DeclineEffect ==
    /\ Current(Consumer).msg \in Msgs /\ Carries(batch[Consumer], Current(Consumer).msg)
    /\ Current(Consumer).time = Stamp(Current(Consumer).msg)
    /\ \A q \in Readers, m \in Msgs :
          Carries(batch'[q], m) <=> Carries(batch[q], m) /\ ~(q = Consumer /\ m = Current(Consumer).msg)
    /\ \A q \in Readers : Distinct(batch'[q]) /\ Timed(batch'[q])
    /\ \A m : ~Uploading(m) /\ ~Uploading(m)'
    /\ at'[Consumer] \in {"idle", "next"}
    /\ \A q \in Readers : q # Consumer => batch'[q] = batch[q] /\ at'[q] = at[q]
    /\ at[Consumer] = "next"
    /\ IsProcessed(Current(Consumer).time)
           \/ KindOf[Current(Consumer).msg] \in {"approval", "text", "sync"}
    /\ UNCHANGED <<inbox, pending, processed, keys, key, left, now, acted, stored,
                  told, sentAt, parkedAt, faults>>


ForwardEffect(k) ==
    /\ Current(Consumer).msg \in Msgs /\ Carries(batch[Consumer], Current(Consumer).msg)
    /\ Current(Consumer).time = Stamp(Current(Consumer).msg)
    /\ \A q \in Readers, m \in Msgs :
          Carries(batch'[q], m) <=> Carries(batch[q], m) /\ ~(q = Consumer /\ m = Current(Consumer).msg)
    /\ \A q \in Readers : Distinct(batch'[q]) /\ Timed(batch'[q])
    /\ \A m : ~Uploading(m) /\ ~Uploading(m)'
    /\ at'[Consumer] \in {"idle", "next"}
    /\ \A q \in Readers : q # Consumer => batch'[q] = batch[q] /\ at'[q] = at[q]
    /\ KindOf[Current(Consumer).msg] \in {"command", "help"} /\ (faults' = 0 => faults = 0)
           /\ at[Consumer] = "next"
    /\ \/ UNCHANGED <<acted, pending, parkedAt>> /\ (secret => faults' > 0)
       \/ /\ \A x \in Msgs :
                /\ parkedAt'[x] = IF x = Current(Consumer).msg THEN k ELSE parkedAt[x]
                /\ acted'[x] = IF x = Current(Consumer).msg THEN acted[x] + Answers(x) ELSE acted[x]
          /\ DOMAIN pending' = DOMAIN pending \cup {k}
          /\ pending'[k] = Current(Consumer).msg
          /\ \A j \in DOMAIN pending : j # k => pending'[j] = pending[j]
          /\ UNCHANGED faults /\ secret
    /\ UNCHANGED <<inbox, processed, keys, key, left, stored, told, sentAt>>


MarkEffect ==
    /\ Current(Consumer).msg \in Msgs /\ Carries(batch[Consumer], Current(Consumer).msg)
    /\ Current(Consumer).time = Stamp(Current(Consumer).msg)
    /\ Current(Consumer).time \in Times
    /\ \A m : ~Uploading(m) /\ (Uploading(m)' <=> m = Current(Consumer).msg)
    /\ \A q \in Readers : q # Consumer => at'[q] = at[q]
    /\ at[Consumer] = "next" /\ at'[Consumer] = "upload" /\ KindOf[Current(Consumer).msg] \in Uploads
    /\ ~IsProcessed(Current(Consumer).time)
    /\ processed' = processed \cup {Current(Consumer).time} /\ left' = FilesOf[Current(Consumer).msg]
    /\ UNCHANGED <<inbox, pending, batch, keys, key, now, acted, stored, told, sentAt,
                  parkedAt, faults>>


UploadEffect ==
    /\ Current(Consumer).msg \in Msgs /\ Carries(batch[Consumer], Current(Consumer).msg)
    /\ Current(Consumer).time = Stamp(Current(Consumer).msg)
    /\ \A m : Uploading(m) <=> m = Current(Consumer).msg
    /\ left = 1 =>
       /\ \A q \in Readers, m \in Msgs :
             Carries(batch'[q], m) <=> Carries(batch[q], m)
                 /\ ~(q = Consumer /\ m = Current(Consumer).msg)
       /\ \A q \in Readers : Distinct(batch'[q]) /\ Timed(batch'[q])
       /\ \A m : ~Uploading(m)'
       /\ at'[Consumer] \in {"idle", "next"}
    /\ left # 1 => UNCHANGED <<at, batch>> /\ \A m : Uploading(m)' <=> Uploading(m)
    /\ \A q \in Readers : q # Consumer => batch'[q] = batch[q] /\ at'[q] = at[q]
    /\ left > 0 /\ left' = left - 1 /\ at[Consumer] = "upload"
    /\ \/ /\ \A x \in Msgs : stored'[x] = IF x = Current(Consumer).msg THEN stored[x] + 1 ELSE stored[x]
          /\ \/ told' = Reply(Current(Consumer).msg, TRUE) /\ UNCHANGED faults
             \/ told' = Reply(Current(Consumer).msg, FALSE) /\ faults' = faults + 1
       \/ UNCHANGED stored /\ told' = Reply(Current(Consumer).msg, FALSE) /\ faults' = faults + 1
    /\ UNCHANGED <<inbox, pending, processed, keys, key, now, acted, sentAt, parkedAt>>


ConsumerReceiveEffect ==
    /\ \A q \in Readers, m \in Msgs :
          Carries(batch'[q], m) <=> IF q = Consumer THEN Carries(inbox, m) ELSE Carries(batch[q], m)
    /\ \A q \in Readers : Distinct(batch'[q]) /\ Timed(batch'[q])
    /\ \A m \in Msgs : ~Carries(inbox', m)
    /\ Distinct(inbox') /\ Timed(inbox')
    /\ \A m : ~Uploading(m) /\ ~Uploading(m)'
    /\ \A q \in Readers : q # Consumer => at'[q] = at[q]
    /\ \A m \in Msgs : ~Carries(batch[Consumer], m)
    /\ at[Consumer] = "idle" /\ at'[Consumer] = "next"
    /\ UNCHANGED <<pending, processed, keys, key, left, now, acted, stored, told,
                  sentAt, parkedAt, faults>>


ReceiveEffect(p) ==
    /\ \A q \in Readers, m \in Msgs :
          Carries(batch'[q], m) <=> IF q = p THEN Carries(inbox, m) ELSE Carries(batch[q], m)
    /\ \A q \in Readers : Distinct(batch'[q]) /\ Timed(batch'[q])
    /\ \A m \in Msgs : ~Carries(inbox', m)
    /\ Distinct(inbox') /\ Timed(inbox')
    /\ \A m : Uploading(m)' <=> Uploading(m)
    /\ at'[p] = "list" /\ \A q \in Readers : q # p => at'[q] = at[q]
    /\ \A m \in Msgs : ~Carries(batch[p], m)
    /\ at[p] = "idle"
    /\ UNCHANGED <<pending, processed, keys, key, left, now, acted, stored, told,
                  sentAt, parkedAt, faults>>


ListKeysEffect(p) ==
    /\ at[p] = "list" /\ at'[p] \in {"idle", "next", "drain"}
    /\ \A q \in Readers : q # p => at'[q] = at[q]
    /\ \A m : Uploading(m)' <=> Uploading(m)
    /\ keys'[p] = DOMAIN pending /\ \A q \in Polls : q # p => keys'[q] = keys[q]
    /\ UNCHANGED <<inbox, pending, processed, batch, key, left, now, acted, stored,
                  told, sentAt, parkedAt, faults>>


GetKeyEffect(p, k) ==
    /\ at[p] = "drain" /\ k \in keys[p]
    /\ k \in DOMAIN pending =>
       /\ pending[k] \in Msgs
       /\ \A q \in Readers, m \in Msgs :
             Carries(batch'[q], m) <=> Carries(batch[q], m) \/ (q = p /\ m = pending[k])
       /\ batch'[p] = Append(batch[p], [msg |-> pending[k], time |-> k])
       /\ at'[p] = "delete" /\ key'[p] = k
    /\ k \notin DOMAIN pending => batch' = batch /\ key' = key /\ at'[p] \in {"idle", "next", "drain"}
    /\ \A q \in Readers : q # p => at'[q] = at[q] /\ batch'[q] = batch[q]
    /\ \A m : Uploading(m)' <=> Uploading(m)
    /\ keys'[p] = keys[p] \ {k} /\ \A q \in Polls : q # p => keys'[q] = keys[q] /\ key'[q] = key[q]
    /\ UNCHANGED <<inbox, pending, processed, left, now, acted, stored, told, sentAt,
                  parkedAt, faults>>


DeleteKeyEffect(p) ==
    /\ at[p] = "delete" /\ at'[p] \in {"next", "drain"}
    /\ \A q \in Readers : q # p => at'[q] = at[q]
    /\ \A m : Uploading(m)' <=> Uploading(m)
    /\ key'[p] = 0 /\ \A q \in Polls : q # p => key'[q] = key[q]
    /\ DOMAIN pending' = DOMAIN pending \ {key[p]}
    /\ \A k \in DOMAIN pending' : pending'[k] = pending[k]
    /\ UNCHANGED <<inbox, processed, batch, keys, left, now, acted, stored, told,
                  sentAt, parkedAt, faults>>


HandleEffect(p) ==
    /\ Current(p).msg \in Msgs /\ Carries(batch[p], Current(p).msg)
    /\ Current(p).time = Stamp(Current(p).msg)
    /\ at[p] = "next" /\ at'[p] \in {"idle", "next"}
    /\ \A q \in Readers : q # p => at'[q] = at[q] /\ batch'[q] = batch[q]
    /\ \A m : Uploading(m)' <=> Uploading(m)
    /\ \A q \in Readers, m \in Msgs : Carries(batch'[q], m) => Carries(batch[q], m)
    /\ ~Carries(batch'[p], Current(p).msg)
    /\ faults' = faults => \A q \in Readers, m \in Msgs :
          Carries(batch'[q], m) <=> Carries(batch[q], m) /\ ~(q = p /\ m = Current(p).msg)
    /\ \A q \in Readers : Distinct(batch'[q]) /\ Timed(batch'[q])
    /\ \/ /\ UNCHANGED <<acted, faults>>
          /\ IsProcessed(Current(p).time) \/ ~ActsOn(Current(p).msg)
       \/ /\ acted' = [acted EXCEPT ![Current(p).msg] = @ + 1]
          /\ ~IsProcessed(Current(p).time) /\ ActsOn(Current(p).msg)
          /\ faults' \in {faults, faults + 1}
    /\ acted' = [acted EXCEPT ![Current(p).msg] = @ + 1] =>
          \A x \in Msgs : acted'[x] = IF x = Current(p).msg THEN acted[x] + 1 ELSE acted[x]
    /\ UNCHANGED <<inbox, pending, processed, keys, key, left, now, stored, told,
                  sentAt, parkedAt>>


ConsumerFailsEffect ==
    /\ \A q \in Readers, m \in Msgs : Carries(batch'[q], m) <=> Carries(batch[q], m) /\ q # Consumer
    /\ \A q \in Readers : Distinct(batch'[q]) /\ Timed(batch'[q])
    /\ \A q \in Readers : q # Consumer => at'[q] = at[q] /\ batch'[q] = batch[q]
    /\ \A m : ~Uploading(m)'
    /\ faults' = faults + 1 /\ left' = 0 /\ at'[Consumer] = "idle"
    /\ UNCHANGED <<inbox, pending, processed, keys, key, now, acted, stored, told,
                  sentAt, parkedAt>>


PollFailsEffect(p) ==
    /\ \A q \in Readers, m \in Msgs : Carries(batch'[q], m) <=> Carries(batch[q], m) /\ q # p
    /\ \A q \in Readers : Distinct(batch'[q]) /\ Timed(batch'[q])
    /\ \A q \in Readers : q # p => at'[q] = at[q] /\ batch'[q] = batch[q]
    /\ at'[p] = "idle" /\ key'[p] = 0 /\ keys'[p] = {}
    /\ \A q \in Polls : q # p => key'[q] = key[q] /\ keys'[q] = keys[q]
    /\ \A m : Uploading(m)' <=> Uploading(m)
    /\ faults' = faults + 1
    /\ UNCHANGED <<inbox, pending, processed, left, now, acted, stored, told, sentAt,
                  parkedAt>>


SendEffect(m, time) ==
    /\ inbox' = Append(inbox, [msg |-> m, time |-> time])
    /\ \A x \in Msgs : Carries(inbox', x) <=> Carries(inbox, x) \/ x = m
    /\ sentAt[m] = 0 /\ time # 0 /\ \A x \in Msgs : sentAt'[x] = IF x = m THEN time ELSE sentAt[x]
    /\ \A x : Uploading(x)' <=> Uploading(x)
    /\ UNCHANGED <<pending, processed, at, batch, keys, key, left, now, acted, stored,
                  told, parkedAt, faults>>

\* A parked command expires.
ExpireEffect(k) ==
    /\ DOMAIN pending' = DOMAIN pending \ {k}
    /\ \A j \in DOMAIN pending' : pending'[j] = pending[j]
    /\ faults' = faults + 1
    /\ \A m : Uploading(m)' <=> Uploading(m)
    /\ UNCHANGED <<inbox, processed, at, batch, keys, key, left, acted, stored, told, sentAt, parkedAt>>

\* What was in signal-api is lost.
ReceiveLostEffect ==
    /\ \A m \in Msgs : ~Carries(inbox', m)
    /\ Distinct(inbox') /\ Timed(inbox')
    /\ faults' = faults + 1
    /\ \A m : Uploading(m)' <=> Uploading(m)
    /\ UNCHANGED <<pending, processed, at, batch, keys, key, left, acted, stored, told, sentAt,
           parkedAt>>

NoEffect ==
    /\ \A m : Uploading(m)' <=> Uploading(m)
    /\ UNCHANGED vars

Effect ==
    \/ \E m \in Msgs, time \in Times : SendEffect(m, time)
    \/ \E k \in Times : ExpireEffect(k)
    \/ ReceiveLostEffect
    \/ ConsumerReceiveEffect
    \/ DeclineEffect
    \/ \E k \in Times : ForwardEffect(k)
    \/ MarkEffect
    \/ UploadEffect
    \/ ConsumerFailsEffect
    \/ \E p \in Polls : ReceiveEffect(p)
    \/ \E p \in Polls : ListKeysEffect(p)
    \/ \E p \in Polls, k \in Times : GetKeyEffect(p, k)
    \/ \E p \in Polls : DeleteKeyEffect(p)
    \/ \E p \in Polls : HandleEffect(p)
    \/ \E p \in Polls : PollFailsEffect(p)
    \/ NoEffect

LEMMA DeclineCarries ==
    ASSUME QueuesOK, KeysOK, PlacesOK, CountsOK, StampsOK, Orderly,
           Decline
    PROVE  DeclineEffect
<1> USE DEF DeclineEffect
<1>1. Consumer \in Readers /\ at[Consumer] = "next" /\ batch[Consumer] # <<>> /\ NextMessage(Consumer)
  BY ReaderFacts DEF Decline, Handling, PlacesOK
<1>2. at'[Consumer] \in {"idle", "next"}
      /\ \A q \in Readers : q # Consumer => batch'[q] = batch[q] /\ at'[q] = at[q]
  BY <1>1, NextMessageFacts
<1>3. UNCHANGED <<inbox, pending, processed, keys, key, left, now, acted, stored,
                    told, sentAt, parkedAt, faults>>
  BY DEF Decline, consumerVars, pollVars, parkVars
<1>4. /\ at[Consumer] = "next"
      /\ IsProcessed(Current(Consumer).time)
             \/ KindOf[Current(Consumer).msg] \in {"approval", "text", "sync"}
  BY DEF Decline, Handling
<1> QED
  BY <1>3, <1>4, <1>1, <1>2, NextMessageCarries, CurrentStamped, NotUploading

\* The consumer passes a message on.
LEMMA ForwardCarries ==
    ASSUME QueuesOK, KeysOK, PlacesOK, CountsOK, StampsOK, Orderly,
           NEW k \in Times, Forward(k)
    PROVE  ForwardEffect(k)
<1> USE DEF ForwardEffect
<1>1. Consumer \in Readers /\ at[Consumer] = "next" /\ batch[Consumer] # <<>> /\ NextMessage(Consumer)
  BY ReaderFacts DEF Forward, Handling, PlacesOK
<1>2. at'[Consumer] \in {"idle", "next"}
      /\ \A q \in Readers : q # Consumer => batch'[q] = batch[q] /\ at'[q] = at[q]
  BY <1>1, NextMessageFacts
<1>3. UNCHANGED <<inbox, processed, keys, key, left, stored, told, sentAt>>
  BY DEF Forward, consumerVars, pollVars
<1>4. /\ KindOf[Current(Consumer).msg] \in {"command", "help"} /\ (faults' = 0 => faults = 0)
             /\ at[Consumer] = "next"
      /\ \/ UNCHANGED <<acted, pending, parkedAt>> /\ (secret => faults' > 0)
         \/ /\ \A x \in Msgs :
                  /\ parkedAt'[x] = IF x = Current(Consumer).msg THEN k ELSE parkedAt[x]
                  /\ acted'[x] = IF x = Current(Consumer).msg THEN acted[x] + Answers(x) ELSE acted[x]
            /\ DOMAIN pending' = DOMAIN pending \cup {k}
            /\ pending'[k] = Current(Consumer).msg
            /\ \A j \in DOMAIN pending : j # k => pending'[j] = pending[j]
            /\ UNCHANGED faults /\ secret
  <2>1. Current(Consumer).msg \in Msgs
    BY <1>1, CurrentStamped
  <2>2. CASE handleSignalCommand(Current(Consumer).msg, k) /\ UNCHANGED faults /\ secret
    <3>1. ASSUME NEW x \in Msgs
          PROVE  /\ parkedAt'[x] = IF x = Current(Consumer).msg THEN k ELSE parkedAt[x]
                 /\ acted'[x] = IF x = Current(Consumer).msg THEN acted[x] + Answers(x) ELSE acted[x]
      BY <2>1, <2>2 DEF handleSignalCommand, Answers, CountsOK, StampsOK
    <3>2. /\ DOMAIN pending' = DOMAIN pending \cup {k}
          /\ pending'[k] = Current(Consumer).msg
          /\ \A j \in DOMAIN pending : j # k => pending'[j] = pending[j]
      BY <2>2 DEF handleSignalCommand
    <3>3. KindOf[Current(Consumer).msg] \in {"command", "help"}
      BY DEF Forward, Handling
    <3> QED
      BY <1>1, <2>2, <3>1, <3>2, <3>3
  <2>3. CASE ~(handleSignalCommand(Current(Consumer).msg, k) /\ UNCHANGED faults /\ secret)
    BY <1>1, <2>3 DEF Forward, Handling, parkVars, Fault, CountsOK
  <2> QED
    BY <2>2, <2>3
<1> QED
  BY <1>3, <1>4, <1>1, <1>2, NextMessageCarries, CurrentStamped, NotUploading

\* The consumer starts to upload a message.
LEMMA MarkCarries ==
    ASSUME QueuesOK, KeysOK, PlacesOK, CountsOK, StampsOK, Orderly,
           mark_processed
    PROVE  MarkEffect
<1> USE DEF MarkEffect
<1>1. /\ Consumer \in Readers /\ at[Consumer] = "next" /\ batch[Consumer] # <<>>
      /\ at' = [at EXCEPT ![Consumer] = "upload"] /\ batch' = batch /\ Consumer \in DOMAIN at
  BY ReaderFacts DEF mark_processed, Handling, GoTo, PlacesOK
<1>2. at'[Consumer] = "upload" /\ \A q \in Readers : q # Consumer => at'[q] = at[q]
  BY <1>1 DEF PlacesOK
<1>3. \A m : Uploading(m)' <=> m = Current(Consumer).msg
  BY <1>1, <1>2 DEF Uploading, Current
<1>4. UNCHANGED <<inbox, pending, batch, keys, key, now, acted, stored, told, sentAt,
                    parkedAt, faults>>
  BY DEF mark_processed, pollVars, parkVars
<1>5. /\ at[Consumer] = "next" /\ at'[Consumer] = "upload" /\ KindOf[Current(Consumer).msg] \in Uploads
      /\ ~IsProcessed(Current(Consumer).time)
      /\ processed' = processed \cup {Current(Consumer).time} /\ left' = FilesOf[Current(Consumer).msg]
  BY <1>1 DEF mark_processed, Handling, Uploads, PlacesOK
<1> QED
  BY <1>4, <1>5, <1>1, <1>2, <1>3, CurrentStamped, NotUploading

\* The consumer drops a message with the last upload.
LEMMA UploadCarries ==
    ASSUME QueuesOK, KeysOK, PlacesOK, CountsOK, StampsOK, Orderly,
           upload_to_paperless
    PROVE  UploadEffect
<1> USE DEF UploadEffect
<1>1. Consumer \in Readers /\ at[Consumer] = "upload" /\ batch[Consumer] # <<>>
  BY ReaderFacts DEF upload_to_paperless, PlacesOK
<1>2. \A m : Uploading(m) <=> m = Current(Consumer).msg
  BY <1>1 DEF Uploading
<1>3. UNCHANGED <<inbox, pending, processed, keys, key, now, acted, sentAt, parkedAt>>
  BY DEF upload_to_paperless, pollVars, parkVars
<1>4. /\ left > 0 /\ left' = left - 1 /\ at[Consumer] = "upload"
      /\ \/ /\ \A x \in Msgs :
             stored'[x] = IF x = Current(Consumer).msg THEN stored[x] + 1 ELSE stored[x]
            /\ \/ told' = Reply(Current(Consumer).msg, TRUE) /\ UNCHANGED faults
               \/ told' = Reply(Current(Consumer).msg, FALSE) /\ faults' = faults + 1
         \/ UNCHANGED stored /\ told' = Reply(Current(Consumer).msg, FALSE) /\ faults' = faults + 1
  <2>1. Current(Consumer).msg \in Msgs
    BY <1>1, CurrentStamped
  <2>2. stored' = [stored EXCEPT ![Current(Consumer).msg] = @ + 1] =>
           \A x \in Msgs : stored'[x] = IF x = Current(Consumer).msg THEN stored[x] + 1 ELSE stored[x]
    BY <2>1 DEF CountsOK
  <2>3. left > 0 /\ left' = left - 1 /\ at[Consumer] = "upload"
    BY <1>1 DEF upload_to_paperless, PlacesOK
  <2>4. \/ /\ stored' = [stored EXCEPT ![Current(Consumer).msg] = @ + 1]
           /\ \/ told' = Reply(Current(Consumer).msg, TRUE) /\ UNCHANGED faults
              \/ told' = Reply(Current(Consumer).msg, FALSE) /\ faults' = faults + 1
        \/ UNCHANGED stored /\ told' = Reply(Current(Consumer).msg, FALSE) /\ faults' = faults + 1
    BY DEF upload_to_paperless, Fault
  <2> QED
    BY <2>2, <2>3, <2>4
<1>5. CASE left = 1
  <2>1. NextMessage(Consumer)
    BY <1>5 DEF upload_to_paperless
  <2>2. at'[Consumer] \in {"idle", "next"}
        /\ \A q \in Readers : q # Consumer => batch'[q] = batch[q] /\ at'[q] = at[q]
    BY <1>1, <2>1, NextMessageFacts
  <2> QED
    BY <1>3, <1>4, <1>1, <1>2, <1>5, <2>1, <2>2, NextMessageCarries, CurrentStamped, NotUploading
<1>6. CASE left # 1
  <2>1. UNCHANGED <<at, batch>>
    BY <1>6 DEF upload_to_paperless
  <2> QED
    BY <1>3, <1>4, <1>1, <1>2, <1>6, <2>1, UploadingKept, CurrentStamped
<1> QED
  BY <1>5, <1>6

\* The consumer empties signal-api.
LEMMA ConsumerReceiveCarries ==
    ASSUME QueuesOK, KeysOK, PlacesOK, CountsOK, StampsOK, Orderly,
           ConsumerReceive
    PROVE  ConsumerReceiveEffect
<1> USE DEF ConsumerReceiveEffect
<1>1. /\ Consumer \in Readers /\ batch' = [batch EXCEPT ![Consumer] = inbox] /\ inbox' = <<>>
      /\ at[Consumer] = "idle" /\ at' = [at EXCEPT ![Consumer] = "next"]
  BY ReaderFacts DEF ConsumerReceive, GoTo
<1>2. at'[Consumer] = "next" /\ \A q \in Readers : q # Consumer => at'[q] = at[q]
  BY <1>1 DEF PlacesOK
<1>3. batch[Consumer] = <<>>
  BY <1>1 DEF PlacesOK
<1>4. UNCHANGED <<pending, processed, keys, key, left, now, acted, stored, told,
                    sentAt, parkedAt, faults>>
  BY DEF ConsumerReceive, consumerVars, pollVars, parkVars
<1>5. at[Consumer] = "idle" /\ at'[Consumer] = "next"
  BY <1>1, <1>2
<1> QED
  BY <1>4, <1>5, <1>1, <1>2, <1>3, ReceiveCarries, NotUploading, EmptyCarries

\* A poll empties signal-api.
LEMMA ReceivePollCarries ==
    ASSUME QueuesOK, KeysOK, PlacesOK, CountsOK, StampsOK, Orderly,
           NEW p \in Polls, Receive(p)
    PROVE  ReceiveEffect(p)
<1> USE DEF ReceiveEffect
<1>1. /\ p \in Readers /\ p # Consumer /\ batch' = [batch EXCEPT ![p] = inbox] /\ inbox' = <<>>
      /\ at[p] = "idle" /\ at' = [at EXCEPT ![p] = "list"] /\ Consumer \in Readers
  BY ReaderFacts DEF Receive, GoTo
<1>2. at'[p] = "list" /\ \A q \in Readers : q # p => at'[q] = at[q] /\ batch'[q] = batch[q]
  BY <1>1 DEF PlacesOK, QueuesOK
<1>3. batch[p] = <<>>
  BY <1>1 DEF PlacesOK
<1>4. UNCHANGED <<pending, processed, keys, key, left, now, acted, stored, told,
                    sentAt, parkedAt, faults>>
  BY DEF Receive, consumerVars, pollVars, parkVars
<1>5. at[p] = "idle"
  BY <1>1
<1> QED
  BY <1>4, <1>5, <1>1, <1>2, <1>3, ReceiveCarries, UploadingKept, EmptyCarries

\* Listing keys moves no message.
LEMMA ListKeysCarries ==
    ASSUME QueuesOK, KeysOK, PlacesOK, CountsOK, StampsOK, Orderly,
           NEW p \in Polls, ListKeys(p)
    PROVE  ListKeysEffect(p)
<1> USE DEF ListKeysEffect
<1>1. p \in Readers /\ p # Consumer /\ Consumer \in Readers /\ at[p] = "list" /\ batch' = batch
  BY ReaderFacts DEF ListKeys
<1>2. at'[p] \in {"idle", "next", "drain"} /\ \A q \in Readers : q # p => at'[q] = at[q]
  BY <1>1 DEF ListKeys, StartLoop, GoTo, PlacesOK
<1>3. keys'[p] = DOMAIN pending /\ \A q \in Polls : q # p => keys'[q] = keys[q]
  BY DEF ListKeys, KeysOK
<1>4. UNCHANGED <<inbox, pending, processed, batch, key, left, now, acted, stored,
                    told, sentAt, parkedAt, faults>>
  BY DEF ListKeys, consumerVars, parkVars
<1> QED
  BY <1>4, <1>1, <1>2, <1>3, UploadingKept

\* A poll that reads a key has its message as well.
LEMMA GetKeyCarries ==
    ASSUME QueuesOK, KeysOK, PlacesOK, CountsOK, StampsOK, Orderly,
           NEW p \in Polls, NEW k \in Times, GetKey(p, k)
    PROVE  GetKeyEffect(p, k)
<1> USE DEF GetKeyEffect
<1>1. p \in Readers /\ p # Consumer /\ Consumer \in Readers /\ at[p] = "drain" /\ k \in keys[p]
  BY ReaderFacts DEF GetKey
<1>2. keys'[p] = keys[p] \ {k} /\ \A q \in Polls : q # p => keys'[q] = keys[q]
  BY DEF GetKey, KeysOK
<1>3. UNCHANGED <<inbox, pending, processed, left, now, acted, stored, told, sentAt,
                    parkedAt, faults>>
  BY DEF GetKey, consumerVars, parkVars
<1>4. CASE k \in DOMAIN pending
  <2>1. /\ batch' = [batch EXCEPT ![p] = Append(batch[p], [msg |-> pending[k], time |-> k])]
        /\ key' = [key EXCEPT ![p] = k]
        /\ at' = [at EXCEPT ![p] = "delete"]
    BY <1>4 DEF GetKey, GoTo
  <2>2. /\ batch'[p] = Append(batch[p], [msg |-> pending[k], time |-> k])
        /\ \A q \in Readers : q # p => at'[q] = at[q] /\ batch'[q] = batch[q]
        /\ at'[p] = "delete" /\ key'[p] = k /\ \A q \in Polls : q # p => key'[q] = key[q]
    BY <1>1, <2>1 DEF QueuesOK, PlacesOK, KeysOK
  <2>3. pending[k] \in Msgs /\ [msg |-> pending[k], time |-> k] \in Envelope
        /\ batch[p] \in Seq(Envelope)
    BY <1>1, <1>4 DEF KeysOK, Envelope, QueuesOK
  <2>4. \A m \in Msgs : Carries(batch'[p], m) <=> Carries(batch[p], m) \/ m = pending[k]
    BY <2>2, <2>3, AppendCarries
  <2> QED
    BY <1>3, <1>1, <1>2, <1>4, <2>2, <2>3, <2>4, UploadingKept
<1>5. CASE k \notin DOMAIN pending
  <2>1. batch' = batch /\ key' = key /\ (UNCHANGED at \/ StartLoop(p, batch[p]))
    BY <1>5 DEF GetKey
  <2>2. at'[p] \in {"idle", "next", "drain"} /\ \A q \in Readers : q # p => at'[q] = at[q]
    BY <1>1, <2>1 DEF StartLoop, GoTo, PlacesOK
  <2> QED
    BY <1>3, <1>1, <1>2, <1>5, <2>1, <2>2, UploadingKept
<1> QED
  BY <1>4, <1>5

\* Deleting a key moves no message between readers.
LEMMA DeleteKeyCarries ==
    ASSUME QueuesOK, KeysOK, PlacesOK, CountsOK, StampsOK, Orderly,
           NEW p \in Polls, DeleteKey(p)
    PROVE  DeleteKeyEffect(p)
<1> USE DEF DeleteKeyEffect
<1>1. p \in Readers /\ p # Consumer /\ Consumer \in Readers /\ at[p] = "delete" /\ batch' = batch
  BY ReaderFacts DEF DeleteKey
<1>2. at'[p] \in {"next", "drain"} /\ \A q \in Readers : q # p => at'[q] = at[q]
  BY <1>1 DEF DeleteKey, GoTo, PlacesOK
<1>3. key'[p] = 0 /\ \A q \in Polls : q # p => key'[q] = key[q]
  BY DEF DeleteKey, KeysOK
<1>4. DOMAIN pending' = DOMAIN pending \ {key[p]} /\ \A k \in DOMAIN pending' : pending'[k] = pending[k]
  BY DEF DeleteKey
<1>5. UNCHANGED <<inbox, processed, batch, keys, left, now, acted, stored, told,
                    sentAt, parkedAt, faults>>
  BY DEF DeleteKey, consumerVars
<1> QED
  BY <1>5, <1>1, <1>2, <1>3, <1>4, UploadingKept

\* A poll that has handled a message has dropped it, and all others if a call
\* failed.
LEMMA HandleCarries ==
    ASSUME QueuesOK, KeysOK, PlacesOK, CountsOK, StampsOK, Orderly,
           NEW p \in Polls, HandleMessage(p)
    PROVE  HandleEffect(p)
<1> USE DEF HandleEffect
<1>1. p \in Readers /\ p # Consumer /\ Consumer \in Readers /\ at[p] = "next" /\ batch[p] # <<>>
  BY ReaderFacts DEF HandleMessage, PlacesOK
<1>2. /\ Current(p).msg \in Msgs /\ Carries(batch[p], Current(p).msg)
      /\ Current(p).time = Stamp(Current(p).msg)
  BY <1>1, CurrentStamped
<1>3. UNCHANGED <<inbox, pending, processed, keys, key, left, now, stored, told,
                    sentAt, parkedAt>>
  BY DEF HandleMessage, consumerVars, pollVars, parkVars
<1>4. acted' = [acted EXCEPT ![Current(p).msg] = @ + 1] =>
         \A x \in Msgs : acted'[x] = IF x = Current(p).msg THEN acted[x] + 1 ELSE acted[x]
  BY <1>2 DEF CountsOK
<1>5. CASE NextMessage(p) /\ UNCHANGED faults
  <2>1. /\ \A q \in Readers : q # p => at'[q] = at[q] /\ batch'[q] = batch[q]
        /\ at'[p] \in {"idle", "next"}
    BY <1>1, <1>5, NextMessageFacts
  <2>2. /\ \A q \in Readers, m \in Msgs :
              Carries(batch'[q], m) <=> Carries(batch[q], m) /\ ~(q = p /\ m = Current(p).msg)
        /\ \A q \in Readers : Distinct(batch'[q]) /\ Timed(batch'[q])
    BY <1>1, <1>5, NextMessageCarries
  <2>3. \A m : Uploading(m)' <=> Uploading(m)
    BY <1>1, <2>1, UploadingKept
  <2>4. \/ /\ UNCHANGED <<acted, faults>>
           /\ IsProcessed(Current(p).time) \/ ~ActsOn(Current(p).msg)
        \/ /\ acted' = [acted EXCEPT ![Current(p).msg] = @ + 1]
           /\ ~IsProcessed(Current(p).time) /\ ActsOn(Current(p).msg)
           /\ faults' \in {faults, faults + 1}
    BY <1>5 DEF HandleMessage, Fault
  <2> QED
    BY <1>3, <1>4, <1>1, <1>2, <2>1, <2>2, <2>3, <2>4
<1>6. CASE Abort(p) /\ faults' = faults + 1 /\ ~(NextMessage(p) /\ UNCHANGED faults)
  <2>1. /\ \A q \in Readers, m \in Msgs : Carries(batch'[q], m) <=> Carries(batch[q], m) /\ q # p
        /\ \A q \in Readers : Distinct(batch'[q]) /\ Timed(batch'[q])
        /\ \A q \in Readers : q # p => at'[q] = at[q] /\ batch'[q] = batch[q]
        /\ at'[p] = "idle"
    BY <1>1, <1>6, AbortCarries
  <2>2. \A m : Uploading(m)' <=> Uploading(m)
    BY <1>1, <2>1, UploadingKept
  <2>3. /\ acted' = [acted EXCEPT ![Current(p).msg] = @ + 1]
        /\ ~IsProcessed(Current(p).time) /\ ActsOn(Current(p).msg)
        /\ faults' \in {faults, faults + 1} /\ faults' # faults
    BY <1>6 DEF HandleMessage, Fault, CountsOK
  <2> QED
    BY <1>3, <1>4, <1>1, <1>2, <2>1, <2>2, <2>3
<1> QED
  BY <1>5, <1>6 DEF HandleMessage, Fault

\* The consumer that fails has no message.
LEMMA ConsumerFailsCarries ==
    ASSUME QueuesOK, KeysOK, PlacesOK, CountsOK, StampsOK, Orderly,
           ConsumerFails
    PROVE  ConsumerFailsEffect
<1> USE DEF ConsumerFailsEffect
<1>1. Consumer \in Readers /\ Abort(Consumer)
  BY ReaderFacts DEF ConsumerFails
<1>2. UNCHANGED <<inbox, pending, processed, keys, key, now, acted, stored, told,
                    sentAt, parkedAt>>
  BY DEF ConsumerFails, pollVars, parkVars
<1>3. faults' = faults + 1 /\ left' = 0 /\ at'[Consumer] = "idle"
  BY <1>1, AbortCarries DEF ConsumerFails, Fault
<1> QED
  BY <1>2, <1>3, <1>1, AbortCarries, NotUploading

\* A poll that fails has no message.
LEMMA PollFailsCarries ==
    ASSUME QueuesOK, KeysOK, PlacesOK, CountsOK, StampsOK, Orderly,
           NEW p \in Polls, PollFails(p)
    PROVE  PollFailsEffect(p)
<1> USE DEF PollFailsEffect
<1>1. p \in Readers /\ Consumer \in Readers /\ p # Consumer /\ Abort(p)
  BY ReaderFacts DEF PollFails
<1>2. /\ \A q \in Readers : q # p => at'[q] = at[q] /\ batch'[q] = batch[q]
      /\ at'[p] = "idle"
  BY <1>1, AbortCarries
<1>3. /\ key'[p] = 0 /\ keys'[p] = {}
      /\ \A q \in Polls : q # p => key'[q] = key[q] /\ keys'[q] = keys[q]
  BY DEF PollFails, KeysOK
<1>4. UNCHANGED <<inbox, pending, processed, left, now, acted, stored, told, sentAt,
                    parkedAt>>
  BY DEF PollFails, consumerVars, parkVars
<1>5. faults' = faults + 1
  BY DEF PollFails, Fault
<1> QED
  BY <1>4, <1>5, <1>1, <1>2, <1>3, AbortCarries, UploadingKept

\* A message arrives at signal-api.
LEMMA SendCarries ==
    ASSUME QueuesOK, KeysOK, PlacesOK, CountsOK, StampsOK, Orderly,
           NEW m \in Msgs, NEW time \in Times, Send(m, time)
    PROVE  SendEffect(m, time)
<1> USE DEF SendEffect
<1>1. inbox' = Append(inbox, [msg |-> m, time |-> time]) /\ [msg |-> m, time |-> time] \in Envelope
  BY DEF Send, Envelope
<1>2. \A x \in Msgs : Carries(inbox', x) <=> Carries(inbox, x) \/ x = m
  BY <1>1, AppendCarries DEF QueuesOK
<1>3. sentAt[m] = 0 /\ time # 0 /\ \A x \in Msgs : sentAt'[x] = IF x = m THEN time ELSE sentAt[x]
  BY DEF Send, Sent, StampsOK, Times
<1>4. at' = at /\ batch' = batch
  BY DEF Send
<1>5. UNCHANGED <<pending, processed, at, batch, keys, key, left, now, acted, stored,
                    told, parkedAt, faults>>
  BY DEF Send, consumerVars, pollVars, parkVars
<1> QED
  BY <1>1, <1>5, <1>2, <1>3, <1>4, UploadingKept

LEMMA ExpireCarries ==
    ASSUME KeysOK, NEW k \in Times, Expire(k)
    PROVE  ExpireEffect(k)
BY UploadingKept DEF Expire, ExpireEffect, Fault, consumerVars, pollVars

LEMMA ReceiveLostCarries == ASSUME ReceiveLost PROVE ReceiveLostEffect
BY UploadingKept, EmptyCarries DEF ReceiveLost, ReceiveLostEffect, Fault, consumerVars, pollVars,
   parkVars

\* Every step has its effect.
LEMMA StepHasEffect ==
    ASSUME QueuesOK, KeysOK, PlacesOK, CountsOK, StampsOK, Orderly, [Next]_vars
    PROVE  Effect
<1>1. CASE Next
  BY <1>1, SendCarries, ExpireCarries, ReceiveLostCarries, ConsumerReceiveCarries, DeclineCarries,
     ForwardCarries, MarkCarries, UploadCarries, ConsumerFailsCarries, ReceivePollCarries,
     ListKeysCarries, GetKeyCarries, DeleteKeyCarries, HandleCarries, PollFailsCarries
     DEF Next, Effect
<1>2. CASE UNCHANGED vars
  BY <1>2, UploadingKept DEF vars, Effect, NoEffect
<1> QED
  BY <1>1, <1>2

-----------------------------------------------------------------------------
(* The invariant, part by part                                             *)

\* No message is received twice, and each under the timestamp it goes by.
LEMMA OrderlyStep ==
    ASSUME QueuesOK, KeysOK, PlacesOK, CountsOK, StampsOK, Orderly,
           Queued, Received, Forwarded, Drained, QueuesOK', Effect
    PROVE  Orderly'
<1> USE DEF Orderly, Stamp
<1>1. ASSUME NEW m \in Msgs, NEW time \in Times, SendEffect(m, time) PROVE Orderly'
  <2>1. /\ inbox' = Append(inbox, [msg |-> m, time |-> time]) /\ [msg |-> m, time |-> time] \in Envelope
        /\ inbox \in Seq(Envelope) /\ batch' = batch /\ parkedAt' = parkedAt
    BY <1>1 DEF SendEffect, Envelope, QueuesOK
  <2>2. sentAt[m] = 0 /\ time # 0 /\ \A x \in Msgs : sentAt'[x] = IF x = m THEN time ELSE sentAt[x]
    BY <1>1 DEF SendEffect
  <2>3. ~Carries(inbox, m) /\ parkedAt[m] = 0 /\ \A r \in Readers : ~Carries(batch[r], m)
    BY <2>2 DEF Queued, Received, Forwarded, Sent
  <2>4. Distinct(inbox')
    BY <2>1, <2>3, AppendCarries
  <2>5. /\ \A x \in Msgs : Carries(inbox, x) => Stamp(x)' = Stamp(x)
        /\ \A r \in Readers, x \in Msgs : Carries(batch[r], x) => Stamp(x)' = Stamp(x)
        /\ Stamp(m)' = time
    BY <2>1, <2>2, <2>3
  <2>6. /\ Len(inbox') = Len(inbox) + 1 /\ Len(inbox) \in Nat
        /\ \A i \in 1 .. Len(inbox) : inbox'[i] = inbox[i]
        /\ inbox'[Len(inbox) + 1] = [msg |-> m, time |-> time]
    BY <2>1, AppendProperties, LenProperties
  <2>7. ASSUME NEW i \in 1 .. Len(inbox') PROVE (inbox[i].time = Stamp(inbox[i].msg))'
    <3>1. CASE i \in 1 .. Len(inbox)
      <4>1. inbox[i] \in Envelope /\ inbox'[i] = inbox[i]
        BY <2>1, <2>6, <3>1, ElementOfSeq
      <4>2. inbox[i].msg \in Msgs /\ Carries(inbox, inbox[i].msg) /\ inbox[i].time = Stamp(inbox[i].msg)
        BY <3>1, <4>1 DEF Envelope, Carries, Timed
      <4> QED
        BY <2>5, <4>1, <4>2
    <3>2. CASE i = Len(inbox) + 1
      BY <2>5, <2>6, <3>2
    <3> QED
      BY <2>6, <3>1, <3>2
  <2>8. ASSUME NEW r \in Readers, NEW i \in 1 .. Len(batch[r])
        PROVE  (batch[r][i].time = Stamp(batch[r][i].msg))'
    <3>1. batch[r][i] \in Envelope
      BY ElementOfSeq DEF QueuesOK
    <3>2. /\ batch[r][i].msg \in Msgs /\ Carries(batch[r], batch[r][i].msg)
          /\ batch[r][i].time = Stamp(batch[r][i].msg)
      BY <3>1 DEF Envelope, Carries, Timed
    <3> QED
      BY <2>1, <2>5, <3>2
  <2> QED
    BY <2>1, <2>4, <2>7, <2>8 DEF Timed
<1>2. ASSUME NEW k \in Times, ExpireEffect(k) PROVE Orderly'
  BY <1>2, OrderlyKept DEF ExpireEffect
<1>3. ASSUME ReceiveLostEffect PROVE Orderly'
  BY <1>3, OrderlyKept DEF ReceiveLostEffect
<1>4. ASSUME ConsumerReceiveEffect PROVE Orderly'
  BY <1>4, OrderlyKept DEF ConsumerReceiveEffect
<1>5. ASSUME DeclineEffect PROVE Orderly'
  BY <1>5, OrderlyKept DEF DeclineEffect
<1>6. ASSUME NEW k \in Times, ForwardEffect(k) PROVE Orderly'
  <2> DEFINE c == Current(Consumer).msg
  <2>1. /\ c \in Msgs /\ Carries(batch[Consumer], c) /\ Consumer \in Readers
        /\ \A q \in Readers, m \in Msgs :
              Carries(batch'[q], m) <=> Carries(batch[q], m) /\ ~(q = Consumer /\ m = c)
        /\ \A q \in Readers : Distinct(batch'[q]) /\ Timed(batch'[q])
        /\ \A x \in Msgs : x # c => parkedAt'[x] = parkedAt[x]
        /\ UNCHANGED <<inbox, sentAt>>
    BY <1>6, ReaderFacts DEF ForwardEffect
  <2>2. ~Carries(inbox, c) /\ \A q \in Readers : ~Carries(batch'[q], c)
    BY <2>1 DEF Queued, Received
  <2>3. \A x \in Msgs : x # c => Stamp(x)' = Stamp(x)
    BY <2>1
  <2> HIDE DEF c
  <2>4. \A x \in Msgs : Carries(inbox', x) => Stamp(x)' = Stamp(x)
    BY <2>1, <2>2, <2>3
  <2>5. \A q \in Readers, x \in Msgs : Carries(batch'[q], x) => Stamp(x)' = Stamp(x)
    BY <2>2, <2>3
  <2> QED
    BY <2>1, <2>4, <2>5, OrderlyKept
<1>7. ASSUME MarkEffect PROVE Orderly'
  BY <1>7, OrderlyKept DEF MarkEffect
<1>8. ASSUME UploadEffect PROVE Orderly'
  BY <1>8, OrderlyKept DEF UploadEffect
<1>9. ASSUME ConsumerFailsEffect PROVE Orderly'
  BY <1>9, OrderlyKept DEF ConsumerFailsEffect
<1>10. ASSUME NEW p \in Polls, ReceiveEffect(p) PROVE Orderly'
  BY <1>10, OrderlyKept DEF ReceiveEffect
<1>11. ASSUME NEW p \in Polls, ListKeysEffect(p) PROVE Orderly'
  BY <1>11, OrderlyKept DEF ListKeysEffect
<1>12. ASSUME NEW p \in Polls, NEW k \in Times, GetKeyEffect(p, k) PROVE Orderly'
  <2>1. /\ p \in Readers /\ batch[p] \in Seq(Envelope) /\ inbox' = inbox /\ parkedAt' = parkedAt
               /\ sentAt' = sentAt
        /\ \A r \in Readers : r # p => batch'[r] = batch[r]
    BY <1>12, ReaderFacts DEF GetKeyEffect, QueuesOK
  <2>2. CASE k \in DOMAIN pending
    <3>1. /\ batch'[p] = Append(batch[p], [msg |-> pending[k], time |-> k])
          /\ pending[k] \in Msgs /\ at[p] = "drain" /\ k \in keys[p] /\ k # 0
      BY <1>12, <2>2 DEF GetKeyEffect, Times
    <3>2. [msg |-> pending[k], time |-> k] \in Envelope /\ Stamp(pending[k]) = k
      BY <2>2, <3>1 DEF Envelope, Forwarded
    <3>3. ~Carries(batch[p], pending[k])
      BY <2>2, <3>1 DEF Drained, Forwarded
    <3>4. Distinct(batch'[p]) /\ Timed(batch'[p])
      BY <2>1, <3>1, <3>2, <3>3, AppendCarries
    <3> QED
      BY <2>1, <3>4, OrderlyKept
  <2>3. CASE k \notin DOMAIN pending
    BY <1>12, <2>1, <2>3, OrderlyKept DEF GetKeyEffect
  <2> QED
    BY <2>2, <2>3
<1>13. ASSUME NEW p \in Polls, DeleteKeyEffect(p) PROVE Orderly'
  BY <1>13, OrderlyKept DEF DeleteKeyEffect
<1>14. ASSUME NEW p \in Polls, HandleEffect(p) PROVE Orderly'
  BY <1>14, OrderlyKept DEF HandleEffect
<1>15. ASSUME NEW p \in Polls, PollFailsEffect(p) PROVE Orderly'
  BY <1>15, OrderlyKept DEF PollFailsEffect
<1>16. ASSUME NoEffect PROVE Orderly'
  BY <1>16, OrderlyKept DEF NoEffect, vars
<1> QED
  BY <1>1, <1>2, <1>3, <1>4, <1>5, <1>6, <1>7, <1>8, <1>9, <1>10, <1>11, <1>12, <1>13,
       <1>14, <1>15, <1>16 DEF Effect

\* No key is zero.
LEMMA NoZero == 0 \notin Times
BY DEF Times

\* What signal-api delivers, it forgets.
LEMMA QueuedStep ==
    ASSUME QueuesOK, KeysOK, PlacesOK, CountsOK, StampsOK, Orderly,
           Queued, Received, Forwarded, Drained, Uploaded, Effect
    PROVE  Queued'
<1> USE ReaderFacts DEF Queued, Sent, StampsOK, CountsOK
<1>1. ASSUME NEW m \in Msgs, NEW time \in Times, SendEffect(m, time) PROVE Queued'
  BY <1>1 DEF SendEffect, Received, Forwarded, Uploaded
<1>2. ASSUME NEW k \in Times, ExpireEffect(k) PROVE Queued'
  BY <1>2 DEF ExpireEffect
<1>3. ASSUME ReceiveLostEffect PROVE Queued'
  BY <1>3 DEF ReceiveLostEffect
<1>4. ASSUME ConsumerReceiveEffect PROVE Queued'
  BY <1>4 DEF ConsumerReceiveEffect
<1>5. ASSUME DeclineEffect PROVE Queued'
  BY <1>5 DEF DeclineEffect
<1>6. ASSUME NEW k \in Times, ForwardEffect(k) PROVE Queued'
  BY <1>6 DEF ForwardEffect, Received
<1>7. ASSUME MarkEffect PROVE Queued'
  BY <1>7 DEF MarkEffect
<1>8. ASSUME UploadEffect PROVE Queued'
  <2> DEFINE c == Current(Consumer).msg
  <2>1. /\ c \in Msgs /\ Carries(batch[Consumer], c) /\ Consumer \in Readers /\ Uploading(c)
        /\ \A x \in Msgs : x # c => stored'[x] = stored[x]
        /\ UNCHANGED <<inbox, pending, acted, parkedAt, sentAt>>
    BY <1>8 DEF UploadEffect
  <2>2. \A q \in Readers, m \in Msgs : Carries(batch'[q], m) => Carries(batch[q], m)
    BY <1>8 DEF UploadEffect
  <2>3. left = 1 => \A m \in Msgs : Carries(batch'[Consumer], m) => m # c
    BY <1>8, <2>1 DEF UploadEffect
  <2>4. left # 1 => \A m \in Msgs : Uploading(m) => Uploading(m)'
    BY <1>8 DEF UploadEffect
  <2> HIDE DEF c
  <2> QED
    BY <2>1, <2>2, <2>3, <2>4 DEF Received
<1>9. ASSUME ConsumerFailsEffect PROVE Queued'
  BY <1>9 DEF ConsumerFailsEffect
<1>10. ASSUME NEW p \in Polls, ReceiveEffect(p) PROVE Queued'
  BY <1>10 DEF ReceiveEffect
<1>11. ASSUME NEW p \in Polls, ListKeysEffect(p) PROVE Queued'
  BY <1>11 DEF ListKeysEffect
<1>12. ASSUME NEW p \in Polls, NEW k \in Times, GetKeyEffect(p, k) PROVE Queued'
  <2>1. k \in DOMAIN pending => pending[k] \in Msgs /\ parkedAt[pending[k]] # 0
    BY NoZero DEF Forwarded, KeysOK
  <2> QED
    BY <1>12, <2>1 DEF GetKeyEffect
<1>13. ASSUME NEW p \in Polls, DeleteKeyEffect(p) PROVE Queued'
  BY <1>13 DEF DeleteKeyEffect
<1>14. ASSUME NEW p \in Polls, HandleEffect(p) PROVE Queued'
  BY <1>14 DEF HandleEffect, Received
<1>15. ASSUME NEW p \in Polls, PollFailsEffect(p) PROVE Queued'
  BY <1>15 DEF PollFailsEffect
<1>16. ASSUME NoEffect PROVE Queued'
  BY <1>16 DEF NoEffect, vars
<1> QED
  BY <1>1, <1>2, <1>3, <1>4, <1>5, <1>6, <1>7, <1>8, <1>9, <1>10, <1>11, <1>12, <1>13,
       <1>14, <1>15, <1>16 DEF Effect

\* A message has one reader, unless it was parked.
LEMMA ReceivedStep ==
    ASSUME QueuesOK, KeysOK, PlacesOK, CountsOK, StampsOK, Orderly,
           Queued, Received, Forwarded, Drained, Uploaded, Effect
    PROVE  Received'
<1> USE ReaderFacts DEF Received, Queued, Sent, StampsOK, CountsOK
<1>1. ASSUME NEW m \in Msgs, NEW time \in Times, SendEffect(m, time) PROVE Received'
  BY <1>1 DEF SendEffect
<1>2. ASSUME NEW k \in Times, ExpireEffect(k) PROVE Received'
  BY <1>2 DEF ExpireEffect
<1>3. ASSUME ReceiveLostEffect PROVE Received'
  BY <1>3 DEF ReceiveLostEffect
<1>4. ASSUME ConsumerReceiveEffect PROVE Received'
  BY <1>4 DEF ConsumerReceiveEffect
<1>5. ASSUME DeclineEffect PROVE Received'
  BY <1>5 DEF DeclineEffect
<1>6. ASSUME NEW k \in Times, ForwardEffect(k) PROVE Received'
  BY <1>6 DEF ForwardEffect
<1>7. ASSUME MarkEffect PROVE Received'
  BY <1>7 DEF MarkEffect, Uploaded
<1>8. ASSUME UploadEffect PROVE Received'
  <2> DEFINE c == Current(Consumer).msg
  <2>1. /\ c \in Msgs /\ Carries(batch[Consumer], c) /\ Consumer \in Readers /\ Uploading(c)
        /\ \A x \in Msgs : x # c => stored'[x] = stored[x]
        /\ UNCHANGED <<inbox, pending, acted, parkedAt, sentAt>>
    BY <1>8 DEF UploadEffect
  <2>2. \A q \in Readers, m \in Msgs : Carries(batch'[q], m) => Carries(batch[q], m)
    BY <1>8 DEF UploadEffect
  <2>3. left = 1 => \A m \in Msgs : Carries(batch'[Consumer], m) => m # c
    BY <1>8, <2>1 DEF UploadEffect
  <2>4. left # 1 => \A m \in Msgs : Uploading(m) => Uploading(m)'
    BY <1>8 DEF UploadEffect
  <2>5. \A m : Uploading(m) => m = c
    BY <1>8 DEF UploadEffect
  <2> HIDE DEF c
  <2>6. ASSUME NEW r \in Readers, NEW m \in Msgs, Carries(batch'[r], m), stored'[m] > 0
        PROVE  r = Consumer /\ Uploading(m)'
    <3>1. Carries(batch[r], m)
      BY <2>2, <2>6
    <3>2. CASE m = c
      <4>1. r = Consumer
        BY <2>1, <3>1, <3>2
      <4> QED
        BY <2>1, <2>3, <2>4, <2>6, <3>2, <4>1
    <3>3. CASE m # c
      BY <2>1, <2>5, <2>6, <3>1, <3>3
    <3> QED
      BY <3>2, <3>3
  <2>7. ASSUME NEW r \in Readers, NEW m \in Msgs, Carries(batch'[r], m)
        PROVE  /\ m \in Sent'
               /\ parkedAt'[m] = 0 => acted'[m] = 0 /\ \A q \in Readers : Carries(batch'[q], m) => q = r
               /\ r = Consumer => parkedAt'[m] = 0
    BY <2>1, <2>2, <2>7
  <2> QED
    BY <2>6, <2>7
<1>9. ASSUME ConsumerFailsEffect PROVE Received'
  BY <1>9 DEF ConsumerFailsEffect
<1>10. ASSUME NEW p \in Polls, ReceiveEffect(p) PROVE Received'
  BY <1>10 DEF ReceiveEffect
<1>11. ASSUME NEW p \in Polls, ListKeysEffect(p) PROVE Received'
  BY <1>11 DEF ListKeysEffect
<1>12. ASSUME NEW p \in Polls, NEW k \in Times, GetKeyEffect(p, k) PROVE Received'
  BY <1>12 DEF GetKeyEffect, Forwarded, KeysOK, Times
<1>13. ASSUME NEW p \in Polls, DeleteKeyEffect(p) PROVE Received'
  BY <1>13 DEF DeleteKeyEffect
<1>14. ASSUME NEW p \in Polls, HandleEffect(p) PROVE Received'
  BY <1>14 DEF HandleEffect
<1>15. ASSUME NEW p \in Polls, PollFailsEffect(p) PROVE Received'
  BY <1>15 DEF PollFailsEffect
<1>16. ASSUME NoEffect PROVE Received'
  BY <1>16 DEF NoEffect, vars
<1> QED
  BY <1>1, <1>2, <1>3, <1>4, <1>5, <1>6, <1>7, <1>8, <1>9, <1>10, <1>11, <1>12, <1>13,
       <1>14, <1>15, <1>16 DEF Effect

\* Only commands are parked, each once.
LEMMA ForwardedStep ==
    ASSUME QueuesOK, KeysOK, PlacesOK, CountsOK, StampsOK, Orderly,
           Queued, Received, Forwarded, Drained, Uploaded, Effect
    PROVE  Forwarded'
<1> USE ReaderFacts, NoZero DEF Forwarded, Sent, StampsOK, CountsOK, KeysOK
<1>1. ASSUME NEW m \in Msgs, NEW time \in Times, SendEffect(m, time) PROVE Forwarded'
  BY <1>1 DEF SendEffect
<1>2. ASSUME NEW k \in Times, ExpireEffect(k) PROVE Forwarded'
  BY <1>2 DEF ExpireEffect
<1>3. ASSUME ReceiveLostEffect PROVE Forwarded'
  BY <1>3 DEF ReceiveLostEffect
<1>4. ASSUME ConsumerReceiveEffect PROVE Forwarded'
  BY <1>4 DEF ConsumerReceiveEffect
<1>5. ASSUME DeclineEffect PROVE Forwarded'
  BY <1>5 DEF DeclineEffect
<1>6. ASSUME NEW k \in Times, ForwardEffect(k) PROVE Forwarded'
  BY <1>6 DEF ForwardEffect, Received
<1>7. ASSUME MarkEffect PROVE Forwarded'
  BY <1>7 DEF MarkEffect
<1>8. ASSUME UploadEffect PROVE Forwarded'
  <2> DEFINE c == Current(Consumer).msg
  <2>1. /\ c \in Msgs /\ Carries(batch[Consumer], c) /\ Consumer \in Readers /\ Uploading(c)
        /\ \A x \in Msgs : x # c => stored'[x] = stored[x]
        /\ UNCHANGED <<inbox, pending, acted, parkedAt, sentAt>>
    BY <1>8 DEF UploadEffect
  <2>2. \A q \in Readers, m \in Msgs : Carries(batch'[q], m) => Carries(batch[q], m)
    BY <1>8 DEF UploadEffect
  <2>3. left = 1 => \A m \in Msgs : Carries(batch'[Consumer], m) => m # c
    BY <1>8, <2>1 DEF UploadEffect
  <2>4. left # 1 => \A m \in Msgs : Uploading(m) => Uploading(m)'
    BY <1>8 DEF UploadEffect
  <2> HIDE DEF c
  <2> QED
    BY <2>1, <2>2, <2>3, <2>4 DEF Received
<1>9. ASSUME ConsumerFailsEffect PROVE Forwarded'
  BY <1>9 DEF ConsumerFailsEffect
<1>10. ASSUME NEW p \in Polls, ReceiveEffect(p) PROVE Forwarded'
  BY <1>10 DEF ReceiveEffect
<1>11. ASSUME NEW p \in Polls, ListKeysEffect(p) PROVE Forwarded'
  BY <1>11 DEF ListKeysEffect
<1>12. ASSUME NEW p \in Polls, NEW k \in Times, GetKeyEffect(p, k) PROVE Forwarded'
  BY <1>12 DEF GetKeyEffect
<1>13. ASSUME NEW p \in Polls, DeleteKeyEffect(p) PROVE Forwarded'
  BY <1>13 DEF DeleteKeyEffect
<1>14. ASSUME NEW p \in Polls, HandleEffect(p) PROVE Forwarded'
  BY <1>14 DEF HandleEffect
<1>15. ASSUME NEW p \in Polls, PollFailsEffect(p) PROVE Forwarded'
  BY <1>15 DEF PollFailsEffect
<1>16. ASSUME NoEffect PROVE Forwarded'
  BY <1>16 DEF NoEffect, vars
<1> QED
  BY <1>1, <1>2, <1>3, <1>4, <1>5, <1>6, <1>7, <1>8, <1>9, <1>10, <1>11, <1>12, <1>13,
       <1>14, <1>15, <1>16 DEF Effect

\* A poll drains a message once.
LEMMA DrainedStep ==
    ASSUME QueuesOK, KeysOK, PlacesOK, CountsOK, StampsOK, Orderly,
           Queued, Received, Forwarded, Drained, Uploaded, Effect
    PROVE  Drained'
<1> USE ReaderFacts, NoZero DEF Drained, Forwarded, Parked, KeysOK, PlacesOK, StampsOK
<1>1. ASSUME NEW m \in Msgs, NEW time \in Times, SendEffect(m, time) PROVE Drained'
  BY <1>1 DEF SendEffect
<1>2. ASSUME NEW k \in Times, ExpireEffect(k) PROVE Drained'
  BY <1>2 DEF ExpireEffect
<1>3. ASSUME ReceiveLostEffect PROVE Drained'
  BY <1>3 DEF ReceiveLostEffect
<1>4. ASSUME ConsumerReceiveEffect PROVE Drained'
  BY <1>4 DEF ConsumerReceiveEffect, Queued
<1>5. ASSUME DeclineEffect PROVE Drained'
  BY <1>5 DEF DeclineEffect
<1>6. ASSUME NEW k \in Times, ForwardEffect(k) PROVE Drained'
  BY <1>6 DEF ForwardEffect, Received
<1>7. ASSUME MarkEffect PROVE Drained'
  BY <1>7 DEF MarkEffect
<1>8. ASSUME UploadEffect PROVE Drained'
  BY <1>8 DEF UploadEffect
<1>9. ASSUME ConsumerFailsEffect PROVE Drained'
  BY <1>9 DEF ConsumerFailsEffect
<1>10. ASSUME NEW p \in Polls, ReceiveEffect(p) PROVE Drained'
  BY <1>10 DEF ReceiveEffect, Queued
<1>11. ASSUME NEW p \in Polls, ListKeysEffect(p) PROVE Drained'
  BY <1>11 DEF ListKeysEffect
<1>12. ASSUME NEW p \in Polls, NEW k \in Times, GetKeyEffect(p, k) PROVE Drained'
  BY <1>12 DEF GetKeyEffect
<1>13. ASSUME NEW p \in Polls, DeleteKeyEffect(p) PROVE Drained'
  BY <1>13 DEF DeleteKeyEffect
<1>14. ASSUME NEW p \in Polls, HandleEffect(p) PROVE Drained'
  BY <1>14 DEF HandleEffect
<1>15. ASSUME NEW p \in Polls, PollFailsEffect(p) PROVE Drained'
  BY <1>15 DEF PollFailsEffect
<1>16. ASSUME NoEffect PROVE Drained'
  BY <1>16 DEF NoEffect, vars
<1> QED
  BY <1>1, <1>2, <1>3, <1>4, <1>5, <1>6, <1>7, <1>8, <1>9, <1>10, <1>11, <1>12, <1>13,
       <1>14, <1>15, <1>16 DEF Effect

\* Uploads add up.
LEMMA UploadedStep ==
    ASSUME QueuesOK, KeysOK, PlacesOK, CountsOK, StampsOK, Orderly,
           Queued, Received, Forwarded, Drained, Uploaded, Effect
    PROVE  Uploaded'
<1> USE ReaderFacts, DeliveryAssumption DEF Uploaded, Uploads, Sent, StampsOK, CountsOK
<1>1. ASSUME NEW m \in Msgs, NEW time \in Times, SendEffect(m, time) PROVE Uploaded'
  BY <1>1 DEF SendEffect
<1>2. ASSUME NEW k \in Times, ExpireEffect(k) PROVE Uploaded'
  BY <1>2 DEF ExpireEffect
<1>3. ASSUME ReceiveLostEffect PROVE Uploaded'
  BY <1>3 DEF ReceiveLostEffect
<1>4. ASSUME ConsumerReceiveEffect PROVE Uploaded'
  BY <1>4 DEF ConsumerReceiveEffect
<1>5. ASSUME DeclineEffect PROVE Uploaded'
  BY <1>5 DEF DeclineEffect
<1>6. ASSUME NEW k \in Times, ForwardEffect(k) PROVE Uploaded'
  BY <1>6 DEF ForwardEffect, Received
<1>7. ASSUME MarkEffect PROVE Uploaded'
  BY <1>7 DEF MarkEffect, Received, PlacesOK
<1>8. ASSUME UploadEffect PROVE Uploaded'
  <2> DEFINE c == Current(Consumer).msg
  <2>1. /\ c \in Msgs /\ Carries(batch[Consumer], c) /\ Consumer \in Readers /\ Uploading(c)
        /\ \A x : Uploading(x) => x = c
        /\ \A x \in Msgs : x # c => stored'[x] = stored[x]
        /\ UNCHANGED <<acted, sentAt, parkedAt>> /\ left > 0 /\ left' = left - 1
        /\ \/ stored'[c] = stored[c] + 1 /\ faults' = faults
           \/ stored'[c] \in {stored[c], stored[c] + 1} /\ faults' = faults + 1
    BY <1>8 DEF UploadEffect
  <2>2. left # 1 => \A m : Uploading(m)' <=> m = c
    BY <1>8, <2>1 DEF UploadEffect
  <2>3. left = 1 => \A m : ~Uploading(m)'
    BY <1>8 DEF UploadEffect
  <2>4. /\ KindOf[c] \in Uploads /\ stored[c] + left <= FilesOf[c]
        /\ faults = 0 => stored[c] + left = FilesOf[c]
        /\ FilesOf[c] \in Nat /\ stored[c] \in Nat /\ left \in Nat /\ faults \in Nat
    BY <2>1
  <2>5. sentAt[c] # 0 /\ acted[c] = 0
    BY <2>1 DEF Received, Forwarded
  <2> HIDE DEF c
  <2>6. ASSUME NEW m \in Msgs, Uploading(m)'
        PROVE  /\ KindOf[m] \in Uploads
               /\ stored'[m] + left' <= FilesOf[m]
               /\ faults' = 0 => stored'[m] + left' = FilesOf[m]
    <3>1. m = c
      BY <2>2, <2>3, <2>6
    <3> QED
      BY <2>1, <2>4, <3>1
  <2>7. ASSUME NEW m \in Msgs, stored'[m] > 0
        PROVE  /\ KindOf[m] \in Uploads /\ acted'[m] = 0 /\ stored'[m] <= FilesOf[m]
               /\ faults' = 0 => Uploading(m)' \/ stored'[m] = FilesOf[m]
    <3>1. CASE m = c
      BY <2>1, <2>2, <2>4, <2>5, <3>1
    <3>2. CASE m # c
      BY <2>1, <2>7, <3>2
    <3> QED
      BY <3>1, <3>2
  <2>8. \A m \in Msgs : sentAt'[m] = 0 => acted'[m] = 0 /\ stored'[m] = 0
    BY <2>1, <2>5
  <2> QED
    BY <2>6, <2>7, <2>8
<1>9. ASSUME ConsumerFailsEffect PROVE Uploaded'
  BY <1>9 DEF ConsumerFailsEffect
<1>10. ASSUME NEW p \in Polls, ReceiveEffect(p) PROVE Uploaded'
  BY <1>10 DEF ReceiveEffect
<1>11. ASSUME NEW p \in Polls, ListKeysEffect(p) PROVE Uploaded'
  BY <1>11 DEF ListKeysEffect
<1>12. ASSUME NEW p \in Polls, NEW k \in Times, GetKeyEffect(p, k) PROVE Uploaded'
  BY <1>12 DEF GetKeyEffect
<1>13. ASSUME NEW p \in Polls, DeleteKeyEffect(p) PROVE Uploaded'
  BY <1>13 DEF DeleteKeyEffect
<1>14. ASSUME NEW p \in Polls, HandleEffect(p) PROVE Uploaded'
  BY <1>14 DEF HandleEffect, Received
<1>15. ASSUME NEW p \in Polls, PollFailsEffect(p) PROVE Uploaded'
  BY <1>15 DEF PollFailsEffect
<1>16. ASSUME NoEffect PROVE Uploaded'
  BY <1>16 DEF NoEffect, vars
<1> QED
  BY <1>1, <1>2, <1>3, <1>4, <1>5, <1>6, <1>7, <1>8, <1>9, <1>10, <1>11, <1>12, <1>13,
       <1>14, <1>15, <1>16 DEF Effect

\* A poll can only lose its part in a message that it does not drain.
LEMMA HoldersFacts ==
    ASSUME NEW m \in Msgs
    PROVE  /\ Cardinality(Holders(m)) \in Nat /\ Cardinality(Holders(m)) <= Cardinality(Polls)
           /\ Cardinality(Holders(m))' \in Nat /\ Cardinality(Holders(m))' <= Cardinality(Polls)
           /\ (\A p \in Polls : Carries(batch'[p], m) => Carries(batch[p], m))
                => Cardinality(Holders(m))' <= Cardinality(Holders(m))
           /\ \A q \in Polls :
                 (\A p \in Polls : Carries(batch'[p], m) => Carries(batch[p], m) /\ p # q)
                     /\ Carries(batch[q], m)
                   => Cardinality(Holders(m))' + 1 <= Cardinality(Holders(m))
<1> DEFINE new == {p \in Polls : Carries(batch'[p], m)}
           old == {p \in Polls : Carries(batch[p], m)}
<1>1. Holders(m) = old /\ Holders(m)' = new
  BY DEF Holders
<1>2. IsFiniteSet(Polls) /\ old \in SUBSET Polls /\ new \in SUBSET Polls
  BY DeliveryAssumption
<1>3. /\ IsFiniteSet(old) /\ IsFiniteSet(new)
      /\ Cardinality(old) <= Cardinality(Polls) /\ Cardinality(new) <= Cardinality(Polls)
  BY <1>2, FS_Subset
<1>4. Cardinality(old) \in Nat /\ Cardinality(new) \in Nat
  BY <1>3, FS_CardinalityType
<1>5. new \subseteq old => Cardinality(new) <= Cardinality(old)
  BY <1>3, FS_Subset
<1>6. ASSUME NEW q \in Polls, new \subseteq old \ {q}, q \in old
      PROVE  Cardinality(new) + 1 <= Cardinality(old)
  <2>1. IsFiniteSet(old \ {q}) /\ Cardinality(old \ {q}) = Cardinality(old) - 1
    BY <1>3, <1>6, FS_RemoveElement
  <2>2. Cardinality(new) <= Cardinality(old \ {q})
    BY <1>6, <2>1, FS_Subset
  <2> QED
    BY <1>4, <2>1, <2>2
<1>7. (\A p \in Polls : Carries(batch'[p], m) => Carries(batch[p], m)) => new \subseteq old
  OBVIOUS
<1>8. \A q \in Polls :
         (\A p \in Polls : Carries(batch'[p], m) => Carries(batch[p], m) /\ p # q)
             /\ Carries(batch[q], m)
           => new \subseteq old \ {q} /\ q \in old
  OBVIOUS
<1> HIDE DEF new, old
<1>9. \A q \in Polls :
         (\A p \in Polls : Carries(batch'[p], m) => Carries(batch[p], m) /\ p # q)
             /\ Carries(batch[q], m)
           => Cardinality(new) + 1 <= Cardinality(old)
  BY <1>6, <1>8
<1> QED
  BY <1>1, <1>3, <1>4, <1>5, <1>7, <1>9

\* The bound on acts for one message, and the steps that leave it alone.
CountOf(m) ==
    /\ parkedAt[m] = 0 => acted[m] <= 1
    /\ Parked(m) => acted[m] = Answers(m)
    /\ parkedAt[m] # 0 /\ ~Parked(m) =>
          acted[m] + Cardinality(Holders(m)) <= Answers(m) + Cardinality(Polls)

CountUntouched(m) ==
    /\ acted'[m] = acted[m] /\ parkedAt'[m] = parkedAt[m]
    /\ Parked(m)' => Parked(m)
    /\ \A p \in Polls : parkedAt[m] # 0 /\ ~Parked(m) /\ Carries(batch'[p], m) => Carries(batch[p], m)

LEMMA PollsCounted == Cardinality(Polls) \in Nat
BY DeliveryAssumption, FS_CardinalityType

LEMMA CountKept ==
    ASSUME NEW m \in Msgs, CountsOK, StampsOK, CountOf(m), CountUntouched(m)
    PROVE  CountOf(m)'
<1> DEFINE new == Cardinality(Holders(m))'
           old == Cardinality(Holders(m))
           all == Cardinality(Polls)
<1>1. /\ new \in Nat /\ old \in Nat /\ all \in Nat /\ new <= all
      /\ (\A p \in Polls : Carries(batch'[p], m) => Carries(batch[p], m)) => new <= old
  BY HoldersFacts, PollsCounted
<1>2. /\ acted'[m] = acted[m] /\ acted[m] \in Nat /\ parkedAt'[m] = parkedAt[m]
      /\ Parked(m)' => Parked(m)
      /\ parkedAt[m] # 0 /\ ~Parked(m) => new <= old
  BY <1>1 DEF CountUntouched, CountsOK
<1>3. /\ parkedAt[m] = 0 => acted[m] <= 1
      /\ Parked(m) => acted[m] = Answers(m)
      /\ parkedAt[m] # 0 /\ ~Parked(m) => acted[m] + old <= Answers(m) + all
      /\ Answers(m) \in Nat
  BY DEF CountOf, Answers
<1> HIDE DEF new, old, all
<1>4. parkedAt'[m] # 0 /\ ~Parked(m)' => acted'[m] + new <= Answers(m) + all
  BY <1>1, <1>2, <1>3
<1>5. (parkedAt'[m] = 0 => acted'[m] <= 1) /\ (Parked(m)' => acted'[m] = Answers(m))
  BY <1>2, <1>3
<1> QED
  BY <1>4, <1>5 DEF CountOf, new, all, Answers

\* Each poll acts once upon a forwarded command.
LEMMA CountedStep ==
    ASSUME QueuesOK, KeysOK, PlacesOK, CountsOK, StampsOK, Orderly,
           Queued, Received, Forwarded, Drained, Uploaded, \A m \in Msgs : CountOf(m), Effect
    PROVE  (\A m \in Msgs : CountOf(m))'
<1> USE ReaderFacts
<1>1. ASSUME NEW m \in Msgs, NEW time \in Times, SendEffect(m, time)
      PROVE  (\A n \in Msgs : CountOf(n))'
  <2>1. \A n \in Msgs : CountUntouched(n)
    BY <1>1 DEF CountUntouched, Parked, SendEffect
  <2> QED
    BY <2>1, CountKept
<1>2. ASSUME NEW k \in Times, ExpireEffect(k) PROVE (\A m \in Msgs : CountOf(m))'
  <2>1. \A m \in Msgs : CountUntouched(m)
    BY <1>2 DEF CountUntouched, Parked, ExpireEffect
  <2> QED
    BY <2>1, CountKept
<1>3. ASSUME ReceiveLostEffect PROVE (\A m \in Msgs : CountOf(m))'
  <2>1. \A m \in Msgs : CountUntouched(m)
    BY <1>3 DEF CountUntouched, Parked, ReceiveLostEffect
  <2> QED
    BY <2>1, CountKept
<1>4. ASSUME ConsumerReceiveEffect PROVE (\A m \in Msgs : CountOf(m))'
  <2>1. \A m \in Msgs : CountUntouched(m)
    BY <1>4 DEF CountUntouched, Parked, ConsumerReceiveEffect
  <2> QED
    BY <2>1, CountKept
<1>5. ASSUME DeclineEffect PROVE (\A m \in Msgs : CountOf(m))'
  <2>1. \A m \in Msgs : CountUntouched(m)
    BY <1>5 DEF CountUntouched, Parked, DeclineEffect
  <2> QED
    BY <2>1, CountKept
<1>6. ASSUME NEW k \in Times, ForwardEffect(k) PROVE (\A m \in Msgs : CountOf(m))'
  <2>0. PICK c \in Msgs : c = Current(Consumer).msg
    BY <1>6 DEF ForwardEffect
  <2>1. /\ c \in Msgs /\ Carries(batch[Consumer], c)
        /\ \A q \in Polls, m \in Msgs : Carries(batch'[q], m) => Carries(batch[q], m)
        /\ \A x \in Msgs : x # c => parkedAt'[x] = parkedAt[x] /\ acted'[x] = acted[x]
        /\ \/ UNCHANGED <<acted, pending, parkedAt>>
           \/ /\ parkedAt'[c] = k /\ acted'[c] = acted[c] + Answers(c)
              /\ DOMAIN pending' = DOMAIN pending \cup {k} /\ pending'[k] = c
              /\ \A j \in DOMAIN pending : j # k => pending'[j] = pending[j]
    BY <1>6, <2>0 DEF ForwardEffect
  <2>2. parkedAt[c] = 0 /\ acted[c] = 0 /\ ~Parked(c)
    <3>1. parkedAt[c] = 0 /\ acted[c] = 0
      BY <2>1 DEF Received
    <3>2. \A j \in DOMAIN pending : j # 0
      BY NoZero DEF KeysOK
    <3> QED
      BY <3>1, <3>2 DEF Forwarded, Parked
  <2>3. \A m \in Msgs : m # c => CountUntouched(m)
    BY <2>1 DEF CountUntouched, Parked
  <2>4. UNCHANGED <<acted, pending, parkedAt>> => CountUntouched(c)
    BY <2>1 DEF CountUntouched, Parked
  <2>5. ASSUME parkedAt'[c] = k, acted'[c] = acted[c] + Answers(c), pending'[k] = c,
               DOMAIN pending' = DOMAIN pending \cup {k}
        PROVE  CountOf(c)'
    <3>1. Parked(c)' /\ k # 0
      BY <2>5, NoZero DEF Parked
    <3>2. acted'[c] = Answers(c)
      BY <2>2, <2>5 DEF Answers
    <3> QED
      BY <2>5, <3>1, <3>2 DEF CountOf, Answers
  <2>6. CountOf(c)'
    BY <2>1, <2>4, <2>5, CountKept
  <2> QED
    BY <2>3, <2>6, CountKept
<1>7. ASSUME MarkEffect PROVE (\A m \in Msgs : CountOf(m))'
  <2>1. \A m \in Msgs : CountUntouched(m)
    BY <1>7 DEF CountUntouched, Parked, MarkEffect
  <2> QED
    BY <2>1, CountKept
<1>8. ASSUME UploadEffect PROVE (\A m \in Msgs : CountOf(m))'
  <2>1. left # 1 => batch' = batch
    BY <1>8 DEF UploadEffect
  <2>2. \A m \in Msgs : CountUntouched(m)
    BY <1>8, <2>1 DEF CountUntouched, Parked, UploadEffect
  <2> QED
    BY <2>2, CountKept
<1>9. ASSUME ConsumerFailsEffect PROVE (\A m \in Msgs : CountOf(m))'
  <2>1. \A m \in Msgs : CountUntouched(m)
    BY <1>9 DEF CountUntouched, Parked, ConsumerFailsEffect
  <2> QED
    BY <2>1, CountKept
<1>10. ASSUME NEW p \in Polls, ReceiveEffect(p) PROVE (\A m \in Msgs : CountOf(m))'
  <2>1. \A m \in Msgs : CountUntouched(m)
    BY <1>10 DEF CountUntouched, Parked, ReceiveEffect, Queued
  <2> QED
    BY <2>1, CountKept
<1>11. ASSUME NEW p \in Polls, ListKeysEffect(p) PROVE (\A m \in Msgs : CountOf(m))'
  <2>1. \A m \in Msgs : CountUntouched(m)
    BY <1>11 DEF CountUntouched, Parked, ListKeysEffect
  <2> QED
    BY <2>1, CountKept
<1>12. ASSUME NEW p \in Polls, NEW k \in Times, GetKeyEffect(p, k) PROVE (\A m \in Msgs : CountOf(m))'
  <2>1. \A m \in Msgs : CountUntouched(m)
    BY <1>12 DEF CountUntouched, Parked, GetKeyEffect
  <2> QED
    BY <2>1, CountKept
<1>13. ASSUME NEW p \in Polls, DeleteKeyEffect(p) PROVE (\A m \in Msgs : CountOf(m))'
  <2>1. \A m \in Msgs : CountUntouched(m)
    BY <1>13 DEF CountUntouched, Parked, DeleteKeyEffect
  <2> QED
    BY <2>1, CountKept
<1>14. ASSUME NEW p \in Polls, HandleEffect(p) PROVE (\A m \in Msgs : CountOf(m))'
  <2>0. PICK c \in Msgs : c = Current(p).msg
    BY <1>14 DEF HandleEffect
  <2>1. /\ c \in Msgs /\ Carries(batch[p], c) /\ at[p] = "next" /\ p \in Readers
        /\ \A q \in Polls, m \in Msgs : Carries(batch'[q], m) => Carries(batch[q], m)
        /\ ~Carries(batch'[p], c)
        /\ \A x \in Msgs : x # c => acted'[x] = acted[x]
        /\ acted'[c] \in {acted[c], acted[c] + 1}
        /\ UNCHANGED <<parkedAt, pending>>
    BY <1>14, <2>0 DEF HandleEffect
  <2>2. \A m \in Msgs : m # c => CountUntouched(m)
    BY <2>1 DEF CountUntouched, Parked
  <2>3. parkedAt[c] # 0 => ~Parked(c)
    BY <2>1 DEF Drained
  <2>4. parkedAt[c] = 0 => acted[c] = 0 /\ ~Parked(c)
    <3>1. parkedAt[c] = 0 => acted[c] = 0
      BY <2>1 DEF Received
    <3>2. \A j \in DOMAIN pending : j # 0
      BY NoZero DEF KeysOK
    <3> QED
      BY <3>1, <3>2 DEF Forwarded, Parked
  <2>5. /\ Cardinality(Holders(c))' + 1 <= Cardinality(Holders(c))
        /\ Cardinality(Holders(c))' \in Nat /\ Cardinality(Holders(c)) \in Nat
    <3>1. \A q \in Polls : Carries(batch'[q], c) => Carries(batch[q], c) /\ q # p
      BY <2>1
    <3> QED
      BY <2>1, <3>1, HoldersFacts
  <2>6. acted[c] \in Nat /\ Answers(c) \in Nat
    BY <2>1 DEF CountsOK, Answers
  <2>7. ~Parked(c)'
    BY <2>1, <2>3, <2>4 DEF Parked
  <2>8. parkedAt'[c] = 0 => acted'[c] <= 1
    BY <2>1, <2>4, <2>6
  <2>9. parkedAt'[c] # 0 => acted'[c] + Cardinality(Holders(c))' <= Answers(c) + Cardinality(Polls)
    <3>1. parkedAt[c] # 0 => acted[c] + Cardinality(Holders(c)) <= Answers(c) + Cardinality(Polls)
      BY <2>1, <2>3 DEF CountOf
    <3> QED
      BY <2>1, <2>5, <2>6, <3>1, PollsCounted
  <2>10. CountOf(c)'
    BY <2>7, <2>8, <2>9 DEF CountOf, Answers
  <2> QED
    BY <2>2, <2>10, CountKept
<1>15. ASSUME NEW p \in Polls, PollFailsEffect(p) PROVE (\A m \in Msgs : CountOf(m))'
  <2>1. \A m \in Msgs : CountUntouched(m)
    BY <1>15 DEF CountUntouched, Parked, PollFailsEffect
  <2> QED
    BY <2>1, CountKept
<1>16. ASSUME NoEffect PROVE (\A m \in Msgs : CountOf(m))'
  <2>1. \A m \in Msgs : CountUntouched(m)
    BY <1>16 DEF CountUntouched, Parked, NoEffect, vars
  <2> QED
    BY <2>1, CountKept
<1> QED
  BY <1>1, <1>2, <1>3, <1>4, <1>5, <1>6, <1>7, <1>8, <1>9, <1>10, <1>11, <1>12, <1>13,
       <1>14, <1>15, <1>16 DEF Effect

\* A mark outlives the upload it was made for.
LEMMA MarkedStep ==
    ASSUME QueuesOK, KeysOK, PlacesOK, CountsOK, StampsOK, Orderly,
           Queued, Received, Forwarded, Drained, Uploaded, Marked, CountsOK', Effect
    PROVE  Marked'
<1> USE DEF Marked, Sent
<1>1. ASSUME NEW m \in Msgs, NEW time \in Times, SendEffect(m, time) PROVE Marked'
  BY <1>1 DEF SendEffect
<1>2. ASSUME NEW k \in Times, ExpireEffect(k) PROVE Marked'
  BY <1>2 DEF ExpireEffect, CountsOK
<1>3. ASSUME ReceiveLostEffect PROVE Marked'
  BY <1>3 DEF ReceiveLostEffect, CountsOK
<1>4. ASSUME ConsumerReceiveEffect PROVE Marked'
  BY <1>4 DEF ConsumerReceiveEffect
<1>5. ASSUME DeclineEffect PROVE Marked'
  BY <1>5 DEF DeclineEffect
<1>6. ASSUME NEW k \in Times, ForwardEffect(k) PROVE Marked'
  BY <1>6, ReaderFacts DEF ForwardEffect, CountsOK
<1>7. ASSUME MarkEffect PROVE Marked'
  <2>0. PICK c \in Msgs : c = Current(Consumer).msg
    BY <1>7 DEF MarkEffect
  <2>1. /\ c \in Msgs /\ Carries(batch[Consumer], c) /\ Consumer \in Readers /\ KindOf[c] \in Uploads
        /\ processed' = processed \cup {Current(Consumer).time} /\ Current(Consumer).time = Stamp(c)
        /\ Uploading(c)' /\ UNCHANGED <<stored, sentAt, faults>> /\ \A m : ~Uploading(m)
    BY <1>7, <2>0, ReaderFacts DEF MarkEffect
  <2>2. Stamp(c) = sentAt[c] /\ sentAt[c] # 0
    BY <2>1 DEF Received, Stamp
  <2> QED
    BY <2>1, <2>2
<1>8. ASSUME UploadEffect PROVE Marked'
  <2>1. /\ \A m : Uploading(m) => m = Current(Consumer).msg
        /\ Current(Consumer).msg \in Msgs
        /\ UNCHANGED <<processed, sentAt>>
        /\ \A x \in Msgs : stored'[x] \in {stored[x], stored[x] + 1}
    BY <1>8 DEF UploadEffect
  <2>4. \A x \in Msgs : stored[x] > 0 => stored'[x] > 0
    <3>1. \A x \in Msgs : stored[x] \in Nat
      BY DEF CountsOK
    <3> QED
      BY <2>1, <3>1
  <2>2. faults' > 0 \/ faults' = 0
    BY DEF CountsOK
  <2>3. faults' = 0 => faults = 0 /\ stored'[Current(Consumer).msg] > 0
    <3>1. stored \in [Msgs -> Nat] /\ faults \in Nat /\ Current(Consumer).msg \in Msgs
      BY <2>1 DEF CountsOK
    <3>2. \/ stored'[Current(Consumer).msg] = stored[Current(Consumer).msg] + 1 /\ faults' = faults
          \/ faults' = faults + 1
      BY <1>8, <2>1 DEF UploadEffect
    <3> QED
      BY <3>1, <3>2
  <2> QED
    BY <2>1, <2>2, <2>3, <2>4
<1>9. ASSUME ConsumerFailsEffect PROVE Marked'
  BY <1>9 DEF ConsumerFailsEffect, CountsOK
<1>10. ASSUME NEW p \in Polls, ReceiveEffect(p) PROVE Marked'
  BY <1>10 DEF ReceiveEffect
<1>11. ASSUME NEW p \in Polls, ListKeysEffect(p) PROVE Marked'
  BY <1>11 DEF ListKeysEffect
<1>12. ASSUME NEW p \in Polls, NEW k \in Times, GetKeyEffect(p, k) PROVE Marked'
  BY <1>12 DEF GetKeyEffect
<1>13. ASSUME NEW p \in Polls, DeleteKeyEffect(p) PROVE Marked'
  BY <1>13 DEF DeleteKeyEffect
<1>14. ASSUME NEW p \in Polls, HandleEffect(p) PROVE Marked'
  BY <1>14 DEF HandleEffect, CountsOK
<1>15. ASSUME NEW p \in Polls, PollFailsEffect(p) PROVE Marked'
  BY <1>15 DEF PollFailsEffect, CountsOK
<1>16. ASSUME NoEffect PROVE Marked'
  BY <1>16 DEF NoEffect, vars
<1> QED
  BY <1>1, <1>2, <1>3, <1>4, <1>5, <1>6, <1>7, <1>8, <1>9, <1>10, <1>11, <1>12, <1>13,
       <1>14, <1>15, <1>16 DEF Effect

\* A poll has the message whose key it deletes.
LEMMA DeletingStep ==
    ASSUME QueuesOK, KeysOK, PlacesOK, CountsOK, StampsOK, Orderly,
           Queued, Received, Forwarded, Drained, Uploaded, Deleting, Effect
    PROVE  Deleting'
<1> USE ReaderFacts, NoZero DEF Deleting, StampsOK, KeysOK
<1>1. ASSUME NEW m \in Msgs, NEW time \in Times, SendEffect(m, time) PROVE Deleting'
  BY <1>1 DEF SendEffect
<1>2. ASSUME NEW k \in Times, ExpireEffect(k) PROVE Deleting'
  BY <1>2 DEF ExpireEffect
<1>3. ASSUME ReceiveLostEffect PROVE Deleting'
  BY <1>3 DEF ReceiveLostEffect
<1>4. ASSUME ConsumerReceiveEffect PROVE Deleting'
  BY <1>4 DEF ConsumerReceiveEffect
<1>5. ASSUME DeclineEffect PROVE Deleting'
  BY <1>5 DEF DeclineEffect
<1>6. ASSUME NEW k \in Times, ForwardEffect(k) PROVE Deleting'
  <2>1. \A m \in Msgs : parkedAt'[m] # parkedAt[m] => parkedAt[m] = 0
    BY <1>6 DEF ForwardEffect, Received
  <2>2. \A p \in Polls : at[p] = "delete" => key[p] # 0
    BY DEF PlacesOK
  <2> QED
    BY <1>6, <2>1, <2>2 DEF ForwardEffect
<1>7. ASSUME MarkEffect PROVE Deleting'
  BY <1>7 DEF MarkEffect
<1>8. ASSUME UploadEffect PROVE Deleting'
  BY <1>8 DEF UploadEffect
<1>9. ASSUME ConsumerFailsEffect PROVE Deleting'
  BY <1>9 DEF ConsumerFailsEffect
<1>10. ASSUME NEW p \in Polls, ReceiveEffect(p) PROVE Deleting'
  BY <1>10 DEF ReceiveEffect
<1>11. ASSUME NEW p \in Polls, ListKeysEffect(p) PROVE Deleting'
  BY <1>11 DEF ListKeysEffect
<1>12. ASSUME NEW p \in Polls, NEW k \in Times, GetKeyEffect(p, k) PROVE Deleting'
  BY <1>12 DEF GetKeyEffect, Forwarded
<1>13. ASSUME NEW p \in Polls, DeleteKeyEffect(p) PROVE Deleting'
  BY <1>13 DEF DeleteKeyEffect
<1>14. ASSUME NEW p \in Polls, HandleEffect(p) PROVE Deleting'
  BY <1>14 DEF HandleEffect
<1>15. ASSUME NEW p \in Polls, PollFailsEffect(p) PROVE Deleting'
  BY <1>15 DEF PollFailsEffect
<1>16. ASSUME NoEffect PROVE Deleting'
  BY <1>16 DEF NoEffect, vars
<1> QED
  BY <1>1, <1>2, <1>3, <1>4, <1>5, <1>6, <1>7, <1>8, <1>9, <1>10, <1>11, <1>12, <1>13,
       <1>14, <1>15, <1>16 DEF Effect

-----------------------------------------------------------------------------
(* What becomes of a message                                               *)

LEMMA WaitsFacts ==
    /\ \A m : Waits(m) <=> Carries(inbox, m) \/ (\E r \in Readers : Carries(batch[r], m)) \/ Parked(m)
    /\ \A m : Waits(m)' <=> Carries(inbox', m) \/ (\E r \in Readers : Carries(batch'[r], m))
           \/ Parked(m)'
BY DEF Waits, Carries, Parked

\* What no step undoes, and what a step leaves alone.
Remembered(m) ==
    /\ sentAt[m] # 0 => sentAt'[m] = sentAt[m]
    /\ parkedAt[m] # 0 => parkedAt'[m] = parkedAt[m]
    /\ acted[m] > 0 => acted'[m] > 0
    /\ stored[m] > 0 => stored'[m] > 0
    /\ faults > 0 => faults' > 0

Settled(m) ==
    /\ sentAt'[m] = sentAt[m] /\ parkedAt'[m] = parkedAt[m]
    /\ acted'[m] = acted[m] /\ stored'[m] = stored[m]
    /\ ~Waits(m)'

\* Timestamps are given once, and nothing is undone.
LEMMA NothingUndone ==
    ASSUME QueuesOK, KeysOK, PlacesOK, CountsOK, StampsOK, Orderly,
           Queued, Received, Forwarded, Drained, Uploaded, CountsOK', Effect
    PROVE  \A m \in Msgs : Remembered(m)
<1> USE DEF Remembered
<1>1. ASSUME NEW m \in Msgs, NEW time \in Times, SendEffect(m, time) PROVE \A n \in Msgs : Remembered(n)
  BY <1>1 DEF SendEffect
<1>2. ASSUME NEW k \in Times, ExpireEffect(k) PROVE \A m \in Msgs : Remembered(m)
  BY <1>2 DEF ExpireEffect, CountsOK
<1>3. ASSUME ReceiveLostEffect PROVE \A m \in Msgs : Remembered(m)
  BY <1>3 DEF ReceiveLostEffect, CountsOK
<1>4. ASSUME ConsumerReceiveEffect PROVE \A m \in Msgs : Remembered(m)
  BY <1>4 DEF ConsumerReceiveEffect
<1>5. ASSUME DeclineEffect PROVE \A m \in Msgs : Remembered(m)
  BY <1>5 DEF DeclineEffect
<1>6. ASSUME NEW k \in Times, ForwardEffect(k) PROVE \A m \in Msgs : Remembered(m)
  BY <1>6, ReaderFacts DEF ForwardEffect, Received, CountsOK, Answers
<1>7. ASSUME MarkEffect PROVE \A m \in Msgs : Remembered(m)
  BY <1>7 DEF MarkEffect
<1>8. ASSUME UploadEffect PROVE \A m \in Msgs : Remembered(m)
  <2>1. /\ Current(Consumer).msg \in Msgs
        /\ \A x \in Msgs : stored'[x] \in {stored[x], stored[x] + 1}
        /\ faults' \in {faults, faults + 1}
        /\ UNCHANGED <<sentAt, parkedAt, acted>>
    BY <1>8 DEF UploadEffect
  <2>2. faults \in Nat /\ \A x \in Msgs : stored[x] \in Nat
    BY DEF CountsOK
  <2> QED
    BY <2>1, <2>2
<1>9. ASSUME ConsumerFailsEffect PROVE \A m \in Msgs : Remembered(m)
  BY <1>9 DEF ConsumerFailsEffect, CountsOK
<1>10. ASSUME NEW p \in Polls, ReceiveEffect(p) PROVE \A m \in Msgs : Remembered(m)
  BY <1>10 DEF ReceiveEffect
<1>11. ASSUME NEW p \in Polls, ListKeysEffect(p) PROVE \A m \in Msgs : Remembered(m)
  BY <1>11 DEF ListKeysEffect
<1>12. ASSUME NEW p \in Polls, NEW k \in Times, GetKeyEffect(p, k) PROVE \A m \in Msgs : Remembered(m)
  BY <1>12 DEF GetKeyEffect
<1>13. ASSUME NEW p \in Polls, DeleteKeyEffect(p) PROVE \A m \in Msgs : Remembered(m)
  BY <1>13 DEF DeleteKeyEffect
<1>14. ASSUME NEW p \in Polls, HandleEffect(p) PROVE \A m \in Msgs : Remembered(m)
  BY <1>14 DEF HandleEffect, CountsOK
<1>15. ASSUME NEW p \in Polls, PollFailsEffect(p) PROVE \A m \in Msgs : Remembered(m)
  BY <1>15 DEF PollFailsEffect, CountsOK
<1>16. ASSUME NoEffect PROVE \A m \in Msgs : Remembered(m)
  BY <1>16 DEF NoEffect, vars
<1> QED
  BY <1>1, <1>2, <1>3, <1>4, <1>5, <1>6, <1>7, <1>8, <1>9, <1>10, <1>11, <1>12, <1>13,
       <1>14, <1>15, <1>16 DEF Effect

\* A message that nobody has any more stays as it is.
LEMMA Steady ==
    ASSUME QueuesOK, KeysOK, PlacesOK, CountsOK, StampsOK, Orderly,
           Queued, Received, Forwarded, Drained, Uploaded,
           NEW m \in Msgs, sentAt[m] # 0, ~Waits(m), Effect
    PROVE  Settled(m)
<1> USE WaitsFacts, ReaderFacts DEF Settled
<1>1. ASSUME NEW n \in Msgs, NEW time \in Times, SendEffect(n, time) PROVE Settled(m)
  <2>1. n # m /\ ~Carries(inbox, m) /\ ~Parked(m)
    BY <1>1 DEF SendEffect
  <2> QED
    BY <1>1, <2>1 DEF SendEffect, Parked
<1>2. ASSUME NEW k \in Times, ExpireEffect(k) PROVE Settled(m)
  BY <1>2 DEF ExpireEffect, Parked
<1>3. ASSUME ReceiveLostEffect PROVE Settled(m)
  BY <1>3 DEF ReceiveLostEffect, Parked
<1>4. ASSUME ConsumerReceiveEffect PROVE Settled(m)
  BY <1>4 DEF ConsumerReceiveEffect, Parked
<1>5. ASSUME DeclineEffect PROVE Settled(m)
  BY <1>5 DEF DeclineEffect, Parked
<1>6. ASSUME NEW k \in Times, ForwardEffect(k) PROVE Settled(m)
  BY <1>6 DEF ForwardEffect, Parked
<1>7. ASSUME MarkEffect PROVE Settled(m)
  BY <1>7 DEF MarkEffect, Parked
<1>8. ASSUME UploadEffect PROVE Settled(m)
  <2>1. /\ m # Current(Consumer).msg /\ UNCHANGED <<sentAt, parkedAt, acted, inbox, pending>>
        /\ stored'[m] = stored[m]
    BY <1>8 DEF UploadEffect
  <2>2. \A r \in Readers : ~Carries(batch'[r], m)
    <3>1. left = 1 \/ batch' = batch
      BY <1>8 DEF UploadEffect
    <3> QED
      BY <1>8, <3>1 DEF UploadEffect
  <2> QED
    BY <2>1, <2>2 DEF Parked
<1>9. ASSUME ConsumerFailsEffect PROVE Settled(m)
  BY <1>9 DEF ConsumerFailsEffect, Parked
<1>10. ASSUME NEW p \in Polls, ReceiveEffect(p) PROVE Settled(m)
  BY <1>10 DEF ReceiveEffect, Parked
<1>11. ASSUME NEW p \in Polls, ListKeysEffect(p) PROVE Settled(m)
  BY <1>11 DEF ListKeysEffect, Parked
<1>12. ASSUME NEW p \in Polls, NEW k \in Times, GetKeyEffect(p, k) PROVE Settled(m)
  BY <1>12 DEF GetKeyEffect, Parked
<1>13. ASSUME NEW p \in Polls, DeleteKeyEffect(p) PROVE Settled(m)
  BY <1>13 DEF DeleteKeyEffect, Parked
<1>14. ASSUME NEW p \in Polls, HandleEffect(p) PROVE Settled(m)
  BY <1>14 DEF HandleEffect, Parked
<1>15. ASSUME NEW p \in Polls, PollFailsEffect(p) PROVE Settled(m)
  BY <1>15 DEF PollFailsEffect, Parked
<1>16. ASSUME NoEffect PROVE Settled(m)
  BY <1>16 DEF NoEffect, vars, Parked
<1> QED
  BY <1>1, <1>2, <1>3, <1>4, <1>5, <1>6, <1>7, <1>8, <1>9, <1>10, <1>11, <1>12, <1>13,
       <1>14, <1>15, <1>16 DEF Effect

\* A message that bears the timestamp of a mark is not the one that was marked.
LEMMA MarkHasHeir ==
    ASSUME CountsOK, Forwarded, Marked, Received, NEW m \in Msgs, faults = 0, stored[m] = 0,
           ~Uploading(m), IsProcessed(Stamp(m))
    PROVE  \E n \in Sent \ {m} :
              /\ Stamp(n) = Stamp(m) /\ KindOf[n] \in Uploads
              /\ stored[n] > 0 \/ Uploading(n)
<1>1. PICK n \in Sent : /\ sentAt[n] = Stamp(m) /\ KindOf[n] \in Uploads
                        /\ faults > 0 \/ stored[n] > 0 \/ Uploading(n)
  BY DEF Marked, IsProcessed
<1>2. parkedAt[n] = 0
  BY <1>1 DEF Forwarded, Uploads, Sent
<1> QED
  BY <1>1, <1>2 DEF Stamp

LEMMA MarkHasTwin ==
    ASSUME CountsOK, Forwarded, Marked, Received, NEW m \in Msgs, faults = 0, stored[m] = 0,
           ~Uploading(m), IsProcessed(Stamp(m))
    PROVE  Twin(m)
BY MarkHasHeir DEF Twin

\* What the consumer uploads it has.
LEMMA UploadingCarried ==
    ASSUME QueuesOK, PlacesOK, NEW m \in Msgs, Uploading(m)
    PROVE  Carries(batch[Consumer], m)
BY ReaderFacts, CurrentFacts DEF Uploading, PlacesOK

\* A twin stays one.
LEMMA TwinStays ==
    ASSUME NEW m \in Msgs, Twin(m), Forwarded', Stamp(m)' = Stamp(m), \A n \in Msgs : Remembered(n)
    PROVE  Twin(m)'
<1>1. PICK n \in Sent \ {m} : Stamp(n) = Stamp(m) /\ (parkedAt[n] # 0 \/ KindOf[n] \in Uploads)
  BY DEF Twin
<1>2. n \in Msgs /\ sentAt[n] # 0 /\ sentAt'[n] = sentAt[n]
  BY <1>1 DEF Sent, Remembered
<1>3. parkedAt'[n] = parkedAt[n]
  BY <1>1, <1>2 DEF Remembered, Forwarded, Uploads
<1> QED
  BY <1>1, <1>2, <1>3 DEF Twin, Sent, Stamp

\* Without a fault, a message is lost only to one with its timestamp.
LEMMA LossHasHeir ==
    ASSUME QueuesOK, KeysOK, PlacesOK, CountsOK, StampsOK, Orderly,
           Queued, Received, Forwarded, Drained, Uploaded, Marked, Deleting, CountsOK',
           NEW m \in Msgs, sentAt[m] # 0, KindOf[m] \in {"command", "help", "note"},
           secret \/ KindOf[m] = "note" \/ parkedAt[m] # 0,
           acted'[m] = 0, stored'[m] = 0, faults' = 0, Waits(m), ~Waits(m)',
           \A n \in Msgs : Remembered(n), Forwarded', Effect
    PROVE  Heir(m)'
<1> USE WaitsFacts, ReaderFacts
<1>1. ASSUME NEW n \in Msgs, NEW time \in Times, SendEffect(n, time) PROVE Heir(m)'
  <2>1. Waits(m)'
    BY <1>1 DEF SendEffect, Parked
  <2> QED
    BY <2>1
<1>2. ASSUME NEW k \in Times, ExpireEffect(k) PROVE Heir(m)'
  BY <1>2 DEF ExpireEffect, CountsOK
<1>3. ASSUME ReceiveLostEffect PROVE Heir(m)'
  BY <1>3 DEF ReceiveLostEffect, CountsOK
<1>4. ASSUME ConsumerReceiveEffect PROVE Heir(m)'
  <2>1. Waits(m)'
    BY <1>4 DEF ConsumerReceiveEffect, Parked
  <2> QED
    BY <2>1
<1>5. ASSUME DeclineEffect PROVE Heir(m)'
  <2>0. PICK c \in Msgs : c = Current(Consumer).msg
    BY <1>5 DEF DeclineEffect
  <2>1. /\ Current(Consumer).time = Stamp(c)
        /\ IsProcessed(Current(Consumer).time) \/ KindOf[c] \in {"approval", "text", "sync"}
        /\ \A q \in Readers, n \in Msgs : Carries(batch[q], n) => Carries(batch'[q], n) \/ n = c
        /\ \A n : ~Uploading(n)
        /\ UNCHANGED <<inbox, pending, stored, acted, sentAt, parkedAt, faults>>
    BY <1>5, <2>0 DEF DeclineEffect
  <2>2. m = c
    BY <2>1 DEF Parked
  <2>3. faults = 0 /\ stored[m] = 0
    BY <2>1 DEF CountsOK
  <2>4. PICK n \in Sent \ {m} : Stamp(n) = Stamp(m) /\ (stored[n] > 0 \/ Uploading(n))
    BY <2>1, <2>2, <2>3, MarkHasHeir
  <2>5. stored'[n] > 0 /\ sentAt'[n] # 0 /\ Stamp(n)' = Stamp(m)'
    BY <2>1, <2>4 DEF Sent, Stamp
  <2> QED
    BY <2>4, <2>5 DEF Heir, Kept, Sent
<1>6. ASSUME NEW k \in Times, ForwardEffect(k) PROVE Heir(m)'
  <2>0. PICK c \in Msgs : c = Current(Consumer).msg
    BY <1>6 DEF ForwardEffect
  <2>a. /\ Carries(batch[Consumer], c) /\ KindOf[c] \in {"command", "help"}
        /\ \A q \in Readers, n \in Msgs : Carries(batch[q], n) => Carries(batch'[q], n) \/ n = c
        /\ UNCHANGED <<inbox, sentAt>>
    BY <1>6, <2>0 DEF ForwardEffect
  <2>b. ~UNCHANGED <<acted, pending, parkedAt>> \/ ~(secret => faults' > 0)
    <3> SUFFICES ASSUME UNCHANGED <<acted, pending, parkedAt>>, secret => faults' > 0 PROVE FALSE
      OBVIOUS
    <3>1. m = c /\ ~secret
      BY <2>a DEF Parked
    <3>2. parkedAt[c] # 0
      BY <2>a, <3>1
    <3> QED
      BY <2>a, <3>2 DEF Received
  <2>1. /\ Carries(batch[Consumer], c)
        /\ \A q \in Readers, n \in Msgs : Carries(batch[q], n) => Carries(batch'[q], n) \/ n = c
        /\ UNCHANGED <<inbox, sentAt>>
        /\ parkedAt'[c] = k /\ \A n \in Msgs : n # c => parkedAt'[n] = parkedAt[n]
        /\ DOMAIN pending' = DOMAIN pending \cup {k} /\ pending'[k] = c
        /\ \A j \in DOMAIN pending : j # k => pending'[j] = pending[j]
    BY <1>6, <2>0, <2>b DEF ForwardEffect
  <2>2. Parked(c)' /\ k # 0
    BY <2>1, NoZero DEF Parked
  <2>3. m # c
    BY <2>2
  <2>4. k \in DOMAIN pending /\ pending[k] = m
    BY <2>1, <2>3 DEF Parked
  <2>5. parkedAt[m] = k
    BY <2>4 DEF Forwarded
  <2>6. parkedAt'[m] = k /\ sentAt'[c] # 0
    BY <2>1, <2>3, <2>5 DEF Received, Sent
  <2> QED
    BY <2>1, <2>2, <2>3, <2>6 DEF Heir, Kept, Sent, Stamp
<1>7. ASSUME MarkEffect PROVE Heir(m)'
  <2>1. Waits(m)'
    BY <1>7 DEF MarkEffect, Parked
  <2> QED
    BY <2>1
<1>8. ASSUME UploadEffect PROVE Heir(m)'
  <2>0. PICK c \in Msgs : c = Current(Consumer).msg
    BY <1>8 DEF UploadEffect
  <2>1. /\ Uploading(c) /\ UNCHANGED <<inbox, pending, acted, sentAt, parkedAt>>
        /\ left # 1 => batch' = batch
        /\ stored'[c] = stored[c] + 1 \/ faults' = faults + 1
    BY <1>8, <2>0 DEF UploadEffect
  <2>2. left = 1 => \A q \in Readers, n \in Msgs : Carries(batch[q], n)
            => Carries(batch'[q], n) \/ n = c
    BY <1>8, <2>0 DEF UploadEffect
  <2>3. m = c
    BY <2>1, <2>2 DEF Parked
  <2>4. faults \in Nat /\ stored[c] \in Nat
    BY DEF CountsOK
  <2> QED
    BY <2>1, <2>3, <2>4
<1>9. ASSUME ConsumerFailsEffect PROVE Heir(m)'
  BY <1>9 DEF ConsumerFailsEffect, CountsOK
<1>10. ASSUME NEW p \in Polls, ReceiveEffect(p) PROVE Heir(m)'
  <2>1. Waits(m)'
    BY <1>10 DEF ReceiveEffect, Parked
  <2> QED
    BY <2>1
<1>11. ASSUME NEW p \in Polls, ListKeysEffect(p) PROVE Heir(m)'
  <2>1. Waits(m)'
    BY <1>11 DEF ListKeysEffect, Parked
  <2> QED
    BY <2>1
<1>12. ASSUME NEW p \in Polls, NEW k \in Times, GetKeyEffect(p, k) PROVE Heir(m)'
  <2>1. k \notin DOMAIN pending => batch' = batch
    BY <1>12 DEF GetKeyEffect
  <2>2. k \in DOMAIN pending => \A q \in Readers, n \in Msgs : Carries(batch[q], n)
            => Carries(batch'[q], n)
    BY <1>12 DEF GetKeyEffect
  <2>3. UNCHANGED <<inbox, pending>>
    BY <1>12 DEF GetKeyEffect
  <2>4. Waits(m)'
    BY <2>1, <2>2, <2>3 DEF Parked
  <2> QED
    BY <2>4
<1>13. ASSUME NEW p \in Polls, DeleteKeyEffect(p) PROVE Heir(m)'
  <2>1. /\ at[p] = "delete" /\ UNCHANGED <<inbox, batch, acted, stored, sentAt, parkedAt>>
        /\ DOMAIN pending' = DOMAIN pending \ {key[p]}
        /\ \A k \in DOMAIN pending' : pending'[k] = pending[k]
    BY <1>13 DEF DeleteKeyEffect
  <2>2. key[p] \in DOMAIN pending /\ pending[key[p]] = m
    BY <2>1 DEF Parked
  <2>3. parkedAt[m] = key[p]
    BY <2>2 DEF Forwarded
  <2>4. PICK n \in Msgs : Carries(batch[p], n) /\ parkedAt[n] = key[p]
    BY <2>1 DEF Deleting
  <2>5. n # m /\ key[p] # 0 /\ sentAt[n] # 0
    BY <2>1, <2>2, <2>4, NoZero DEF KeysOK, Received, Sent
  <2>6. Waits(n)'
    BY <2>1, <2>4
  <2> QED
    BY <2>1, <2>3, <2>4, <2>5, <2>6 DEF Heir, Kept, Sent, Stamp
<1>14. ASSUME NEW p \in Polls, HandleEffect(p) PROVE Heir(m)'
  <2>0. PICK c \in Msgs : c = Current(p).msg
    BY <1>14 DEF HandleEffect
  <2>1. faults \in Nat /\ faults = 0
    BY DEF CountsOK, Remembered
  <2>2. /\ Current(p).time = Stamp(c) /\ at[p] = "next" /\ Carries(batch[p], c)
        /\ \A q \in Readers, n \in Msgs : Carries(batch[q], n) => Carries(batch'[q], n) \/ n = c
        /\ UNCHANGED <<inbox, pending, stored, sentAt, parkedAt>>
        /\ \A n : Uploading(n)' <=> Uploading(n)
        /\ IsProcessed(Current(p).time) \/ ~ActsOn(c) \/ acted'[c] = acted[c] + 1
    BY <1>14, <2>0, <2>1 DEF HandleEffect
  <2>3. m = c
    BY <2>2 DEF Parked
  <2>4. IsProcessed(Stamp(m)) /\ stored[m] = 0
    BY <2>2, <2>3 DEF ActsOn, CountsOK
  <2>5. Uploading(m) => Carries(batch[Consumer], m)
    BY UploadingCarried
  <2>6. ~Uploading(m)
    BY <2>2, <2>3, <2>5 DEF Received
  <2>7. PICK n \in Sent \ {m} : Stamp(n) = Stamp(m) /\ (stored[n] > 0 \/ Uploading(n))
    BY <2>1, <2>4, <2>6, MarkHasHeir
  <2>8. stored'[n] > 0 \/ Uploading(n)'
    BY <2>2, <2>7
  <2>9. sentAt'[n] # 0 /\ Stamp(n)' = Stamp(m)'
    BY <2>2, <2>7 DEF Sent, Stamp
  <2> QED
    BY <2>7, <2>8, <2>9 DEF Heir, Kept, Sent
<1>15. ASSUME NEW p \in Polls, PollFailsEffect(p) PROVE Heir(m)'
  BY <1>15 DEF PollFailsEffect, CountsOK
<1>16. ASSUME NoEffect PROVE Heir(m)'
  <2>1. Waits(m)'
    BY <1>16 DEF NoEffect, Parked, vars
  <2> QED
    BY <2>1
<1> QED
  BY <1>1, <1>2, <1>3, <1>4, <1>5, <1>6, <1>7, <1>8, <1>9, <1>10, <1>11, <1>12, <1>13,
       <1>14, <1>15, <1>16 DEF Effect

\* Only Send sends.
LEMMA SentBySend ==
    ASSUME Effect, NEW m \in Msgs, sentAt[m] = 0, sentAt'[m] # 0
    PROVE  \E time \in Times : SendEffect(m, time)
BY DEF Effect, SendEffect, ExpireEffect, ReceiveLostEffect, ConsumerReceiveEffect, DeclineEffect,
       ForwardEffect, MarkEffect, UploadEffect, ConsumerFailsEffect, ReceiveEffect, ListKeysEffect,
       GetKeyEffect, DeleteKeyEffect, HandleEffect, PollFailsEffect, NoEffect, vars

\* An upload ends with a document, or with a fault.
LEMMA UploadEnds ==
    ASSUME CountsOK, NEW n \in Msgs, Uploading(n), faults' = 0, Effect
    PROVE  Uploading(n)' \/ stored'[n] > 0
<1>1. faults \in Nat /\ stored[n] \in Nat /\ faults + 1 # 0 /\ stored[n] + 1 > 0
  BY DEF CountsOK
<1>2. CASE UploadEffect
  BY <1>1, <1>2 DEF UploadEffect
<1>3. CASE ConsumerFailsEffect
  BY <1>1, <1>3 DEF ConsumerFailsEffect
<1>4. CASE ~UploadEffect /\ ~ConsumerFailsEffect
  BY <1>4 DEF Effect, SendEffect, ExpireEffect, ReceiveLostEffect, ConsumerReceiveEffect,
              DeclineEffect, ForwardEffect, MarkEffect, ReceiveEffect, ListKeysEffect,
              GetKeyEffect, DeleteKeyEffect, HandleEffect, PollFailsEffect, NoEffect
<1> QED
  BY <1>2, <1>3, <1>4

LEMMA UploadingWaits == QueuesOK /\ PlacesOK => \A m \in Msgs : Uploading(m) => Waits(m)
BY UploadingCarried, WaitsFacts, ReaderFacts

LEMMA NextUploadingWaits ==
    QueuesOK' /\ PlacesOK' => \A m \in Msgs : Uploading(m)' => Waits(m)'
<1>1. (QueuesOK /\ PlacesOK => \A m \in Msgs : Uploading(m) => Waits(m))'
  BY UploadingWaits, PTL
<1> QED
  BY <1>1

\* What is kept stays so under its timestamp, or is lost to another that is kept.
LEMMA KeptOr ==
    ASSUME QueuesOK, KeysOK, PlacesOK, CountsOK, StampsOK, Orderly,
           Queued, Received, Forwarded, Drained, Uploaded, Marked, Deleting, CountsOK', Forwarded',
           NEW n \in Msgs, sentAt[n] # 0, Kept(n), faults' = 0,
           \A m \in Msgs : Remembered(m), Effect
    PROVE  Stamp(n)' = Stamp(n) /\ (Kept(n)' \/ Heir(n)')
<1>1. CASE stored[n] > 0 \/ Uploading(n)
  <2>1. KindOf[n] \in Uploads
    BY <1>1 DEF Uploaded
  <2>2. parkedAt[n] = 0 /\ parkedAt'[n] = 0 /\ sentAt'[n] = sentAt[n]
    BY <2>1 DEF Forwarded, Uploads, Remembered
  <2>3. Uploading(n)' \/ stored'[n] > 0
    BY <1>1, UploadEnds DEF Remembered
  <2> QED
    BY <2>2, <2>3 DEF Kept, Stamp
<1>2. CASE parkedAt[n] # 0 /\ (acted[n] > 0 \/ Waits(n))
  <2>1. parkedAt'[n] = parkedAt[n] /\ sentAt'[n] = sentAt[n] /\ (acted[n] > 0 => acted'[n] > 0)
    BY <1>2 DEF Remembered
  <2>2. CASE Waits(n)' \/ acted'[n] > 0 \/ stored'[n] > 0
    BY <1>2, <2>1, <2>2 DEF Kept, Stamp
  <2>3. CASE ~Waits(n)' /\ ~(acted'[n] > 0) /\ ~(stored'[n] > 0)
    <3>1. KindOf[n] \in {"command", "help", "note"}
      BY <1>2 DEF Forwarded
    <3>2. acted'[n] = 0 /\ stored'[n] = 0 /\ Waits(n)
      BY <1>2, <2>1, <2>3 DEF CountsOK
    <3>3. Heir(n)'
      BY <1>2, <2>3, <3>1, <3>2, LossHasHeir
    <3> QED
      BY <2>1, <3>3 DEF Stamp
  <2> QED
    BY <2>2, <2>3
<1> QED
  BY <1>1, <1>2 DEF Kept

\* Without a fault, a note or a forwarded command that is lost has an heir.
LEMMA AccountedStep ==
    ASSUME QueuesOK, KeysOK, PlacesOK, CountsOK, StampsOK, Orderly, Queued, Received, Forwarded,
           Drained, Uploaded, Marked, Deleting, Accounted, CountsOK', Forwarded', QueuesOK',
           PlacesOK', secret' = secret, Effect
    PROVE  Accounted'
<1>1. \A n \in Msgs : Remembered(n)
  BY NothingUndone
<1> SUFFICES ASSUME faults' = 0, NEW m \in Msgs, sentAt'[m] # 0, Promised(m)', acted'[m] = 0,
                    stored'[m] = 0, ~Waits(m)'
             PROVE  Heir(m)'
  BY DEF Accounted, Sent
<1>2. faults = 0 /\ acted[m] = 0 /\ stored[m] = 0
  BY <1>1 DEF Remembered, CountsOK
<1>3. sentAt[m] # 0
  <2> SUFFICES ASSUME sentAt[m] = 0 PROVE FALSE
    OBVIOUS
  <2>1. PICK time \in Times : SendEffect(m, time)
    BY SentBySend
  <2>2. Carries(inbox', m)
    BY <2>1 DEF SendEffect
  <2> QED
    BY <2>2, WaitsFacts
<1>4. Promised(m) /\ KindOf[m] \in {"command", "help", "note"} /\ (secret \/ KindOf[m] = "note")
  BY DEF Promised
<1>5. CASE Waits(m)
  BY <1>1, <1>3, <1>4, <1>5, LossHasHeir
<1>6. CASE ~Waits(m)
  <2>1. PICK n \in Sent \ {m} : Stamp(n) = Stamp(m) /\ Kept(n)
    BY <1>2, <1>3, <1>4, <1>6 DEF Accounted, Sent, Heir
  <2>2. n \in Msgs /\ sentAt[n] # 0 /\ sentAt'[n] # 0
    BY <1>1, <2>1 DEF Sent, Remembered
  <2>3. Stamp(n)' = Stamp(n) /\ (Kept(n)' \/ Heir(n)')
    BY <1>1, <2>1, <2>2, KeptOr
  <2>4. Stamp(n)' = Stamp(m)'
    BY <1>3, <1>6, <2>1, <2>3, Steady DEF Settled, Stamp
  <2>5. CASE Kept(n)'
    BY <2>1, <2>2, <2>4, <2>5 DEF Heir, Sent
  <2>6. CASE Heir(n)'
    <3>1. PICK p \in Msgs : sentAt'[p] # 0 /\ p # n /\ Stamp(p)' = Stamp(n)' /\ Kept(p)'
      BY <2>6 DEF Heir, Sent
    <3>2. ~Kept(m)'
      BY NextUploadingWaits DEF Kept
    <3>3. p # m
      BY <3>1, <3>2
    <3> QED
      BY <2>4, <3>1, <3>3 DEF Heir, Sent
  <2> QED
    BY <2>3, <2>5, <2>6
<1> QED
  BY <1>5, <1>6

\* A note is confirmed once it is stored.
LEMMA ConfirmedStep ==
    ASSUME CountsOK, NoteConfirmed, Effect
    PROVE  NoteConfirmed'
<1> USE DEF NoteConfirmed, CountsOK
<1>1. ASSUME NEW m \in Msgs, NEW time \in Times, SendEffect(m, time) PROVE NoteConfirmed'
  BY <1>1 DEF SendEffect
<1>2. ASSUME NEW k \in Times, ExpireEffect(k) PROVE NoteConfirmed'
  BY <1>2 DEF ExpireEffect
<1>3. ASSUME ReceiveLostEffect PROVE NoteConfirmed'
  BY <1>3 DEF ReceiveLostEffect
<1>4. ASSUME ConsumerReceiveEffect PROVE NoteConfirmed'
  BY <1>4 DEF ConsumerReceiveEffect
<1>5. ASSUME DeclineEffect PROVE NoteConfirmed'
  BY <1>5 DEF DeclineEffect
<1>6. ASSUME NEW k \in Times, ForwardEffect(k) PROVE NoteConfirmed'
  BY <1>6 DEF ForwardEffect
<1>7. ASSUME MarkEffect PROVE NoteConfirmed'
  BY <1>7 DEF MarkEffect
<1>8. ASSUME UploadEffect PROVE NoteConfirmed'
  <2>0. PICK c \in Msgs : c = Current(Consumer).msg
    BY <1>8 DEF UploadEffect
  <2>1. \A n \in told' : n \in told \/ n = c
    BY <1>8, <2>0 DEF UploadEffect, Reply
  <2>2. c \in told' /\ c \notin told /\ KindOf[c] = "note" => stored'[c] = stored[c] + 1
    BY <1>8, <2>0 DEF UploadEffect, Reply
  <2>3. \A n \in Msgs : stored'[n] \in {stored[n], stored[n] + 1}
    BY <1>8 DEF UploadEffect
  <2>4. told \subseteq Msgs /\ \A n \in Msgs : stored[n] \in Nat
    OBVIOUS
  <2>5. \A n \in told : KindOf[n] = "note" => stored[n] > 0
    OBVIOUS
  <2> HIDE DEF NoteConfirmed, CountsOK
  <2>6. ASSUME NEW n \in told', KindOf[n] = "note" PROVE stored'[n] > 0
    <3>1. CASE n \in told
      BY <2>3, <2>4, <2>5, <2>6, <3>1
    <3>2. CASE n \notin told
      BY <2>1, <2>2, <2>4, <2>6, <3>2
    <3> QED
      BY <3>1, <3>2
  <2> QED
    BY <2>6 DEF NoteConfirmed
<1>9. ASSUME ConsumerFailsEffect PROVE NoteConfirmed'
  BY <1>9 DEF ConsumerFailsEffect
<1>10. ASSUME NEW p \in Polls, ReceiveEffect(p) PROVE NoteConfirmed'
  BY <1>10 DEF ReceiveEffect
<1>11. ASSUME NEW p \in Polls, ListKeysEffect(p) PROVE NoteConfirmed'
  BY <1>11 DEF ListKeysEffect
<1>12. ASSUME NEW p \in Polls, NEW k \in Times, GetKeyEffect(p, k) PROVE NoteConfirmed'
  BY <1>12 DEF GetKeyEffect
<1>13. ASSUME NEW p \in Polls, DeleteKeyEffect(p) PROVE NoteConfirmed'
  BY <1>13 DEF DeleteKeyEffect
<1>14. ASSUME NEW p \in Polls, HandleEffect(p) PROVE NoteConfirmed'
  BY <1>14 DEF HandleEffect
<1>15. ASSUME NEW p \in Polls, PollFailsEffect(p) PROVE NoteConfirmed'
  BY <1>15 DEF PollFailsEffect
<1>16. ASSUME NoEffect PROVE NoteConfirmed'
  BY <1>16 DEF NoEffect, vars
<1> QED
  BY <1>1, <1>2, <1>3, <1>4, <1>5, <1>6, <1>7, <1>8, <1>9, <1>10, <1>11, <1>12, <1>13,
       <1>14, <1>15, <1>16 DEF Effect

-----------------------------------------------------------------------------
(* Theorems                                                                *)

\* The inductive invariant.
DeliveryInv ==
    /\ TypeOK /\ Orderly /\ Queued /\ Received /\ Forwarded /\ Drained /\ Uploaded
    /\ (\A m \in Msgs : CountOf(m))
    /\ Marked /\ Deleting /\ NoteConfirmed

LEMMA InvHolds == Init => DeliveryInv /\ Accounted
<1> SUFFICES ASSUME Init PROVE DeliveryInv /\ Accounted
  OBVIOUS
<1>1. /\ inbox = <<>> /\ DOMAIN pending = {} /\ processed = {} /\ left = 0 /\ faults = 0 /\ told = {}
      /\ now = 1
      /\ at = [r \in Readers |-> "idle"] /\ batch = [r \in Readers |-> <<>>]
      /\ keys = [p \in Polls |-> {}] /\ key = [p \in Polls |-> 0]
      /\ \A m \in Msgs : acted[m] = 0 /\ stored[m] = 0 /\ sentAt[m] = 0 /\ parkedAt[m] = 0
  BY EmptySeq DEF Init
<1>2. TypeOK
  <2>1. QueuesOK
    BY <1>1, EmptyCarries DEF QueuesOK
  <2>2. pending \in [DOMAIN pending -> Msgs]
    <3>1. <<>> \in Seq(Msgs) /\ Len(<<>>) = 0 /\ pending = <<>>
      BY EmptySeq DEF Init
    <3> QED
      BY <3>1, LenProperties
  <2>3. KeysOK
    BY <1>1, <2>2, DeliveryAssumption DEF KeysOK, Times
  <2>4. PlacesOK
    BY <1>1, ReaderFacts DEF PlacesOK, Places
  <2>5. CountsOK /\ StampsOK
    BY DEF Init, CountsOK, StampsOK
  <2> QED
    BY <2>1, <2>3, <2>4, <2>5, TypeParts DEF SecretOK, Init
<1>3. \A m : ~Carries(inbox, m) /\ \A r \in Readers : ~Carries(batch[r], m)
  BY <1>1, EmptyCarries
<1>4. Orderly
  BY <1>1, EmptyCarries DEF Orderly
<1>5. Queued /\ Received /\ Drained /\ Forwarded /\ Deleting /\ Marked /\ NoteConfirmed
  BY <1>1, <1>3, ReaderFacts DEF Queued, Received, Drained, Forwarded, Deleting, Marked, NoteConfirmed
<1>6. Uploaded
  BY <1>1, ReaderFacts DEF Uploaded, Uploading
<1>7. \A m \in Msgs : CountOf(m)
  BY <1>1 DEF CountOf, Parked
<1>8. Accounted
  BY <1>1 DEF Accounted, Sent
<1> QED
  BY <1>2, <1>4, <1>5, <1>6, <1>7, <1>8 DEF DeliveryInv

LEMMA NextTypeParts ==
    TypeOK' <=> SecretOK' /\ QueuesOK' /\ KeysOK' /\ PlacesOK' /\ CountsOK' /\ StampsOK'
BY TypeParts, PTL

LEMMA InvStep == ASSUME DeliveryInv, [Next]_vars PROVE DeliveryInv'
<1>1. QueuesOK /\ KeysOK /\ PlacesOK /\ CountsOK /\ StampsOK
  BY TypeParts DEF DeliveryInv
<1>2. /\ Orderly /\ Queued /\ Received /\ Forwarded /\ Drained /\ Uploaded
      /\ (\A m \in Msgs : CountOf(m)) /\ Marked /\ Deleting /\ NoteConfirmed
  BY DEF DeliveryInv
<1>3. Effect
  BY <1>1, <1>2, StepHasEffect
<1>4. QueuesOK' /\ KeysOK' /\ PlacesOK' /\ CountsOK' /\ StampsOK'
  BY <1>1, QueuesTyped, KeysTyped, PlacesTyped, CountsTyped, StampsTyped
<1>5. TypeOK'
  <2>1. SecretOK'
    BY SecretKept, TypeParts DEF SecretOK, DeliveryInv
  <2> QED
    BY <1>4, <2>1, NextTypeParts
<1>6. Orderly' /\ Queued' /\ Received' /\ Forwarded' /\ Drained' /\ Uploaded'
  BY <1>1, <1>2, <1>3, <1>4, OrderlyStep, QueuedStep, ReceivedStep, ForwardedStep, DrainedStep,
     UploadedStep
<1>7. (\A m \in Msgs : CountOf(m))'
  BY <1>1, <1>2, <1>3, CountedStep
<1>8. Marked' /\ Deleting' /\ NoteConfirmed'
  BY <1>1, <1>2, <1>3, <1>4, MarkedStep, DeletingStep, ConfirmedStep
<1> QED
  BY <1>5, <1>6, <1>7, <1>8 DEF DeliveryInv

\* Whatever overlaps, fails, expires or collides, a message keeps to the path from
\* signal-api over one reader, or a key and the polls, to its end.
THEOREM Invariance == Spec => []DeliveryInv
BY InvHolds, InvStep, PTL DEF Spec

\* Readers, keys and counts are what pollSignal and the consumer take them for.
THEOREM TypeCorrect == Spec => []TypeOK
<1>1. DeliveryInv => TypeOK
  BY DEF DeliveryInv
<1> QED
  BY <1>1, Invariance, PTL

\* scripts/signal_consumer.py:8-9: a document for each upload at most, one act upon
\* what the API receives, and upon a forwarded command one for each poll at most.
THEOREM ProcessedOnce == Spec => []NoDoubleProcessing
<1>1. ASSUME DeliveryInv PROVE NoDoubleProcessing
  <2> SUFFICES ASSUME NEW m \in Msgs
               PROVE  /\ stored[m] <= FilesOf[m] /\ acted[m] <= ActsOf(m)
                      /\ stored[m] = 0 \/ acted[m] = 0
    BY DEF NoDoubleProcessing
  <2>1. /\ acted[m] \in Nat /\ stored[m] \in Nat /\ FilesOf[m] \in Nat
        /\ Cardinality(Polls) \in Nat /\ Cardinality(Holders(m)) \in Nat
    BY <1>1, TypeParts, PollsCounted, HoldersFacts, DeliveryAssumption DEF DeliveryInv, CountsOK
  <2>2. stored[m] > 0 => acted[m] = 0 /\ stored[m] <= FilesOf[m]
    BY <1>1 DEF DeliveryInv, Uploaded
  <2>3. /\ parkedAt[m] = 0 => acted[m] <= 1
        /\ Parked(m) => acted[m] = Answers(m)
        /\ parkedAt[m] # 0 /\ ~Parked(m) =>
              acted[m] + Cardinality(Holders(m)) <= Answers(m) + Cardinality(Polls)
    BY <1>1 DEF DeliveryInv, CountOf
  <2>4. /\ parkedAt[m] = 0 => ActsOf(m) = 1
        /\ parkedAt[m] # 0 => ActsOf(m) = Cardinality(Polls) + Answers(m)
        /\ Answers(m) \in Nat
    BY <2>1 DEF ActsOf, Answers
  <2>5. acted[m] <= ActsOf(m)
    BY <2>1, <2>3, <2>4
  <2> QED
    BY <2>1, <2>2, <2>5
<1> QED
  BY <1>1, Invariance, PTL

\* "Notitie opgeslagen in Paperless" is true whenever the consumer says it.
THEOREM ConfirmedIsStored == Spec => []NoteConfirmed
<1>1. DeliveryInv => NoteConfirmed
  BY DEF DeliveryInv
<1> QED
  BY <1>1, Invariance, PTL

\* While nothing fails no note is lost, and no command if the consumer has the API's
\* secret, except for another message of its millisecond that is not lost; and no part
\* of a file or a note is missing.
THEOREM NothingIsMissing == Spec => []NothingMissing
<1>1. ASSUME DeliveryInv, Accounted, [Next]_vars PROVE Accounted'
  <2>1. QueuesOK /\ KeysOK /\ PlacesOK /\ CountsOK /\ StampsOK
    BY <1>1, TypeParts DEF DeliveryInv
  <2>2. /\ Orderly /\ Queued /\ Received /\ Forwarded /\ Drained /\ Uploaded /\ Marked /\ Deleting
    BY <1>1 DEF DeliveryInv
  <2>3. Effect
    BY <1>1, <2>1, <2>2, StepHasEffect
  <2>4. CountsOK' /\ Forwarded' /\ QueuesOK' /\ PlacesOK'
    BY <1>1, InvStep, NextTypeParts DEF DeliveryInv
  <2> QED
    BY <1>1, <2>1, <2>2, <2>3, <2>4, SecretKept, AccountedStep
<1>2. ASSUME DeliveryInv, Accounted PROVE NothingMissing
  <2> SUFFICES ASSUME NEW m \in Sent, ~(faults > 0)
               PROVE  /\ Promised(m) => fate[m] # "lost"
                            \/ \E n \in Sent \ {m} : Stamp(n) = Stamp(m) /\ fate[n] # "lost"
                      /\ stored[m] > 0 /\ ~Waits(m) => stored[m] = FilesOf[m]
    BY DEF NothingMissing, Promised
  <2>1. m \in Msgs /\ faults = 0 /\ acted[m] \in Nat /\ stored[m] \in Nat /\ QueuesOK /\ PlacesOK
    BY <1>2, TypeParts DEF DeliveryInv, CountsOK, Sent
  <2>2. ASSUME NEW n \in Sent, Kept(n) PROVE fate[n] # "lost"
    <3>1. n \in Msgs /\ acted[n] \in Nat /\ stored[n] \in Nat
      BY <1>2, TypeParts DEF DeliveryInv, CountsOK, Sent
    <3>2. stored[n] > 0 \/ acted[n] > 0 \/ Waits(n)
      BY <2>1, <2>2, <3>1, UploadingWaits DEF Kept
    <3> QED
      BY <3>1, <3>2 DEF fate
  <2>3. ASSUME Promised(m), fate[m] = "lost"
        PROVE  \E n \in Sent \ {m} : Stamp(n) = Stamp(m) /\ fate[n] # "lost"
    <3>1. acted[m] = 0 /\ stored[m] = 0 /\ ~Waits(m)
      BY <2>1, <2>3 DEF fate
    <3>2. Heir(m)
      BY <1>2, <2>1, <2>3, <3>1 DEF Accounted
    <3> QED
      BY <2>2, <3>2 DEF Heir
  <2>4. ASSUME stored[m] > 0, ~Waits(m) PROVE stored[m] = FilesOf[m]
    <3>1. ~Uploading(m)
      BY <2>1, <2>4, UploadingWaits
    <3> QED
      BY <1>2, <2>1, <2>4, <3>1 DEF DeliveryInv, Uploaded
  <2> QED
    BY <2>3, <2>4
<1>3. Spec => [](DeliveryInv /\ Accounted)
  BY <1>1, InvHolds, InvStep, PTL DEF Spec
<1> QED
  BY <1>2, <1>3, PTL

-----------------------------------------------------------------------------
(* Every message has one fate                                              *)

LEMMA FateOf ==
    ASSUME CountsOK, NEW m \in Msgs
    PROVE  /\ fate[m] = IF sentAt[m] = 0 THEN "unsent"
                        ELSE IF acted[m] > 0 THEN "acted"
                        ELSE IF stored[m] > 0 THEN "stored"
                        ELSE IF Waits(m) THEN "waiting" ELSE "lost"
           /\ fate'[m] = IF sentAt'[m] = 0 THEN "unsent"
                         ELSE IF acted'[m] > 0 THEN "acted"
                         ELSE IF stored'[m] > 0 THEN "stored"
                         ELSE IF Waits(m)' THEN "waiting" ELSE "lost"
BY DEF fate, Sent

\* The step of MessageFate that a step of the code is, for one message.
LEMMA FateStep ==
    ASSUME DeliveryInv, [Next]_vars, NEW m \in Msgs
    PROVE  Abstract!May(fate[m], fate'[m])
<1>1. QueuesOK /\ KeysOK /\ PlacesOK /\ CountsOK /\ StampsOK
  BY TypeParts DEF DeliveryInv
<1>2. Orderly /\ Queued /\ Received /\ Forwarded /\ Drained /\ Uploaded
  BY DEF DeliveryInv
<1>3. Effect
  BY <1>1, <1>2, StepHasEffect
<1>4. CountsOK' /\ Uploaded'
  BY InvStep, NextTypeParts DEF DeliveryInv
<1>5. Remembered(m) /\ (sentAt[m] # 0 /\ ~Waits(m) => Settled(m))
  BY <1>1, <1>2, <1>3, <1>4, NothingUndone, Steady
<1>6. /\ acted[m] \in Nat /\ stored[m] \in Nat /\ acted'[m] \in Nat /\ stored'[m] \in Nat
      /\ stored'[m] > 0 => acted'[m] = 0
      /\ sentAt[m] = 0 => acted[m] = 0 /\ stored[m] = 0
  BY <1>1, <1>4, <1>2 DEF CountsOK, Uploaded
<1>7. sentAt[m] = 0 => sentAt'[m] = 0 \/ (acted'[m] = 0 /\ stored'[m] = 0 /\ Waits(m)')
  <2> SUFFICES ASSUME sentAt[m] = 0, sentAt'[m] # 0 PROVE acted'[m] = 0 /\ stored'[m] = 0 /\ Waits(m)'
    OBVIOUS
  <2>1. \E time \in Times : SendEffect(m, time)
    BY <1>3, SentBySend
  <2>2. Carries(inbox', m) /\ acted' = acted /\ stored' = stored
    BY <2>1 DEF SendEffect
  <2> QED
    BY <1>6, <2>2, WaitsFacts
<1> QED
  BY <1>1, <1>5, <1>6, <1>7, FateOf DEF Abstract!May, Abstract!Decided, Remembered, Settled

\* Message delivery implements MessageFate: no message is lost and then found, nor
\* acted upon and then stored.
THEOREM FateRefined == Spec => Fates
<1>1. ASSUME Init PROVE Abstract!Init
  <2>1. CountsOK /\ \A m \in Msgs : sentAt[m] = 0
    BY <1>1, InvHolds, TypeParts DEF DeliveryInv, Init
  <2>2. fate = [m \in Msgs |-> "unsent"]
    BY <2>1 DEF fate, Sent
  <2> QED
    BY <2>2 DEF Abstract!Init
<1>2. ASSUME DeliveryInv, [Next]_vars PROVE [Abstract!Next]_fate
  <2>1. fate' \in [Msgs -> Abstract!Fate]
    BY DEF fate, Abstract!Fate, Abstract!Decided
  <2>2. \A m \in Msgs : Abstract!May(fate[m], fate'[m])
    BY <1>2, FateStep
  <2> QED
    BY <2>1, <2>2 DEF Abstract!Next
<1> QED
  BY <1>1, <1>2, Invariance, PTL DEF Spec, Fates, Abstract!Spec

LEMMA RefusedStep ==
    ASSUME DeliveryInv, [Next]_vars, ~secret, NEW k \in Times, Forward(k)
    PROVE  fate'[Current(Consumer).msg] = "lost"
<1>1. QueuesOK /\ KeysOK /\ PlacesOK /\ CountsOK /\ StampsOK
  BY TypeParts DEF DeliveryInv
<1>2. Orderly /\ Queued /\ Received /\ Forwarded /\ Drained /\ Uploaded
  BY DEF DeliveryInv
<1>3. CountsOK'
  BY InvStep, NextTypeParts DEF DeliveryInv
<1>4. ForwardEffect(k)
  BY <1>1, <1>2, ForwardCarries
<1>5. PICK m \in Msgs : m = Current(Consumer).msg
  BY <1>4 DEF ForwardEffect
<1>6. /\ Carries(batch[Consumer], m) /\ ~Uploading(m) /\ parkedAt'[m] = parkedAt[m]
      /\ UNCHANGED <<inbox, acted, stored, sentAt, pending>>
      /\ \A q \in Readers : Carries(batch'[q], m) <=> Carries(batch[q], m) /\ q # Consumer
  BY <1>4, <1>5 DEF ForwardEffect
<1>7. /\ sentAt[m] # 0 /\ parkedAt[m] = 0 /\ acted[m] = 0 /\ stored[m] = 0
      /\ \A q \in Readers : Carries(batch[q], m) => q = Consumer
  BY <1>1, <1>2, <1>6, ReaderFacts DEF Received, Sent, CountsOK
<1>8. ~Carries(inbox, m) /\ ~Parked(m)
  BY <1>1, <1>2, <1>6, <1>7, ReaderFacts, NoZero DEF Queued, Forwarded, Parked, KeysOK
<1>9. ~Waits(m)'
  BY <1>6, <1>7, <1>8, WaitsFacts DEF Parked
<1>10. acted'[m] = 0 /\ stored'[m] = 0 /\ sentAt'[m] # 0
  BY <1>6, <1>7
<1> QED
  BY <1>5, <1>9, <1>10 DEF fate, Sent

\* signal_consumer.py:27 and docker-compose.yml:443-458 leave the consumer without the
\* secret: then every command is lost in the step that forwards it, whatever else happens.
THEOREM CommandsRefused ==
    Spec => [][~secret =>
                  \A k \in Times : Forward(k) => fate'[Current(Consumer).msg] = "lost"]_vars
<1>1. DeliveryInv /\ [Next]_vars =>
          [~secret => \A k \in Times : Forward(k) => fate'[Current(Consumer).msg] = "lost"]_vars
  BY RefusedStep
<1> QED
  BY <1>1, Invariance, PTL DEF Spec

-----------------------------------------------------------------------------
(* Who loses an approval                                                   *)

\* Messages of whoever the consumer only tells how to use it; pollSignal acts on them.
ForPolls == {"approval", "text", "sync"}

\* The consumer is about to handle the message m.
AtConsumer(m) == at[Consumer] = "next" /\ Current(Consumer).msg = m

\* Without a fault, a message for the polls gets lost in the consumer's hands, or to a
\* message that is stored or parked under its timestamp.
LEMMA PollsLoseNone ==
    ASSUME QueuesOK, KeysOK, PlacesOK, CountsOK, StampsOK, Orderly,
           Queued, Received, Forwarded, Drained, Uploaded, Marked, Deleting,
           NEW m \in Msgs, KindOf[m] \in ForPolls,
           acted'[m] = 0, faults' = faults, Waits(m), ~Waits(m)', Effect
    PROVE  Twin(m) \/ AtConsumer(m)
<1> USE WaitsFacts, ReaderFacts
<1>a. faults \in Nat /\ acted[m] \in Nat
  BY DEF CountsOK
<1>b. parkedAt[m] = 0 /\ ~Parked(m)
  BY NoZero DEF Forwarded, ForPolls, Parked, KeysOK
<1>1. ASSUME NEW n \in Msgs, NEW time \in Times, SendEffect(n, time) PROVE FALSE
  <2>1. Waits(m)'
    BY <1>1 DEF SendEffect, Parked
  <2> QED
    BY <2>1
<1>2. ASSUME NEW k \in Times, ExpireEffect(k) PROVE FALSE
  BY <1>2, <1>a DEF ExpireEffect
<1>3. ASSUME ReceiveLostEffect PROVE FALSE
  BY <1>3, <1>a DEF ReceiveLostEffect
<1>4. ASSUME ConsumerReceiveEffect PROVE FALSE
  <2>1. Waits(m)'
    BY <1>4 DEF ConsumerReceiveEffect, Parked
  <2> QED
    BY <2>1
<1>5. ASSUME DeclineEffect PROVE AtConsumer(m)
  <2>1. PICK c \in Msgs : c = Current(Consumer).msg
    BY <1>5 DEF DeclineEffect
  <2>2. /\ \A q \in Readers, n \in Msgs : Carries(batch[q], n) => Carries(batch'[q], n) \/ n = c
        /\ UNCHANGED <<inbox, pending>> /\ at[Consumer] = "next"
    BY <1>5, <2>1 DEF DeclineEffect
  <2>3. m = c
    BY <2>2 DEF Parked
  <2> QED
    BY <2>1, <2>2, <2>3 DEF AtConsumer
<1>6. ASSUME NEW k \in Times, ForwardEffect(k) PROVE FALSE
  <2>1. PICK c \in Msgs : c = Current(Consumer).msg /\ KindOf[c] \in {"command", "help"}
    BY <1>6 DEF ForwardEffect
  <2>2. /\ \A q \in Readers, n \in Msgs : Carries(batch[q], n) => Carries(batch'[q], n) \/ n = c
        /\ UNCHANGED inbox
    BY <1>6, <2>1 DEF ForwardEffect
  <2>3. m # c
    BY <2>1 DEF ForPolls
  <2> QED
    BY <1>b, <2>2, <2>3
<1>7. ASSUME MarkEffect PROVE FALSE
  <2>1. Waits(m)'
    BY <1>7 DEF MarkEffect, Parked
  <2> QED
    BY <2>1
<1>8. ASSUME UploadEffect PROVE FALSE
  <2>1. PICK c \in Msgs : c = Current(Consumer).msg
    BY <1>8 DEF UploadEffect
  <2>2. Uploading(c) /\ UNCHANGED <<inbox, pending>> /\ (left # 1 => batch' = batch)
    BY <1>8, <2>1 DEF UploadEffect
  <2>3. left = 1 => \A q \in Readers, n \in Msgs : Carries(batch[q], n)
            => Carries(batch'[q], n) \/ n = c
    BY <1>8, <2>1 DEF UploadEffect
  <2>4. KindOf[c] \in Uploads
    BY <2>2 DEF Uploaded
  <2>5. m # c
    BY <2>4 DEF ForPolls, Uploads
  <2> QED
    BY <1>b, <2>2, <2>3, <2>5
<1>9. ASSUME ConsumerFailsEffect PROVE FALSE
  BY <1>9, <1>a DEF ConsumerFailsEffect
<1>10. ASSUME NEW p \in Polls, ReceiveEffect(p) PROVE FALSE
  <2>1. Waits(m)'
    BY <1>10 DEF ReceiveEffect, Parked
  <2> QED
    BY <2>1
<1>11. ASSUME NEW p \in Polls, ListKeysEffect(p) PROVE FALSE
  <2>1. Waits(m)'
    BY <1>11 DEF ListKeysEffect, Parked
  <2> QED
    BY <2>1
<1>12. ASSUME NEW p \in Polls, NEW k \in Times, GetKeyEffect(p, k) PROVE FALSE
  <2>1. k \notin DOMAIN pending => batch' = batch
    BY <1>12 DEF GetKeyEffect
  <2>2. k \in DOMAIN pending => \A q \in Readers, n \in Msgs : Carries(batch[q], n)
            => Carries(batch'[q], n)
    BY <1>12 DEF GetKeyEffect
  <2>3. UNCHANGED inbox
    BY <1>12 DEF GetKeyEffect
  <2> QED
    BY <1>b, <2>1, <2>2, <2>3
<1>13. ASSUME NEW p \in Polls, DeleteKeyEffect(p) PROVE FALSE
  <2>1. UNCHANGED <<inbox, batch>>
    BY <1>13 DEF DeleteKeyEffect
  <2> QED
    BY <1>b, <2>1
<1>14. ASSUME NEW p \in Polls, HandleEffect(p) PROVE Twin(m)
  <2>1. PICK c \in Msgs : c = Current(p).msg
    BY <1>14 DEF HandleEffect
  <2>2. /\ Current(p).time = Stamp(c)
        /\ \A q \in Readers, n \in Msgs : Carries(batch[q], n) => Carries(batch'[q], n) \/ n = c
        /\ UNCHANGED <<inbox, pending>>
        /\ IsProcessed(Current(p).time) \/ ~ActsOn(c) \/ acted'[c] = acted[c] + 1
    BY <1>14, <2>1 DEF HandleEffect
  <2>3. m = c
    BY <1>b, <2>2
  <2>4. IsProcessed(Stamp(m))
    BY <1>a, <2>2, <2>3 DEF ActsOn, ForPolls
  <2>5. PICK n \in Sent : sentAt[n] = Stamp(m) /\ KindOf[n] \in Uploads
    BY <2>4 DEF Marked, IsProcessed
  <2>6. n # m /\ parkedAt[n] = 0
    BY <2>5 DEF Forwarded, Uploads, ForPolls, Sent
  <2> QED
    BY <2>5, <2>6 DEF Twin, Stamp
<1>15. ASSUME NEW p \in Polls, PollFailsEffect(p) PROVE FALSE
  BY <1>15, <1>a DEF PollFailsEffect
<1>16. ASSUME NoEffect PROVE FALSE
  <2>1. Waits(m)'
    BY <1>16 DEF NoEffect, Parked, vars
  <2> QED
    BY <2>1
<1> QED
  BY <1>1, <1>2, <1>3, <1>4, <1>5, <1>6, <1>7, <1>8, <1>9, <1>10, <1>11, <1>12, <1>13,
       <1>14, <1>15, <1>16 DEF Effect

\* A step that loses an approval is a fault, or the consumer's, or the fault of another
\* message under the same timestamp.
LEMMA LossStep ==
    ASSUME DeliveryInv, [Next]_vars, NEW m \in Msgs, KindOf[m] \in ForPolls,
           fate[m] = "waiting", fate'[m] = "lost"
    PROVE  faults' > faults \/ Twin(m) \/ AtConsumer(m)
<1>1. QueuesOK /\ KeysOK /\ PlacesOK /\ CountsOK /\ StampsOK
  BY TypeParts DEF DeliveryInv
<1>2. /\ Orderly /\ Queued /\ Received /\ Forwarded /\ Drained /\ Uploaded /\ Marked /\ Deleting
  BY DEF DeliveryInv
<1>3. Effect
  BY <1>1, <1>2, StepHasEffect
<1>4. CountsOK'
  BY InvStep, NextTypeParts DEF DeliveryInv
<1>5. Waits(m) /\ ~Waits(m)' /\ acted'[m] = 0
  BY <1>1, <1>4, FateOf DEF CountsOK
<1>6. faults' >= faults
  <2>1. CASE vars' = vars
    BY <2>1, <1>1 DEF vars, CountsOK
  <2>2. ASSUME NEW n \in Msgs, NEW time \in Times, Send(n, time) PROVE faults' = faults
    BY <2>2 DEF Send
  <2>3. ASSUME NEW k \in Times, Expire(k) PROVE Fault
    BY <2>3 DEF Expire
  <2>4. ReceiveLost => Fault
    BY DEF ReceiveLost
  <2>5. ConsumerReceive \/ Decline \/ mark_processed => faults' = faults
    BY DEF ConsumerReceive, Decline, mark_processed
  <2>6. ASSUME NEW k \in Times, Forward(k) PROVE faults' = faults \/ Fault
    BY <2>6 DEF Forward
  <2>7. upload_to_paperless => faults' = faults \/ Fault
    BY DEF upload_to_paperless
  <2>8. ConsumerFails => Fault
    BY DEF ConsumerFails
  <2>9. ASSUME NEW p \in Polls, Receive(p) \/ ListKeys(p) \/ DeleteKey(p) PROVE faults' = faults
    BY <2>9 DEF Receive, ListKeys, DeleteKey
  <2>10. ASSUME NEW p \in Polls, NEW k \in Times, GetKey(p, k) PROVE faults' = faults
    BY <2>10 DEF GetKey
  <2>11. ASSUME NEW p \in Polls, HandleMessage(p) \/ PollFails(p) PROVE faults' = faults \/ Fault
    BY <2>11 DEF HandleMessage, PollFails
  <2>12. faults' = faults \/ Fault
    BY <2>1, <2>2, <2>3, <2>4, <2>5, <2>6, <2>7, <2>8, <2>9, <2>10, <2>11, Zenon DEF Next, vars
  <2> QED
    BY <2>12, <1>1 DEF Fault, CountsOK
<1>7. CASE faults' = faults
  BY <1>1, <1>2, <1>3, <1>5, <1>7, PollsLoseNone
<1>8. CASE faults' # faults
  BY <1>1, <1>4, <1>6, <1>8 DEF CountsOK
<1> QED
  BY <1>7, <1>8

\* The positive half of README.md:121, which ApprovalsReachApi refutes: however polls
\* overlap with each other and with the consumer, an approval or another text is lost in
\* the hands of the consumer and nowhere else, unless a call fails in that very step or
\* another message is stored or parked under its millisecond.
THEOREM ApprovalsLost ==
    Spec => [][\A m \in Msgs :
                  KindOf[m] \in ForPolls /\ fate[m] = "waiting" /\ fate'[m] = "lost"
                      => faults' > faults \/ Twin(m) \/ AtConsumer(m)]_vars
<1>1. DeliveryInv /\ [Next]_vars =>
          [\A m \in Msgs :
              KindOf[m] \in ForPolls /\ fate[m] = "waiting" /\ fate'[m] = "lost"
                  => faults' > faults \/ Twin(m) \/ AtConsumer(m)]_vars
  BY LossStep
<1> QED
  BY <1>1, Invariance, PTL DEF Spec

\* So README.md:121 is true of an installation whose consumer does not run: no approval
\* is lost as long as nothing fails and no two messages share a millisecond.
Unlost ==
    \A m \in Sent : KindOf[m] \in ForPolls /\ faults = 0 => fate[m] # "lost" \/ Twin(m)

LEMMA UnlostStep ==
    ASSUME DeliveryInv, Unlost, [Next]_vars, at[Consumer] = "idle"
    PROVE  Unlost'
<1>1. QueuesOK /\ KeysOK /\ PlacesOK /\ CountsOK /\ StampsOK
  BY TypeParts DEF DeliveryInv
<1>2. Orderly /\ Queued /\ Received /\ Forwarded /\ Drained /\ Uploaded
  BY DEF DeliveryInv
<1>3. Effect
  BY <1>1, <1>2, StepHasEffect
<1>4. CountsOK' /\ Forwarded'
  BY InvStep, NextTypeParts DEF DeliveryInv
<1>5. \A n \in Msgs : Remembered(n)
  BY <1>1, <1>2, <1>3, <1>4, NothingUndone
<1> SUFFICES ASSUME NEW m \in Msgs, sentAt'[m] # 0, KindOf[m] \in ForPolls, faults' = 0,
                    fate'[m] = "lost"
             PROVE  Twin(m)'
  BY DEF Unlost, Sent
<1>6. faults = 0
  BY <1>1, <1>5 DEF Remembered, CountsOK
<1>7. fate[m] \in {"waiting", "lost"}
  <2>1. Abstract!May(fate[m], fate'[m])
    BY FateStep
  <2> QED
    BY <2>1 DEF Abstract!May, Abstract!Decided
<1>8. Twin(m)
  <2>1. sentAt[m] # 0
    BY <1>1, <1>7, FateOf
  <2>2. CASE fate[m] = "lost"
    BY <1>6, <2>1, <2>2 DEF Unlost, Sent
  <2>3. CASE fate[m] = "waiting"
    BY <1>6, <2>3, LossStep DEF AtConsumer
  <2> QED
    BY <1>7, <2>2, <2>3
<1>9. Stamp(m)' = Stamp(m)
  <2>1. sentAt[m] # 0 /\ sentAt'[m] = sentAt[m]
    BY <1>1, <1>5, <1>7, FateOf DEF Remembered
  <2>2. parkedAt[m] = 0 /\ parkedAt'[m] = 0
    BY <1>2, <1>4 DEF Forwarded, ForPolls
  <2> QED
    BY <2>1, <2>2 DEF Stamp
<1> QED
  BY <1>4, <1>5, <1>8, <1>9, TwinStays

THEOREM ApprovalsWithoutConsumer == Spec /\ [](at[Consumer] = "idle") => []ApprovalsReachApi
<1>1. ASSUME Init PROVE Unlost
  BY <1>1 DEF Init, Unlost, Sent
<1>2. DeliveryInv /\ Unlost /\ [Next]_vars /\ at[Consumer] = "idle" => Unlost'
  BY UnlostStep
<1>3. ASSUME DeliveryInv, Unlost PROVE ApprovalsReachApi
  <2> SUFFICES ASSUME NEW m \in Sent, KindOf[m] = "approval", faults = 0, ~Collision(m)
               PROVE  fate[m] # "lost"
    BY DEF ApprovalsReachApi
  <2>1. ~Twin(m)
    BY DEF Twin, Collision
  <2> QED
    BY <1>3, <2>1 DEF Unlost, ForPolls
<1> QED
  BY <1>1, <1>2, <1>3, Invariance, PTL DEF Spec
=============================================================================
