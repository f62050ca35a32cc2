-------------------------- MODULE DocSummaryProofs --------------------------
(***************************************************************************)
(* What holds of document summaries for every set of documents, phones,    *)
(* calls and polls, and every number of faults.                            *)
(***************************************************************************)
EXTENDS DocSummary, CommonLemmas

\* The parts of TypeOK.
TablesOK ==
    /\ stored \subseteq Docs /\ summarised \subseteq Docs
    /\ status \in [Notifs -> Status]
    /\ order \in Seq(Notifs)

WorkOK ==
    /\ queue \in Seq(Job)
    /\ job \in Job \cup {NoJob}
    /\ step \in {"idle", "summarize", "deliver", "store", "finish", "fail"}
    /\ step = "idle" <=> job = NoJob

PlacesOK ==
    /\ at \in [Calls \cup Polls ->
                {"idle", "insert", "owner", "prompt", "record", "next", "mark", "enqueue", "end"}]
    /\ \A p \in Polls : at[p] = "idle" <=> batch[p] = <<>>

InputsOK ==
    /\ todo \in [Calls -> Seq(Phones)]
    /\ inbox \in Seq(Phones)
    /\ batch \in [Polls -> Seq(Phones)]

FoundOK ==
    /\ found \in [Polls -> Notifs \cup {<<>>}]
    /\ \A p \in Polls : IF at[p] \in {"mark", "enqueue"} THEN found[p] \in Notifs ELSE found[p] = <<>>

CountsOK ==
    /\ prompts \in [Notifs -> Nat] /\ summaries \in [Notifs -> Nat]
    /\ answers \in [Phones -> Nat]
    /\ reruns \in Nat /\ faults \in Nat

\* A call prompts phones of its document's owner, and has one left to prompt.
CallsPrompt ==
    \A c \in Calls :
        /\ at[c] \in {"idle", "insert", "owner", "prompt", "record", "end"}
        /\ at[c] \in {"prompt", "record"} => todo[c] # <<>>
        /\ \A i \in 1 .. Len(todo[c]) : <<DocOf[c], todo[c][i]>> \in Notifs

PollsPoll == \A p \in Polls : at[p] \in {"idle", "next", "mark", "enqueue"}

\* The worker has stored a summary before it reports success.
WorkerInOrder == step = "finish" => job.notif[1] \in summarised

DoneIsStored == \A n \in Notifs : status[n] = "done" => n[1] \in summarised

\* The notifications the worker takes, or took, for sent though nothing was:
\* each of them stands for a failure that sendSignal swallowed.
TakenForSent(n) == status[n] = "done" \/ (step \in {"store", "finish"} /\ job.notif = n)

Owed == {n \in Notifs : summaries[n] = 0 /\ TakenForSent(n)}

OwedToFaults == IsFiniteSet(Owed) /\ Cardinality(Owed) <= faults

\* The two phone fields of a user's profile differ.
PhonesDiffer ==
    \A d \in Docs : \A i, k \in 1 .. Len(PhonesOf[d]) :
        PhonesOf[d][i] = PhonesOf[d][k] => i = k

\* The call that inserted a document is the only one that prompts for it.
Prompting(c) == at[c] \in {"owner", "prompt", "record"}

OneCall ==
    /\ \A c \in Calls : Prompting(c) => DocOf[c] \in stored
    /\ \A c, e \in Calls : Prompting(c) /\ Prompting(e) /\ DocOf[c] = DocOf[e] => c = e

\* The phones a call has still to prompt are distinct, and no call prompted them.
Unprompted ==
    /\ \A n \in Notifs : n[1] \notin stored => prompts[n] = 0
    /\ \A c \in Calls : \A n \in Notifs :
          at[c] = "owner" /\ n[1] = DocOf[c] => prompts[n] = 0
    /\ \A c \in Calls : \A i \in 1 .. Len(todo[c]) :
          at[c] = "prompt" \/ (at[c] = "record" /\ i > 1)
              => prompts[<<DocOf[c], todo[c][i]>>] = 0
    /\ \A c \in Calls : \A i, k \in 1 .. Len(todo[c]) : todo[c][i] = todo[c][k] => i = k

IInv ==
    /\ TypeOK
    /\ CallsPrompt
    /\ PollsPoll
    /\ WorkerInOrder
    /\ DoneIsStored
    /\ OwedToFaults

-----------------------------------------------------------------------------
(* Facts about notifications and sequences                                 *)

\* A notification is a document and a phone of its owner.
LEMMA NotifFacts ==
    /\ \A n \in Notifs : n = <<n[1], n[2]>> /\ n[1] \in Docs /\ n[2] \in Phones
    /\ \A d \in Docs : \A i \in 1 .. Len(PhonesOf[d]) : <<d, PhonesOf[d][i]>> \in Notifs
<1>1. \A d \in Docs : PhonesOf[d] \in Seq(Phones)
  BY SummaryAssumption
<1>2. ASSUME NEW n \in Notifs PROVE n = <<n[1], n[2]>> /\ n[1] \in Docs /\ n[2] \in Phones
  BY <1>1 DEF Notifs
<1>3. ASSUME NEW d \in Docs, NEW i \in 1 .. Len(PhonesOf[d])
      PROVE  <<d, PhonesOf[d][i]>> \in Notifs
  BY <1>1, <1>3 DEF Notifs
<1> QED
  BY <1>2, <1>3

\* A job is told from its absence.
LEMMA JobIsNotNoJob == ASSUME NEW x \in Job PROVE x # NoJob
<1>1. DOMAIN x = {"notif", "reruns"}
  BY DEF Job
<1>2. DOMAIN NoJob = {"notif"}
  BY DEF NoJob
<1> QED
  BY <1>1, <1>2

\* TypeOK is the conjunction of its parts.
LEMMA TypeParts ==
    TypeOK <=> TablesOK /\ WorkOK /\ PlacesOK /\ InputsOK /\ FoundOK /\ CountsOK
BY Zenon DEF TypeOK, TablesOK, WorkOK, PlacesOK, InputsOK, FoundOK, CountsOK

\* The phone a call is about to prompt, and those after it.
LEMMA TurnFacts ==
    ASSUME InputsOK, CallsPrompt, NEW c \in Calls, at[c] \in {"prompt", "record"}
    PROVE  /\ Head(todo[c]) \in Phones
           /\ <<DocOf[c], Head(todo[c])>> \in Notifs
           /\ Tail(todo[c]) \in Seq(Phones)
           /\ Tail(todo[c]) = <<>> <=> Len(todo[c]) = 1
           /\ \A i \in 1 .. Len(Tail(todo[c])) :
                 /\ i + 1 \in 1 .. Len(todo[c])
                 /\ Tail(todo[c])[i] = todo[c][i + 1]
                 /\ <<DocOf[c], Tail(todo[c])[i]>> \in Notifs
<1>1. todo[c] \in Seq(Phones) /\ todo[c] # <<>>
  BY DEF InputsOK, CallsPrompt
<1>2. \A i \in 1 .. Len(todo[c]) : <<DocOf[c], todo[c][i]>> \in Notifs
  BY DEF CallsPrompt
<1>3. Len(todo[c]) \in Nat \ {0}
  BY <1>1, TailFacts
<1> QED
  BY <1>1, <1>2, <1>3, TailFacts

\* The end of one turn of a poll's loop.
LEMMA NextMessageFacts ==
    ASSUME InputsOK, PlacesOK, NEW p \in Polls, at[p] # "idle", NextMessage(p)
    PROVE  /\ batch' \in [Polls -> Seq(Phones)]
           /\ \E place \in {"idle", "next"} :
                 at' = [at EXCEPT ![p] = place] /\ (place = "idle" <=> batch'[p] = <<>>)
           /\ \A q \in Polls \ {p} : batch'[q] = batch[q]
<1>1. batch[p] \in Seq(Phones) /\ batch[p] # <<>>
  BY DEF InputsOK, PlacesOK
<1>2. Tail(batch[p]) \in Seq(Phones) /\ (Tail(batch[p]) = <<>> <=> Len(batch[p]) = 1)
  BY <1>1, TailFacts
<1> QED
  BY <1>2 DEF NextMessage, GoTo, InputsOK

\* The tables keep their types.
LEMMA TablesTyped ==
    ASSUME TablesOK, WorkOK, PlacesOK, InputsOK, FoundOK, CountsOK, CallsPrompt, PollsPoll, [Next]_vars
    PROVE  TablesOK'
<1> USE SummaryAssumption DEF TablesOK, WorkOK, FoundOK, InputsOK, CallsPrompt, Status, Job
<1>1. ASSUME NEW c \in Calls, onConsumed(c) PROVE TablesOK'
  BY <1>1 DEF onConsumed, CallUnchanged, GoTo, work
<1>2. ASSUME NEW c \in Calls, InsertDoc(c) PROVE TablesOK'
  BY <1>2 DEF InsertDoc, CallUnchanged, GoTo, work
<1>3. ASSUME NEW c \in Calls, FindPhones(c) PROVE TablesOK'
  BY <1>3 DEF FindPhones, Fault, CallUnchanged, GoTo, work
<1>4. ASSUME NEW c \in Calls, Prompt(c) PROVE TablesOK'
  BY <1>4 DEF Prompt, Fault, CallUnchanged, GoTo, work
<1>5. ASSUME NEW c \in Calls, Record(c) PROVE TablesOK'
  <2>1. <<DocOf[c], Head(todo[c])>> \in Notifs
    BY <1>5, TurnFacts DEF Record
  <2> QED
    <3>1. Append(order, <<DocOf[c], Head(todo[c])>>) \in Seq(Notifs)
      BY <2>1, AppendProperties
    <3> QED
      BY <1>5, <2>1, <3>1 DEF Record, CallUnchanged
<1>6. ASSUME NEW ph \in Phones, Answer(ph) PROVE TablesOK'
  BY <1>6 DEF Answer, tables, work
<1>7. ASSUME NEW p \in Polls, Receive(p) PROVE TablesOK'
  BY <1>7 DEF Receive, PollUnchanged, GoTo, sent
<1>8. ASSUME NEW p \in Polls, FindNotif(p) PROVE TablesOK'
  BY <1>8 DEF FindNotif, NextMessage, PollUnchanged, GoTo, sent
<1>9. ASSUME NEW p \in Polls, Mark(p) PROVE TablesOK'
  BY <1>9 DEF Mark, PollUnchanged, GoTo, sent
<1>10. ASSUME NEW p \in Polls, Enqueue(p) PROVE TablesOK'
  BY <1>10 DEF Enqueue, NextMessage, PollUnchanged, GoTo, sent
<1>11. ASSUME NEW p \in Polls, Throw(p) PROVE TablesOK'
  BY <1>11 DEF Throw, Fault, PollUnchanged, GoTo, sent
<1>12. ASSUME TakeJob PROVE TablesOK'
  BY <1>12 DEF TakeJob, WorkUnchanged
<1>13. ASSUME Summarize PROVE TablesOK'
  BY <1>13 DEF Summarize, WorkUnchanged
<1>14. ASSUME Deliver PROVE TablesOK'
  BY <1>14 DEF Deliver, WorkUnchanged
<1>15. ASSUME Store PROVE TablesOK'
  BY <1>15, NotifFacts DEF Store, Fault, WorkUnchanged
<1>16. ASSUME Finish PROVE TablesOK'
  BY <1>16 DEF Finish, Conclude, Fault, WorkUnchanged
<1>17. ASSUME FailJob PROVE TablesOK'
  BY <1>17 DEF FailJob, Conclude, Fault, WorkUnchanged
<1>18. ASSUME Crash PROVE TablesOK'
  BY <1>18 DEF Crash, Fault, tables
<1>19. CASE UNCHANGED vars
  BY <1>19 DEF vars, tables, work, sent
<1> QED
  BY <1>1, <1>2, <1>3, <1>4, <1>5, <1>6, <1>7, <1>8, <1>9, <1>10, <1>11, <1>12, <1>13,
       <1>14, <1>15, <1>16, <1>17, <1>18, <1>19 DEF Next

\* The queue and the worker keep their types.
LEMMA WorkTyped ==
    ASSUME TablesOK, WorkOK, PlacesOK, InputsOK, FoundOK, CountsOK, CallsPrompt, PollsPoll, [Next]_vars
    PROVE  WorkOK'
<1> USE SummaryAssumption DEF WorkOK, FoundOK, Job
<1>1. ASSUME NEW c \in Calls, onConsumed(c) PROVE WorkOK'
  BY <1>1 DEF onConsumed, CallUnchanged, GoTo, work
<1>2. ASSUME NEW c \in Calls, InsertDoc(c) PROVE WorkOK'
  BY <1>2 DEF InsertDoc, CallUnchanged, GoTo, work
<1>3. ASSUME NEW c \in Calls, FindPhones(c) PROVE WorkOK'
  BY <1>3 DEF FindPhones, Fault, CallUnchanged, GoTo, work
<1>4. ASSUME NEW c \in Calls, Prompt(c) PROVE WorkOK'
  BY <1>4 DEF Prompt, Fault, CallUnchanged, GoTo, work
<1>5. ASSUME NEW c \in Calls, Record(c) PROVE WorkOK'
  BY <1>5 DEF Record, Fault, CallUnchanged, GoTo, work
<1>6. ASSUME NEW ph \in Phones, Answer(ph) PROVE WorkOK'
  BY <1>6 DEF Answer, tables, work
<1>7. ASSUME NEW p \in Polls, Receive(p) PROVE WorkOK'
  BY <1>7 DEF Receive, PollUnchanged, GoTo, sent
<1>8. ASSUME NEW p \in Polls, FindNotif(p) PROVE WorkOK'
  BY <1>8 DEF FindNotif, NextMessage, PollUnchanged, GoTo, sent
<1>9. ASSUME NEW p \in Polls, Mark(p) PROVE WorkOK'
  BY <1>9 DEF Mark, PollUnchanged, GoTo, sent
<1>10. ASSUME NEW p \in Polls, Enqueue(p) PROVE WorkOK'
  <2>1. [notif |-> found[p], reruns |-> 0] \in Job
    BY <1>10 DEF Enqueue
  <2> QED
    BY <1>10, <2>1, AppendProperties DEF Enqueue, PollUnchanged
<1>11. ASSUME NEW p \in Polls, Throw(p) PROVE WorkOK'
  <2>1. CASE queue' = queue
    BY <1>11, <2>1 DEF Throw, PollUnchanged
  <2>2. CASE at[p] = "enqueue" /\ queue' = Append(queue, [notif |-> found[p], reruns |-> 0])
    <3>1. [notif |-> found[p], reruns |-> 0] \in Job
      BY <2>2
    <3> QED
      BY <1>11, <2>2, <3>1, AppendProperties DEF Throw, PollUnchanged
  <2> QED
    BY <1>11, <2>1, <2>2 DEF Throw
<1>12. ASSUME TakeJob PROVE WorkOK'
  <2>1. Head(queue) \in Job /\ Tail(queue) \in Seq(Job)
    BY <1>12, TailFacts DEF TakeJob
  <2>2. Head(queue) # NoJob
    BY <2>1, JobIsNotNoJob
  <2> QED
    BY <1>12, <2>1, <2>2 DEF TakeJob
<1>13. ASSUME Summarize PROVE WorkOK'
  BY <1>13 DEF Summarize, WorkUnchanged
<1>14. ASSUME Deliver PROVE WorkOK'
  BY <1>14 DEF Deliver, WorkUnchanged
<1>15. ASSUME Store PROVE WorkOK'
  BY <1>15 DEF Store, Fault, WorkUnchanged
<1>16. ASSUME Finish PROVE WorkOK'
  BY <1>16 DEF Finish, Conclude, Fault, WorkUnchanged
<1>17. ASSUME FailJob PROVE WorkOK'
  BY <1>17 DEF FailJob, Conclude, Fault, WorkUnchanged
<1>18. ASSUME Crash PROVE WorkOK'
  <2>1. step # "idle" => <<[job EXCEPT !.reruns = 1]>> \in Seq(Job)
    <3>1. SUFFICES ASSUME step # "idle" PROVE [job EXCEPT !.reruns = 1] \in Job
      OBVIOUS
    <3>2. job \in Job
      BY <3>1
    <3> QED
      BY <3>2
  <2>2. CASE step # "idle" /\ job.reruns = 0
    <3>1. <<[job EXCEPT !.reruns = 1]>> \o queue \in Seq(Job)
      BY <2>1, <2>2, ConcatProperties
    <3> QED
      BY <1>18, <2>2, <3>1 DEF Crash
  <2>3. CASE ~(step # "idle" /\ job.reruns = 0)
    BY <1>18, <2>3 DEF Crash
  <2> QED
    BY <2>2, <2>3
<1>19. CASE UNCHANGED vars
  BY <1>19 DEF vars, tables, work, sent
<1> QED
  BY <1>1, <1>2, <1>3, <1>4, <1>5, <1>6, <1>7, <1>8, <1>9, <1>10, <1>11, <1>12, <1>13,
       <1>14, <1>15, <1>16, <1>17, <1>18, <1>19 DEF Next

\* The places keep their types.
LEMMA PlacesTyped ==
    ASSUME TablesOK, WorkOK, PlacesOK, InputsOK, FoundOK, CountsOK, CallsPrompt, PollsPoll, [Next]_vars
    PROVE  PlacesOK'
<1> USE SummaryAssumption DEF PlacesOK, InputsOK
<1>1. ASSUME NEW c \in Calls, onConsumed(c) PROVE PlacesOK'
  BY <1>1 DEF onConsumed, CallUnchanged, GoTo, work
<1>2. ASSUME NEW c \in Calls, InsertDoc(c) PROVE PlacesOK'
  BY <1>2 DEF InsertDoc, CallUnchanged, GoTo, work
<1>3. ASSUME NEW c \in Calls, FindPhones(c) PROVE PlacesOK'
  BY <1>3 DEF FindPhones, Fault, CallUnchanged, GoTo, work
<1>4. ASSUME NEW c \in Calls, Prompt(c) PROVE PlacesOK'
  BY <1>4 DEF Prompt, Fault, CallUnchanged, GoTo, work
<1>5. ASSUME NEW c \in Calls, Record(c) PROVE PlacesOK'
  BY <1>5 DEF Record, Fault, CallUnchanged, GoTo, work
<1>6. ASSUME NEW ph \in Phones, Answer(ph) PROVE PlacesOK'
  BY <1>6 DEF Answer, tables, work
<1>7. ASSUME NEW p \in Polls, Receive(p) PROVE PlacesOK'
  BY <1>7 DEF Receive, PollUnchanged, GoTo, sent
<1>8. ASSUME NEW p \in Polls, FindNotif(p) PROVE PlacesOK'
  <2>1. at[p] # "idle"
    BY <1>8 DEF FindNotif
  <2>2. CASE NextMessage(p)
    BY <2>1, <2>2, NextMessageFacts
  <2> QED
    BY <1>8, <2>2 DEF FindNotif, GoTo
<1>9. ASSUME NEW p \in Polls, Mark(p) PROVE PlacesOK'
  BY <1>9 DEF Mark, PollUnchanged, GoTo, sent
<1>10. ASSUME NEW p \in Polls, Enqueue(p) PROVE PlacesOK'
  <2>1. at[p] # "idle"
    BY <1>10 DEF Enqueue
  <2>2. CASE NextMessage(p)
    BY <2>1, <2>2, NextMessageFacts
  <2> QED
    BY <1>10, <2>2 DEF Enqueue, GoTo
<1>11. ASSUME NEW p \in Polls, Throw(p) PROVE PlacesOK'
  BY <1>11 DEF Throw, Fault, PollUnchanged, GoTo, sent
<1>12. ASSUME TakeJob PROVE PlacesOK'
  BY <1>12 DEF TakeJob, WorkUnchanged
<1>13. ASSUME Summarize PROVE PlacesOK'
  BY <1>13 DEF Summarize, WorkUnchanged
<1>14. ASSUME Deliver PROVE PlacesOK'
  BY <1>14 DEF Deliver, WorkUnchanged
<1>15. ASSUME Store PROVE PlacesOK'
  BY <1>15 DEF Store, Fault, WorkUnchanged
<1>16. ASSUME Finish PROVE PlacesOK'
  BY <1>16 DEF Finish, Conclude, Fault, WorkUnchanged
<1>17. ASSUME FailJob PROVE PlacesOK'
  BY <1>17 DEF FailJob, Conclude, Fault, WorkUnchanged
<1>18. ASSUME Crash PROVE PlacesOK'
  BY <1>18 DEF Crash, Fault, tables
<1>19. CASE UNCHANGED vars
  BY <1>19 DEF vars, tables, work, sent
<1> QED
  BY <1>1, <1>2, <1>3, <1>4, <1>5, <1>6, <1>7, <1>8, <1>9, <1>10, <1>11, <1>12, <1>13,
       <1>14, <1>15, <1>16, <1>17, <1>18, <1>19 DEF Next

\* The lists to work through keep their types.
LEMMA InputsTyped ==
    ASSUME TablesOK, WorkOK, PlacesOK, InputsOK, FoundOK, CountsOK, CallsPrompt, PollsPoll, [Next]_vars
    PROVE  InputsOK'
<1> USE SummaryAssumption DEF InputsOK, PlacesOK
<1>1. ASSUME NEW c \in Calls, onConsumed(c) PROVE InputsOK'
  BY <1>1 DEF onConsumed, CallUnchanged, GoTo, work
<1>2. ASSUME NEW c \in Calls, InsertDoc(c) PROVE InputsOK'
  BY <1>2 DEF InsertDoc, CallUnchanged, GoTo, work
<1>3. ASSUME NEW c \in Calls, FindPhones(c) PROVE InputsOK'
  <2>1. PhonesOf[DocOf[c]] \in Seq(Phones)
    OBVIOUS
  <2> QED
    BY <1>3, <2>1 DEF FindPhones, CallUnchanged
<1>4. ASSUME NEW c \in Calls, Prompt(c) PROVE InputsOK'
  BY <1>4 DEF Prompt, Fault, CallUnchanged, GoTo, work
<1>5. ASSUME NEW c \in Calls, Record(c) PROVE InputsOK'
  <2>1. Tail(todo[c]) \in Seq(Phones)
    BY <1>5, TurnFacts DEF Record
  <2> QED
    BY <1>5, <2>1 DEF Record, CallUnchanged
<1>6. ASSUME NEW ph \in Phones, Answer(ph) PROVE InputsOK'
  BY <1>6 DEF Answer, tables, work
<1>7. ASSUME NEW p \in Polls, Receive(p) PROVE InputsOK'
  BY <1>7 DEF Receive, PollUnchanged, GoTo, sent
<1>8. ASSUME NEW p \in Polls, FindNotif(p) PROVE InputsOK'
  <2>1. at[p] # "idle"
    BY <1>8 DEF FindNotif
  <2>2. CASE NextMessage(p)
    BY <1>8, <2>1, <2>2, NextMessageFacts DEF FindNotif, PollUnchanged
  <2> QED
    BY <1>8, <2>2 DEF FindNotif, PollUnchanged
<1>9. ASSUME NEW p \in Polls, Mark(p) PROVE InputsOK'
  BY <1>9 DEF Mark, PollUnchanged, GoTo, sent
<1>10. ASSUME NEW p \in Polls, Enqueue(p) PROVE InputsOK'
  <2>1. at[p] # "idle"
    BY <1>10 DEF Enqueue
  <2>2. CASE NextMessage(p)
    BY <1>10, <2>1, <2>2, NextMessageFacts DEF Enqueue, PollUnchanged
  <2> QED
    BY <1>10, <2>2 DEF Enqueue, PollUnchanged
<1>11. ASSUME NEW p \in Polls, Throw(p) PROVE InputsOK'
  BY <1>11 DEF Throw, Fault, PollUnchanged, GoTo, sent
<1>12. ASSUME TakeJob PROVE InputsOK'
  BY <1>12 DEF TakeJob, WorkUnchanged
<1>13. ASSUME Summarize PROVE InputsOK'
  BY <1>13 DEF Summarize, WorkUnchanged
<1>14. ASSUME Deliver PROVE InputsOK'
  BY <1>14 DEF Deliver, WorkUnchanged
<1>15. ASSUME Store PROVE InputsOK'
  BY <1>15 DEF Store, Fault, WorkUnchanged
<1>16. ASSUME Finish PROVE InputsOK'
  BY <1>16 DEF Finish, Conclude, Fault, WorkUnchanged
<1>17. ASSUME FailJob PROVE InputsOK'
  BY <1>17 DEF FailJob, Conclude, Fault, WorkUnchanged
<1>18. ASSUME Crash PROVE InputsOK'
  BY <1>18 DEF Crash, Fault, tables
<1>19. CASE UNCHANGED vars
  BY <1>19 DEF vars, tables, work, sent
<1> QED
  BY <1>1, <1>2, <1>3, <1>4, <1>5, <1>6, <1>7, <1>8, <1>9, <1>10, <1>11, <1>12, <1>13,
       <1>14, <1>15, <1>16, <1>17, <1>18, <1>19 DEF Next

\* The loaded notifications keep their types.
LEMMA FoundTyped ==
    ASSUME TablesOK, WorkOK, PlacesOK, InputsOK, FoundOK, CountsOK, CallsPrompt, PollsPoll, [Next]_vars
    PROVE  FoundOK'
<1> USE SummaryAssumption DEF FoundOK, PlacesOK, TablesOK, InputsOK
<1>1. ASSUME NEW c \in Calls, onConsumed(c) PROVE FoundOK'
  BY <1>1 DEF onConsumed, CallUnchanged, GoTo, work
<1>2. ASSUME NEW c \in Calls, InsertDoc(c) PROVE FoundOK'
  BY <1>2 DEF InsertDoc, CallUnchanged, GoTo, work
<1>3. ASSUME NEW c \in Calls, FindPhones(c) PROVE FoundOK'
  BY <1>3 DEF FindPhones, Fault, CallUnchanged, GoTo, work
<1>4. ASSUME NEW c \in Calls, Prompt(c) PROVE FoundOK'
  BY <1>4 DEF Prompt, Fault, CallUnchanged, GoTo, work
<1>5. ASSUME NEW c \in Calls, Record(c) PROVE FoundOK'
  BY <1>5 DEF Record, Fault, CallUnchanged, GoTo, work
<1>6. ASSUME NEW ph \in Phones, Answer(ph) PROVE FoundOK'
  BY <1>6 DEF Answer, tables, work
<1>7. ASSUME NEW p \in Polls, Receive(p) PROVE FoundOK'
  BY <1>7 DEF Receive, PollUnchanged, GoTo, sent
<1>8. ASSUME NEW p \in Polls, FindNotif(p) PROVE FoundOK'
  <2>1. at[p] # "idle" /\ at[p] \notin {"mark", "enqueue"}
    BY <1>8 DEF FindNotif
  <2>2. CASE NextMessage(p) /\ UNCHANGED found
    BY <2>1, <2>2, NextMessageFacts
  <2>3. CASE Pending(Head(batch[p])) # {}
    <3>1. /\ Pending(Head(batch[p])) \subseteq 1 .. Len(order)
          /\ Len(order) \in Nat
      BY DEF Pending
    <3>2. Pending(Head(batch[p])) \in SUBSET Nat
      BY <3>1
    <3>3. Min(Pending(Head(batch[p]))) \in 1 .. Len(order)
      BY <2>3, <3>1, <3>2, MinOfNats
    <3>4. order[Min(Pending(Head(batch[p])))] \in Notifs
      BY <3>3
    <3> QED
      BY <1>8, <2>3, <3>4 DEF FindNotif, GoTo
  <2> QED
    BY <1>8, <2>2, <2>3 DEF FindNotif
<1>9. ASSUME NEW p \in Polls, Mark(p) PROVE FoundOK'
  BY <1>9 DEF Mark, PollUnchanged, GoTo, sent
<1>10. ASSUME NEW p \in Polls, Enqueue(p) PROVE FoundOK'
  <2>1. at[p] # "idle"
    BY <1>10 DEF Enqueue
  <2>2. PICK place \in {"idle", "next"} : at' = [at EXCEPT ![p] = place]
    BY <1>10, <2>1, NextMessageFacts DEF Enqueue
  <2> QED
    BY <1>10, <2>2 DEF Enqueue
<1>11. ASSUME NEW p \in Polls, Throw(p) PROVE FoundOK'
  BY <1>11 DEF Throw, Fault, PollUnchanged, GoTo, sent
<1>12. ASSUME TakeJob PROVE FoundOK'
  BY <1>12 DEF TakeJob, WorkUnchanged
<1>13. ASSUME Summarize PROVE FoundOK'
  BY <1>13 DEF Summarize, WorkUnchanged
<1>14. ASSUME Deliver PROVE FoundOK'
  BY <1>14 DEF Deliver, WorkUnchanged
<1>15. ASSUME Store PROVE FoundOK'
  BY <1>15 DEF Store, Fault, WorkUnchanged
<1>16. ASSUME Finish PROVE FoundOK'
  BY <1>16 DEF Finish, Conclude, Fault, WorkUnchanged
<1>17. ASSUME FailJob PROVE FoundOK'
  BY <1>17 DEF FailJob, Conclude, Fault, WorkUnchanged
<1>18. ASSUME Crash PROVE FoundOK'
  BY <1>18 DEF Crash, Fault, tables
<1>19. CASE UNCHANGED vars
  BY <1>19 DEF vars, tables, work, sent
<1> QED
  BY <1>1, <1>2, <1>3, <1>4, <1>5, <1>6, <1>7, <1>8, <1>9, <1>10, <1>11, <1>12, <1>13,
       <1>14, <1>15, <1>16, <1>17, <1>18, <1>19 DEF Next

\* The counters keep their types.
LEMMA CountsTyped ==
    ASSUME TablesOK, WorkOK, PlacesOK, InputsOK, FoundOK, CountsOK, CallsPrompt, PollsPoll, [Next]_vars
    PROVE  CountsOK'
<1> USE SummaryAssumption DEF CountsOK
<1>1. ASSUME NEW c \in Calls, onConsumed(c) PROVE CountsOK'
  BY <1>1 DEF onConsumed, CallUnchanged, GoTo, work
<1>2. ASSUME NEW c \in Calls, InsertDoc(c) PROVE CountsOK'
  BY <1>2 DEF InsertDoc, CallUnchanged, GoTo, work
<1>3. ASSUME NEW c \in Calls, FindPhones(c) PROVE CountsOK'
  BY <1>3 DEF FindPhones, Fault, CallUnchanged, GoTo, work
<1>4. ASSUME NEW c \in Calls, Prompt(c) PROVE CountsOK'
  <2>1. <<DocOf[c], Head(todo[c])>> \in Notifs
    BY <1>4, TurnFacts DEF Prompt
  <2>2. PICK n \in Notifs : n = <<DocOf[c], Head(todo[c])>>
    BY <2>1
  <2>3. prompts' = [prompts EXCEPT ![n] = @ + 1] \/ UNCHANGED prompts
    BY <1>4, <2>2 DEF Prompt
  <2>4. prompts' \in [Notifs -> Nat]
    <3>1. CASE UNCHANGED prompts
      BY <3>1
    <3>2. CASE prompts' = [prompts EXCEPT ![n] = @ + 1]
      <4>1. prompts \in [Notifs -> Nat] /\ prompts[n] + 1 \in Nat
        OBVIOUS
      <4> QED
        BY <3>2, <4>1
    <3> QED
      BY <2>3, <3>1, <3>2
  <2> QED
    BY <1>4, <2>4 DEF Prompt, Fault, CallUnchanged
<1>5. ASSUME NEW c \in Calls, Record(c) PROVE CountsOK'
  BY <1>5 DEF Record, Fault, CallUnchanged, GoTo, work
<1>6. ASSUME NEW ph \in Phones, Answer(ph) PROVE CountsOK'
  BY <1>6 DEF Answer, tables, work
<1>7. ASSUME NEW p \in Polls, Receive(p) PROVE CountsOK'
  BY <1>7 DEF Receive, PollUnchanged, GoTo, sent
<1>8. ASSUME NEW p \in Polls, FindNotif(p) PROVE CountsOK'
  BY <1>8 DEF FindNotif, NextMessage, PollUnchanged, GoTo, sent
<1>9. ASSUME NEW p \in Polls, Mark(p) PROVE CountsOK'
  BY <1>9 DEF Mark, PollUnchanged, GoTo, sent
<1>10. ASSUME NEW p \in Polls, Enqueue(p) PROVE CountsOK'
  BY <1>10 DEF Enqueue, NextMessage, PollUnchanged, GoTo, sent
<1>11. ASSUME NEW p \in Polls, Throw(p) PROVE CountsOK'
  BY <1>11 DEF Throw, Fault, PollUnchanged, GoTo, sent
<1>12. ASSUME TakeJob PROVE CountsOK'
  BY <1>12 DEF TakeJob, WorkUnchanged
<1>13. ASSUME Summarize PROVE CountsOK'
  BY <1>13 DEF Summarize, WorkUnchanged
<1>14. ASSUME Deliver PROVE CountsOK'
  <2>1. job.notif \in Notifs
    BY <1>14 DEF Deliver, WorkOK, Job
  <2>2. summaries' \in [Notifs -> Nat]
    BY <1>14, <2>1 DEF Deliver
  <2>3. faults' \in Nat
    BY <1>14 DEF Deliver, Fault
  <2> QED
    BY <1>14, <2>2, <2>3 DEF Deliver, WorkUnchanged
<1>15. ASSUME Store PROVE CountsOK'
  BY <1>15 DEF Store, Fault, WorkUnchanged
<1>16. ASSUME Finish PROVE CountsOK'
  BY <1>16 DEF Finish, Conclude, Fault, WorkUnchanged
<1>17. ASSUME FailJob PROVE CountsOK'
  BY <1>17 DEF FailJob, Conclude, Fault, WorkUnchanged
<1>18. ASSUME Crash PROVE CountsOK'
  BY <1>18 DEF Crash, Fault, tables
<1>19. CASE UNCHANGED vars
  BY <1>19 DEF vars, tables, work, sent
<1> QED
  BY <1>1, <1>2, <1>3, <1>4, <1>5, <1>6, <1>7, <1>8, <1>9, <1>10, <1>11, <1>12, <1>13,
       <1>14, <1>15, <1>16, <1>17, <1>18, <1>19 DEF Next

\* A call keeps to its owner's phones, and leaves the loop after the last.
LEMMA CallsStep ==
    ASSUME InputsOK, PlacesOK, CallsPrompt, [Next]_vars
    PROVE  CallsPrompt'
<1> USE SummaryAssumption DEF InputsOK, PlacesOK, CallsPrompt
<1>1. ASSUME NEW c \in Calls, onConsumed(c) PROVE CallsPrompt'
  BY <1>1 DEF onConsumed, CallUnchanged, GoTo, work
<1>2. ASSUME NEW c \in Calls, InsertDoc(c) PROVE CallsPrompt'
  BY <1>2 DEF InsertDoc, CallUnchanged, GoTo, work
<1>3. ASSUME NEW c \in Calls, FindPhones(c) PROVE CallsPrompt'
  <2>1. PhonesOf[DocOf[c]] \in Seq(Phones) /\ DocOf[c] \in Docs
    OBVIOUS
  <2>2. \A i \in 1 .. Len(PhonesOf[DocOf[c]]) : <<DocOf[c], PhonesOf[DocOf[c]][i]>> \in Notifs
    BY <2>1, NotifFacts
  <2> QED
    BY <1>3, <2>1, <2>2 DEF FindPhones, GoTo, Fault
<1>4. ASSUME NEW c \in Calls, Prompt(c) PROVE CallsPrompt'
  BY <1>4 DEF Prompt, Fault, CallUnchanged, GoTo, work
<1>5. ASSUME NEW c \in Calls, Record(c) PROVE CallsPrompt'
  <2>1. at[c] \in {"prompt", "record"}
    BY <1>5 DEF Record
  <2> QED
    BY <1>5, <2>1, TurnFacts DEF Record, GoTo, Fault
<1>6. ASSUME NEW ph \in Phones, Answer(ph) PROVE CallsPrompt'
  BY <1>6 DEF Answer, tables, work
<1>7. ASSUME NEW p \in Polls, Receive(p) PROVE CallsPrompt'
  BY <1>7 DEF Receive, PollUnchanged, GoTo, sent
<1>8. ASSUME NEW p \in Polls, FindNotif(p) PROVE CallsPrompt'
  BY <1>8 DEF FindNotif, NextMessage, PollUnchanged, GoTo, sent
<1>9. ASSUME NEW p \in Polls, Mark(p) PROVE CallsPrompt'
  BY <1>9 DEF Mark, PollUnchanged, GoTo, sent
<1>10. ASSUME NEW p \in Polls, Enqueue(p) PROVE CallsPrompt'
  BY <1>10 DEF Enqueue, NextMessage, PollUnchanged, GoTo, sent
<1>11. ASSUME NEW p \in Polls, Throw(p) PROVE CallsPrompt'
  BY <1>11 DEF Throw, Fault, PollUnchanged, GoTo, sent
<1>12. ASSUME TakeJob PROVE CallsPrompt'
  BY <1>12 DEF TakeJob, WorkUnchanged
<1>13. ASSUME Summarize PROVE CallsPrompt'
  BY <1>13 DEF Summarize, WorkUnchanged
<1>14. ASSUME Deliver PROVE CallsPrompt'
  BY <1>14 DEF Deliver, WorkUnchanged
<1>15. ASSUME Store PROVE CallsPrompt'
  BY <1>15 DEF Store, Fault, WorkUnchanged
<1>16. ASSUME Finish PROVE CallsPrompt'
  BY <1>16 DEF Finish, Conclude, Fault, WorkUnchanged
<1>17. ASSUME FailJob PROVE CallsPrompt'
  BY <1>17 DEF FailJob, Conclude, Fault, WorkUnchanged
<1>18. ASSUME Crash PROVE CallsPrompt'
  BY <1>18 DEF Crash, Fault, tables
<1>19. CASE UNCHANGED vars
  BY <1>19 DEF vars, tables, work, sent
<1> QED
  BY <1>1, <1>2, <1>3, <1>4, <1>5, <1>6, <1>7, <1>8, <1>9, <1>10, <1>11, <1>12, <1>13,
       <1>14, <1>15, <1>16, <1>17, <1>18, <1>19 DEF Next

\* A poll keeps to its places.
LEMMA PollsStep ==
    ASSUME TypeOK, PollsPoll, [Next]_vars
    PROVE  PollsPoll'
<1> USE SummaryAssumption DEF TypeOK, Job, Status, PollsPoll
<1>1. ASSUME NEW c \in Calls, onConsumed(c) PROVE PollsPoll'
  BY <1>1 DEF onConsumed, CallUnchanged, GoTo, work
<1>2. ASSUME NEW c \in Calls, InsertDoc(c) PROVE PollsPoll'
  BY <1>2 DEF InsertDoc, CallUnchanged, GoTo, work
<1>3. ASSUME NEW c \in Calls, FindPhones(c) PROVE PollsPoll'
  BY <1>3 DEF FindPhones, Fault, CallUnchanged, GoTo, work
<1>4. ASSUME NEW c \in Calls, Prompt(c) PROVE PollsPoll'
  BY <1>4 DEF Prompt, Fault, CallUnchanged, GoTo, work
<1>5. ASSUME NEW c \in Calls, Record(c) PROVE PollsPoll'
  BY <1>5 DEF Record, Fault, CallUnchanged, GoTo, work
<1>6. ASSUME NEW ph \in Phones, Answer(ph) PROVE PollsPoll'
  BY <1>6 DEF Answer, tables, work
<1>7. ASSUME NEW p \in Polls, Receive(p) PROVE PollsPoll'
  BY <1>7 DEF Receive, PollUnchanged, GoTo, sent
<1>8. ASSUME NEW p \in Polls, FindNotif(p) PROVE PollsPoll'
  BY <1>8 DEF FindNotif, NextMessage, PollUnchanged, GoTo, sent
<1>9. ASSUME NEW p \in Polls, Mark(p) PROVE PollsPoll'
  BY <1>9 DEF Mark, PollUnchanged, GoTo, sent
<1>10. ASSUME NEW p \in Polls, Enqueue(p) PROVE PollsPoll'
  BY <1>10 DEF Enqueue, NextMessage, PollUnchanged, GoTo, sent
<1>11. ASSUME NEW p \in Polls, Throw(p) PROVE PollsPoll'
  BY <1>11 DEF Throw, Fault, PollUnchanged, GoTo, sent
<1>12. ASSUME TakeJob PROVE PollsPoll'
  BY <1>12 DEF TakeJob, WorkUnchanged
<1>13. ASSUME Summarize PROVE PollsPoll'
  BY <1>13 DEF Summarize, WorkUnchanged
<1>14. ASSUME Deliver PROVE PollsPoll'
  BY <1>14 DEF Deliver, WorkUnchanged
<1>15. ASSUME Store PROVE PollsPoll'
  BY <1>15 DEF Store, Fault, WorkUnchanged
<1>16. ASSUME Finish PROVE PollsPoll'
  BY <1>16 DEF Finish, Conclude, Fault, WorkUnchanged
<1>17. ASSUME FailJob PROVE PollsPoll'
  BY <1>17 DEF FailJob, Conclude, Fault, WorkUnchanged
<1>18. ASSUME Crash PROVE PollsPoll'
  BY <1>18 DEF Crash, Fault, tables
<1>19. CASE UNCHANGED vars
  BY <1>19 DEF vars, tables, work, sent
<1> QED
  BY <1>1, <1>2, <1>3, <1>4, <1>5, <1>6, <1>7, <1>8, <1>9, <1>10, <1>11, <1>12, <1>13,
       <1>14, <1>15, <1>16, <1>17, <1>18, <1>19 DEF Next

\* The worker goes through its steps in order.
LEMMA OrderStep ==
    ASSUME TypeOK, WorkerInOrder, [Next]_vars
    PROVE  WorkerInOrder'
<1> USE SummaryAssumption, NotifFacts DEF TypeOK, Job, Status, WorkerInOrder
<1>1. ASSUME NEW c \in Calls, onConsumed(c) PROVE WorkerInOrder'
  BY <1>1 DEF onConsumed, CallUnchanged, GoTo, work
<1>2. ASSUME NEW c \in Calls, InsertDoc(c) PROVE WorkerInOrder'
  BY <1>2 DEF InsertDoc, CallUnchanged, GoTo, work
<1>3. ASSUME NEW c \in Calls, FindPhones(c) PROVE WorkerInOrder'
  BY <1>3 DEF FindPhones, Fault, CallUnchanged, GoTo, work
<1>4. ASSUME NEW c \in Calls, Prompt(c) PROVE WorkerInOrder'
  BY <1>4 DEF Prompt, Fault, CallUnchanged, GoTo, work
<1>5. ASSUME NEW c \in Calls, Record(c) PROVE WorkerInOrder'
  BY <1>5 DEF Record, Fault, CallUnchanged, GoTo, work
<1>6. ASSUME NEW ph \in Phones, Answer(ph) PROVE WorkerInOrder'
  BY <1>6 DEF Answer, tables, work
<1>7. ASSUME NEW p \in Polls, Receive(p) PROVE WorkerInOrder'
  BY <1>7 DEF Receive, PollUnchanged, GoTo, sent
<1>8. ASSUME NEW p \in Polls, FindNotif(p) PROVE WorkerInOrder'
  BY <1>8 DEF FindNotif, NextMessage, PollUnchanged, GoTo, sent
<1>9. ASSUME NEW p \in Polls, Mark(p) PROVE WorkerInOrder'
  BY <1>9 DEF Mark, PollUnchanged, GoTo, sent
<1>10. ASSUME NEW p \in Polls, Enqueue(p) PROVE WorkerInOrder'
  BY <1>10 DEF Enqueue, NextMessage, PollUnchanged, GoTo, sent
<1>11. ASSUME NEW p \in Polls, Throw(p) PROVE WorkerInOrder'
  BY <1>11 DEF Throw, Fault, PollUnchanged, GoTo, sent
<1>12. ASSUME TakeJob PROVE WorkerInOrder'
  BY <1>12 DEF TakeJob, WorkUnchanged
<1>13. ASSUME Summarize PROVE WorkerInOrder'
  BY <1>13 DEF Summarize, WorkUnchanged
<1>14. ASSUME Deliver PROVE WorkerInOrder'
  BY <1>14 DEF Deliver, WorkUnchanged
<1>15. ASSUME Store PROVE WorkerInOrder'
  BY <1>15 DEF Store, Fault, WorkUnchanged
<1>16. ASSUME Finish PROVE WorkerInOrder'
  BY <1>16 DEF Finish, Conclude, Fault, WorkUnchanged
<1>17. ASSUME FailJob PROVE WorkerInOrder'
  BY <1>17 DEF FailJob, Conclude, Fault, WorkUnchanged
<1>18. ASSUME Crash PROVE WorkerInOrder'
  BY <1>18 DEF Crash, Fault, tables
<1>19. CASE UNCHANGED vars
  BY <1>19 DEF vars, tables, work, sent
<1> QED
  BY <1>1, <1>2, <1>3, <1>4, <1>5, <1>6, <1>7, <1>8, <1>9, <1>10, <1>11, <1>12, <1>13,
       <1>14, <1>15, <1>16, <1>17, <1>18, <1>19 DEF Next

\* Only the worker that stored a summary writes "done".
LEMMA DoneStep ==
    ASSUME TypeOK, CallsPrompt, PollsPoll, WorkerInOrder, DoneIsStored, [Next]_vars
    PROVE  DoneIsStored'
<1> USE SummaryAssumption, NotifFacts DEF TypeOK, Job, Status, CallsPrompt, WorkerInOrder,
     DoneIsStored
<1>1. ASSUME NEW c \in Calls, onConsumed(c) PROVE DoneIsStored'
  BY <1>1 DEF onConsumed, CallUnchanged, GoTo, work
<1>2. ASSUME NEW c \in Calls, InsertDoc(c) PROVE DoneIsStored'
  BY <1>2 DEF InsertDoc, CallUnchanged, GoTo, work
<1>3. ASSUME NEW c \in Calls, FindPhones(c) PROVE DoneIsStored'
  BY <1>3 DEF FindPhones, Fault, CallUnchanged, GoTo, work
<1>4. ASSUME NEW c \in Calls, Prompt(c) PROVE DoneIsStored'
  BY <1>4 DEF Prompt, Fault, CallUnchanged, GoTo, work
<1>5. ASSUME NEW c \in Calls, Record(c) PROVE DoneIsStored'
  BY <1>5 DEF Record, Fault, CallUnchanged, GoTo, work
<1>6. ASSUME NEW ph \in Phones, Answer(ph) PROVE DoneIsStored'
  BY <1>6 DEF Answer, tables, work
<1>7. ASSUME NEW p \in Polls, Receive(p) PROVE DoneIsStored'
  BY <1>7 DEF Receive, PollUnchanged, GoTo, sent
<1>8. ASSUME NEW p \in Polls, FindNotif(p) PROVE DoneIsStored'
  BY <1>8 DEF FindNotif, NextMessage, PollUnchanged, GoTo, sent
<1>9. ASSUME NEW p \in Polls, Mark(p) PROVE DoneIsStored'
  BY <1>9 DEF Mark, PollUnchanged, GoTo, sent
<1>10. ASSUME NEW p \in Polls, Enqueue(p) PROVE DoneIsStored'
  BY <1>10 DEF Enqueue, NextMessage, PollUnchanged, GoTo, sent
<1>11. ASSUME NEW p \in Polls, Throw(p) PROVE DoneIsStored'
  BY <1>11 DEF Throw, Fault, PollUnchanged, GoTo, sent
<1>12. ASSUME TakeJob PROVE DoneIsStored'
  BY <1>12 DEF TakeJob, WorkUnchanged
<1>13. ASSUME Summarize PROVE DoneIsStored'
  BY <1>13 DEF Summarize, WorkUnchanged
<1>14. ASSUME Deliver PROVE DoneIsStored'
  BY <1>14 DEF Deliver, WorkUnchanged
<1>15. ASSUME Store PROVE DoneIsStored'
  BY <1>15 DEF Store, Fault, WorkUnchanged
<1>16. ASSUME Finish PROVE DoneIsStored'
  BY <1>16 DEF Finish, Conclude, Fault, WorkUnchanged
<1>17. ASSUME FailJob PROVE DoneIsStored'
  BY <1>17 DEF FailJob, Conclude, Fault, WorkUnchanged
<1>18. ASSUME Crash PROVE DoneIsStored'
  BY <1>18 DEF Crash, Fault, tables
<1>19. CASE UNCHANGED vars
  BY <1>19 DEF vars, tables, work, sent
<1> QED
  BY <1>1, <1>2, <1>3, <1>4, <1>5, <1>6, <1>7, <1>8, <1>9, <1>10, <1>11, <1>12, <1>13,
       <1>14, <1>15, <1>16, <1>17, <1>18, <1>19 DEF Next

\* A step that takes no notification for sent leaves none the more owed.
LEMMA OwedLess ==
    ASSUME UNCHANGED summaries, \A n \in Notifs : TakenForSent(n)' => TakenForSent(n)
    PROVE  Owed' \subseteq Owed
BY DEF Owed

\* Only a failure of the sending adds a notification to those owed.
LEMMA OwedStep ==
    ASSUME TablesOK, WorkOK, FoundOK, CountsOK, CallsPrompt, [Next]_vars
    PROVE  \/ Owed' \subseteq Owed /\ faults' >= faults
           \/ \E n \in Notifs : Owed' \subseteq Owed \cup {n} /\ faults' = faults + 1
<1> USE DEF Job
<1>a. faults \in Nat
  BY DEF CountsOK
<1>1. ASSUME NEW c \in Calls,
             onConsumed(c) \/ InsertDoc(c) \/ FindPhones(c) \/ Prompt(c) \/ Record(c)
      PROVE  Owed' \subseteq Owed /\ faults' >= faults
  <2>1. UNCHANGED <<summaries, step, job>>
    BY <1>1 DEF onConsumed, InsertDoc, FindPhones, Prompt, Record, CallUnchanged, work
  <2>2. \A n \in Notifs : status'[n] = status[n] \/ status'[n] = "pending"
    BY <1>1 DEF onConsumed, InsertDoc, FindPhones, Prompt, Record, CallUnchanged, TablesOK
  <2>3. faults' >= faults
    BY <1>1, <1>a DEF onConsumed, InsertDoc, FindPhones, Prompt, Record, Fault
  <2> QED
    BY <2>1, <2>2, <2>3, OwedLess DEF TakenForSent
<1>2. ASSUME \/ \E ph \in Phones : Answer(ph)
             \/ \E p \in Polls : Receive(p) \/ FindNotif(p) \/ Mark(p) \/ Enqueue(p) \/ Throw(p)
             \/ UNCHANGED vars
      PROVE  Owed' \subseteq Owed /\ faults' >= faults
  <2>1. UNCHANGED <<summaries, step, job>>
    BY <1>2 DEF Answer, Receive, FindNotif, Mark, Enqueue, Throw, PollUnchanged, work, sent, vars
  <2>2. \A n \in Notifs : status'[n] = status[n] \/ status'[n] = "processing"
    BY <1>2 DEF Answer, Receive, FindNotif, Mark, Enqueue, Throw, vars, tables, TablesOK
  <2>3. faults' = faults \/ faults' = faults + 1
    BY <1>2 DEF Answer, Receive, FindNotif, Mark, Enqueue, Throw, Fault, vars
  <2> QED
    BY <1>a, <2>1, <2>2, <2>3, OwedLess DEF TakenForSent
<1>3. ASSUME TakeJob \/ Summarize \/ Store
      PROVE  Owed' \subseteq Owed /\ faults' >= faults
  <2>1. /\ UNCHANGED <<summaries, status>>
        /\ step' \in {"store", "finish"} => step = "store" /\ UNCHANGED job
    BY <1>3 DEF TakeJob, Summarize, Store, WorkUnchanged
  <2>2. faults' >= faults
    BY <1>3, <1>a DEF TakeJob, Summarize, Store, Fault
  <2> QED
    BY <2>1, <2>2, OwedLess DEF TakenForSent
<1>4. ASSUME Deliver
      PROVE  \/ Owed' \subseteq Owed /\ faults' >= faults
             \/ \E n \in Notifs : Owed' \subseteq Owed \cup {n} /\ faults' = faults + 1
  <2>1. job.notif \in Notifs /\ UNCHANGED <<status, job>>
    BY <1>4 DEF Deliver, WorkOK
  <2>2. CASE summaries' = [summaries EXCEPT ![job.notif] = @ + 1] /\ UNCHANGED faults
    <3>1. \A n \in Notifs : summaries'[n] = 0 => summaries[n] = 0 /\ n # job.notif
      BY <2>1, <2>2 DEF CountsOK
    <3> QED
      BY <1>a, <2>1, <2>2, <3>1 DEF Owed, TakenForSent
  <2>3. CASE Fault /\ UNCHANGED summaries
    BY <2>1, <2>3 DEF Fault, Owed, TakenForSent
  <2> QED
    BY <1>4, <2>2, <2>3 DEF Deliver
<1>5. ASSUME Finish \/ FailJob
      PROVE  Owed' \subseteq Owed /\ faults' >= faults
  <2>1. PICK result \in {"done", "failed"} : Conclude(result) /\ (result = "done" => step = "finish")
    BY <1>5 DEF Finish, FailJob
  <2>2. step' \notin {"store", "finish"} /\ UNCHANGED summaries
    BY <2>1 DEF Conclude
  <2>3. step # "idle" /\ job.notif \in Notifs
    BY <1>5 DEF Finish, FailJob, WorkOK
  <2>4. \A n \in Notifs : status'[n] = "done" => status[n] = "done" \/ (result = "done" /\ n = job.notif)
    BY <2>1, <2>3 DEF Conclude, TablesOK
  <2>5. faults' >= faults
    BY <2>1, <1>a DEF Conclude, Fault
  <2> QED
    BY <2>1, <2>2, <2>4, <2>5, OwedLess DEF TakenForSent
<1>6. ASSUME Crash PROVE Owed' \subseteq Owed /\ faults' >= faults
  <2>1. UNCHANGED <<summaries, status>> /\ step' = "idle" /\ faults' >= faults
    BY <1>6, <1>a DEF Crash, tables, Fault
  <2> QED
    BY <2>1, OwedLess DEF TakenForSent
<1> QED
  BY <1>1, <1>2, <1>3, <1>4, <1>5, <1>6 DEF Next

LEMMA OwedToFaultsStep ==
    ASSUME TablesOK, WorkOK, FoundOK, CountsOK, CallsPrompt, OwedToFaults, [Next]_vars
    PROVE  OwedToFaults'
<1>1. faults \in Nat /\ faults' \in Nat
  <2>1. faults \in Nat
    BY DEF CountsOK
  <2>2. faults' \in Int /\ faults' >= faults
    <3>1. faults' = faults \/ faults' = faults + 1
      BY DEF Next, onConsumed, InsertDoc, FindPhones, Prompt, Record, Answer, Receive, FindNotif, Mark,
         Enqueue, Throw, TakeJob, Summarize, Deliver, Store, Finish, FailJob, Conclude, Crash, Fault, vars
    <3> QED
      BY <2>1, <3>1
  <2> QED
    BY <2>1, <2>2
<1>2. IsFiniteSet(Owed) /\ Cardinality(Owed) \in Nat
  BY FS_CardinalityType DEF OwedToFaults
<1>3. CASE Owed' \subseteq Owed /\ faults' >= faults
  <2>1. /\ IsFiniteSet(Owed')
        /\ Cardinality(Owed') <= Cardinality(Owed) /\ Cardinality(Owed') \in Nat
    BY <1>2, <1>3, FS_Subset, FS_CardinalityType
  <2> QED
    BY <1>1, <1>2, <1>3, <2>1 DEF OwedToFaults
<1>4. ASSUME NEW n \in Notifs, Owed' \subseteq Owed \cup {n}, faults' = faults + 1
      PROVE  OwedToFaults'
  <2>1. /\ IsFiniteSet(Owed \cup {n})
        /\ Cardinality(Owed \cup {n}) \in {Cardinality(Owed), Cardinality(Owed) + 1}
    BY <1>2, FS_AddElement
  <2>2. /\ IsFiniteSet(Owed')
        /\ Cardinality(Owed') <= Cardinality(Owed \cup {n}) /\ Cardinality(Owed') \in Nat
    BY <1>4, <2>1, FS_Subset, FS_CardinalityType
  <2> QED
    BY <1>1, <1>2, <1>4, <2>1, <2>2 DEF OwedToFaults
<1> QED
  BY <1>3, <1>4, OwedStep

\* The unique column lets one call through for each document.
LEMMA OneCallStep ==
    ASSUME TypeOK, PlacesOK, OneCall, [Next]_vars
    PROVE  OneCall'
<1> USE SummaryAssumption DEF PlacesOK, OneCall, Prompting
<1>1. ASSUME NEW c \in Calls, onConsumed(c) PROVE OneCall'
  BY <1>1 DEF onConsumed, CallUnchanged, GoTo, work
<1>2. ASSUME NEW c \in Calls, InsertDoc(c) PROVE OneCall'
  BY <1>2 DEF InsertDoc, CallUnchanged, GoTo, work
<1>3. ASSUME NEW c \in Calls, FindPhones(c) PROVE OneCall'
  BY <1>3 DEF FindPhones, Fault, CallUnchanged, GoTo, work
<1>4. ASSUME NEW c \in Calls, Prompt(c) PROVE OneCall'
  BY <1>4 DEF Prompt, Fault, CallUnchanged, GoTo, work
<1>5. ASSUME NEW c \in Calls, Record(c) PROVE OneCall'
  BY <1>5 DEF Record, Fault, CallUnchanged, GoTo, work
<1>6. ASSUME NEW ph \in Phones, Answer(ph) PROVE OneCall'
  BY <1>6 DEF Answer, tables, work
<1>7. ASSUME NEW p \in Polls, Receive(p) PROVE OneCall'
  BY <1>7 DEF Receive, PollUnchanged, GoTo, sent
<1>8. ASSUME NEW p \in Polls, FindNotif(p) PROVE OneCall'
  BY <1>8 DEF FindNotif, NextMessage, PollUnchanged, GoTo, sent
<1>9. ASSUME NEW p \in Polls, Mark(p) PROVE OneCall'
  BY <1>9 DEF Mark, PollUnchanged, GoTo, sent
<1>10. ASSUME NEW p \in Polls, Enqueue(p) PROVE OneCall'
  BY <1>10 DEF Enqueue, NextMessage, PollUnchanged, GoTo, sent
<1>11. ASSUME NEW p \in Polls, Throw(p) PROVE OneCall'
  BY <1>11 DEF Throw, Fault, PollUnchanged, GoTo, sent
<1>12. ASSUME TakeJob PROVE OneCall'
  BY <1>12 DEF TakeJob, WorkUnchanged
<1>13. ASSUME Summarize PROVE OneCall'
  BY <1>13 DEF Summarize, WorkUnchanged
<1>14. ASSUME Deliver PROVE OneCall'
  BY <1>14 DEF Deliver, WorkUnchanged
<1>15. ASSUME Store PROVE OneCall'
  BY <1>15 DEF Store, Fault, WorkUnchanged
<1>16. ASSUME Finish PROVE OneCall'
  BY <1>16 DEF Finish, Conclude, Fault, WorkUnchanged
<1>17. ASSUME FailJob PROVE OneCall'
  BY <1>17 DEF FailJob, Conclude, Fault, WorkUnchanged
<1>18. ASSUME Crash PROVE OneCall'
  BY <1>18 DEF Crash, Fault, tables
<1>19. CASE UNCHANGED vars
  BY <1>19 DEF vars, tables, work, sent
<1> QED
  BY <1>1, <1>2, <1>3, <1>4, <1>5, <1>6, <1>7, <1>8, <1>9, <1>10, <1>11, <1>12, <1>13,
       <1>14, <1>15, <1>16, <1>17, <1>18, <1>19 DEF Next

\* A call prompts each phone of its list in turn, and no other call does.
LEMMA UnpromptedStep ==
    ASSUME PhonesDiffer, CountsOK, PlacesOK, InputsOK, CallsPrompt, OneCall, Unprompted, [Next]_vars
    PROVE  Unprompted'
<1> USE SummaryAssumption DEF CountsOK, PlacesOK, InputsOK, CallsPrompt, OneCall, Prompting,
     Unprompted
<1>1. ASSUME NEW c \in Calls, onConsumed(c) PROVE Unprompted'
  BY <1>1 DEF onConsumed, CallUnchanged, GoTo, work
<1>2. ASSUME NEW c \in Calls, InsertDoc(c) PROVE Unprompted'
  BY <1>2 DEF InsertDoc, CallUnchanged, GoTo, work
<1>3. ASSUME NEW c \in Calls, FindPhones(c) PROVE Unprompted'
  <2>1. /\ PhonesOf[DocOf[c]] \in Seq(Phones) /\ DocOf[c] \in Docs
        /\ todo' = [todo EXCEPT ![c] = PhonesOf[DocOf[c]]] \/ (UNCHANGED todo /\ at'[c] = "end")
        /\ at' = [at EXCEPT ![c] = at'[c]] /\ at[c] = "owner" /\ at'[c] \in {"prompt", "end"}
        /\ UNCHANGED <<prompts, stored>>
    BY <1>3 DEF FindPhones, GoTo
  <2>3. \A i \in 1 .. Len(PhonesOf[DocOf[c]]) : prompts[<<DocOf[c], PhonesOf[DocOf[c]][i]>>] = 0
    BY <2>1, NotifFacts
  <2>4. \A i, k \in 1 .. Len(PhonesOf[DocOf[c]]) :
            PhonesOf[DocOf[c]][i] = PhonesOf[DocOf[c]][k] => i = k
    BY <2>1 DEF PhonesDiffer
  <2> QED
    <3>1. \A e \in Calls \ {c} : todo'[e] = todo[e] /\ at'[e] = at[e]
      BY <2>1
    <3>2. /\ at'[c] # "owner"
          /\ \A i \in 1 .. Len(todo'[c]) : at'[c] = "prompt" => prompts[<<DocOf[c], todo'[c][i]>>] = 0
          /\ at'[c] # "record"
          /\ \A i, k \in 1 .. Len(todo'[c]) : todo'[c][i] = todo'[c][k] => i = k
      BY <2>1, <2>3, <2>4
    <3>3. ASSUME NEW e \in Calls, NEW n \in Notifs, at'[e] = "owner", n[1] = DocOf[e]
          PROVE  prompts[n] = 0
      BY <3>1, <3>2, <3>3
    <3>4. ASSUME NEW e \in Calls, NEW i \in 1 .. Len(todo'[e]),
                 at'[e] = "prompt" \/ (at'[e] = "record" /\ i > 1)
          PROVE  prompts[<<DocOf[e], todo'[e][i]>>] = 0
      <4>1. CASE e = c
        BY <3>2, <3>4, <4>1
      <4>2. CASE e # c
        <5>1. todo'[e] = todo[e] /\ at'[e] = at[e]
          BY <3>1, <4>2
        <5> QED
          BY <3>4, <5>1
      <4> QED
        BY <4>1, <4>2
    <3>5. ASSUME NEW e \in Calls, NEW i \in 1 .. Len(todo'[e]), NEW k \in 1 .. Len(todo'[e]),
                 todo'[e][i] = todo'[e][k]
          PROVE  i = k
      BY <3>1, <3>2, <3>5
    <3> QED
      BY <2>1, <3>3, <3>4, <3>5
<1>4. ASSUME NEW c \in Calls, Prompt(c) PROVE Unprompted'
  <2>1. /\ at[c] = "prompt" /\ at' = [at EXCEPT ![c] = "record"] /\ UNCHANGED <<todo, stored>>
        /\ <<DocOf[c], Head(todo[c])>> \in Notifs /\ Head(todo[c]) = todo[c][1]
        /\ todo[c] \in Seq(Phones) /\ Len(todo[c]) \in Nat \ {0}
    BY <1>4, TurnFacts, TailFacts DEF Prompt, GoTo
  <2>2. \A n \in Notifs : prompts'[n] # prompts[n] =>
            n = <<DocOf[c], todo[c][1]>> /\ prompts'[n] = prompts[n] + 1
    <3>1. PICK n \in Notifs : n = <<DocOf[c], todo[c][1]>>
      BY <2>1
    <3>2. prompts' = [prompts EXCEPT ![n] = @ + 1] \/ UNCHANGED prompts
      BY <1>4, <2>1, <3>1 DEF Prompt
    <3>3. CASE prompts' = [prompts EXCEPT ![n] = @ + 1]
      <4>1. \A m \in Notifs : prompts'[m] = IF m = n THEN prompts[m] + 1 ELSE prompts[m]
        BY <3>3
      <4> QED
        BY <3>1, <4>1
    <3> QED
      BY <3>2, <3>3
  <2>3. \A n \in Notifs : n[1] # DocOf[c] => prompts'[n] = prompts[n]
    BY <2>2
  <2>4. DocOf[c] \in stored /\ \A e \in Calls \ {c} : Prompting(e) => DocOf[e] # DocOf[c]
    BY <2>1
  <2>5. \A e \in Calls : \A i \in 1 .. Len(todo[e]) :
            <<DocOf[e], todo[e][i]>> \in Notifs /\ <<DocOf[e], todo[e][i]>>[1] = DocOf[e]
    BY DEF CallsPrompt
  <2>6. \A i \in 1 .. Len(todo[c]) : i > 1 => prompts'[<<DocOf[c], todo[c][i]>>] = 0
    <3> SUFFICES ASSUME NEW i \in 1 .. Len(todo[c]), i > 1
                 PROVE  prompts'[<<DocOf[c], todo[c][i]>>] = 0
      OBVIOUS
    <3>1. todo[c][i] # todo[c][1] /\ 1 \in 1 .. Len(todo[c])
      BY <2>1
    <3> QED
      BY <2>1, <2>2, <2>5, <3>1
  <2>7. ASSUME NEW e \in Calls, NEW i \in 1 .. Len(todo[e]),
               (at[e] = "prompt" \/ (at[e] = "record" /\ i > 1))'
        PROVE  prompts'[<<DocOf[e], todo[e][i]>>] = 0
    <3>1. CASE e = c
      BY <2>1, <2>6, <2>7, <3>1
    <3>2. CASE e # c
      <4>1. at'[e] = at[e]
        BY <2>1, <3>2
      <4> QED
        BY <2>3, <2>4, <2>5, <2>7, <3>2, <4>1
    <3> QED
      BY <3>1, <3>2
  <2>8. ASSUME NEW e \in Calls, NEW n \in Notifs, at'[e] = "owner", n[1] = DocOf[e]
        PROVE  prompts'[n] = 0
    BY <2>1, <2>3, <2>4, <2>8
  <2>9. \A n \in Notifs : n[1] \notin stored => prompts'[n] = 0
    BY <2>3, <2>4
  <2> QED
    BY <2>1, <2>7, <2>8, <2>9
<1>5. ASSUME NEW c \in Calls, Record(c) PROVE Unprompted'
  <2>1. /\ at[c] = "record" /\ UNCHANGED <<stored, prompts>>
        /\ \/ todo' = [todo EXCEPT ![c] = Tail(todo[c])] /\ at'[c] \in {"prompt", "end"}
           \/ UNCHANGED todo /\ at'[c] = "end"
        /\ \A e \in Calls \ {c} : at'[e] = at[e]
    BY <1>5 DEF Record, GoTo
  <2>2. /\ \A i \in 1 .. Len(Tail(todo[c])) :
              i + 1 \in 1 .. Len(todo[c]) /\ Tail(todo[c])[i] = todo[c][i + 1] /\ i + 1 > 1
        /\ \A i \in 1 .. Len(Tail(todo[c])) : i \in Nat
    BY <2>1, TurnFacts
  <2>3. \A i \in 1 .. Len(Tail(todo[c])) : prompts[<<DocOf[c], Tail(todo[c])[i]>>] = 0
    BY <2>1, <2>2
  <2>4. \A i, k \in 1 .. Len(Tail(todo[c])) : Tail(todo[c])[i] = Tail(todo[c])[k] => i = k
    <3> SUFFICES ASSUME NEW i \in 1 .. Len(Tail(todo[c])), NEW k \in 1 .. Len(Tail(todo[c])),
                        Tail(todo[c])[i] = Tail(todo[c])[k]
                 PROVE  i = k
      OBVIOUS
    <3>1. i + 1 = k + 1
      BY <2>2
    <3> QED
      BY <2>2, <3>1
  <2> QED
    <3>1. \A e \in Calls \ {c} : todo'[e] = todo[e] /\ at'[e] = at[e]
      BY <2>1
    <3>2. /\ at'[c] # "owner"
          /\ \A i \in 1 .. Len(todo'[c]) : at'[c] = "prompt" => prompts[<<DocOf[c], todo'[c][i]>>] = 0
          /\ at'[c] # "record"
          /\ \A i, k \in 1 .. Len(todo'[c]) : todo'[c][i] = todo'[c][k] => i = k
      BY <2>1, <2>3, <2>4
    <3>3. ASSUME NEW e \in Calls, NEW n \in Notifs, at'[e] = "owner", n[1] = DocOf[e]
          PROVE  prompts[n] = 0
      BY <3>1, <3>2, <3>3
    <3>4. ASSUME NEW e \in Calls, NEW i \in 1 .. Len(todo'[e]),
                 at'[e] = "prompt" \/ (at'[e] = "record" /\ i > 1)
          PROVE  prompts[<<DocOf[e], todo'[e][i]>>] = 0
      <4>1. CASE e = c
        BY <3>2, <3>4, <4>1
      <4>2. CASE e # c
        <5>1. todo'[e] = todo[e] /\ at'[e] = at[e]
          BY <3>1, <4>2
        <5> QED
          BY <3>4, <5>1
      <4> QED
        BY <4>1, <4>2
    <3>5. ASSUME NEW e \in Calls, NEW i \in 1 .. Len(todo'[e]), NEW k \in 1 .. Len(todo'[e]),
                 todo'[e][i] = todo'[e][k]
          PROVE  i = k
      BY <3>1, <3>2, <3>5
    <3> QED
      BY <2>1, <3>3, <3>4, <3>5
<1>6. ASSUME NEW ph \in Phones, Answer(ph) PROVE Unprompted'
  BY <1>6 DEF Answer, tables, work
<1>7. ASSUME NEW p \in Polls, Receive(p) PROVE Unprompted'
  BY <1>7 DEF Receive, PollUnchanged, GoTo, sent
<1>8. ASSUME NEW p \in Polls, FindNotif(p) PROVE Unprompted'
  BY <1>8 DEF FindNotif, NextMessage, PollUnchanged, GoTo, sent
<1>9. ASSUME NEW p \in Polls, Mark(p) PROVE Unprompted'
  BY <1>9 DEF Mark, PollUnchanged, GoTo, sent
<1>10. ASSUME NEW p \in Polls, Enqueue(p) PROVE Unprompted'
  BY <1>10 DEF Enqueue, NextMessage, PollUnchanged, GoTo, sent
<1>11. ASSUME NEW p \in Polls, Throw(p) PROVE Unprompted'
  BY <1>11 DEF Throw, Fault, PollUnchanged, GoTo, sent
<1>12. ASSUME TakeJob PROVE Unprompted'
  BY <1>12 DEF TakeJob, WorkUnchanged
<1>13. ASSUME Summarize PROVE Unprompted'
  BY <1>13 DEF Summarize, WorkUnchanged
<1>14. ASSUME Deliver PROVE Unprompted'
  BY <1>14 DEF Deliver, WorkUnchanged
<1>15. ASSUME Store PROVE Unprompted'
  BY <1>15 DEF Store, Fault, WorkUnchanged
<1>16. ASSUME Finish PROVE Unprompted'
  BY <1>16 DEF Finish, Conclude, Fault, WorkUnchanged
<1>17. ASSUME FailJob PROVE Unprompted'
  BY <1>17 DEF FailJob, Conclude, Fault, WorkUnchanged
<1>18. ASSUME Crash PROVE Unprompted'
  BY <1>18 DEF Crash, Fault, tables
<1>19. CASE UNCHANGED vars
  BY <1>19 DEF vars, tables, work, sent
<1> QED
  BY <1>1, <1>2, <1>3, <1>4, <1>5, <1>6, <1>7, <1>8, <1>9, <1>10, <1>11, <1>12, <1>13,
       <1>14, <1>15, <1>16, <1>17, <1>18, <1>19 DEF Next

\* A phone on a call's list has not been prompted.
LEMMA OnceStep ==
    ASSUME CountsOK, PlacesOK, InputsOK, CallsPrompt, Unprompted, PromptedOnce, [Next]_vars
    PROVE  PromptedOnce'
<1> USE SummaryAssumption DEF CountsOK, PlacesOK, InputsOK, CallsPrompt, PromptedOnce
<1>1. ASSUME NEW c \in Calls, onConsumed(c) PROVE PromptedOnce'
  BY <1>1 DEF onConsumed, CallUnchanged, GoTo, work
<1>2. ASSUME NEW c \in Calls, InsertDoc(c) PROVE PromptedOnce'
  BY <1>2 DEF InsertDoc, CallUnchanged, GoTo, work
<1>3. ASSUME NEW c \in Calls, FindPhones(c) PROVE PromptedOnce'
  BY <1>3 DEF FindPhones, Fault, CallUnchanged, GoTo, work
<1>4. ASSUME NEW c \in Calls, Prompt(c) PROVE PromptedOnce'
  <2>1. /\ at[c] = "prompt" /\ Head(todo[c]) = todo[c][1] /\ 1 \in 1 .. Len(todo[c])
        /\ <<DocOf[c], Head(todo[c])>> \in Notifs
    BY <1>4, TurnFacts, TailFacts DEF Prompt
  <2>2. PICK n \in Notifs : n = <<DocOf[c], Head(todo[c])>>
    BY <2>1
  <2>3. prompts[n] = 0
    BY <2>1, <2>2 DEF Unprompted
  <2>4. prompts' = [prompts EXCEPT ![n] = @ + 1] \/ UNCHANGED prompts
    BY <1>4, <2>2 DEF Prompt
  <2>5. prompts[n] + 1 = 1 /\ \A m \in Notifs : prompts[m] \in Nat
    BY <2>3
  <2>6. CASE prompts' = [prompts EXCEPT ![n] = @ + 1]
    <3>1. ASSUME NEW m \in Notifs PROVE prompts'[m] <= 1
      <4>1. CASE m = n
        BY <2>3, <2>6, <4>1
      <4>2. CASE m # n
        <5>1. prompts'[m] = prompts[m]
          BY <2>6, <4>2
        <5> QED
          BY <5>1
      <4> QED
        BY <4>1, <4>2
    <3> QED
      BY <3>1
  <2> QED
    BY <2>4, <2>6
<1>5. ASSUME NEW c \in Calls, Record(c) PROVE PromptedOnce'
  BY <1>5 DEF Record, Fault, CallUnchanged, GoTo, work
<1>6. ASSUME NEW ph \in Phones, Answer(ph) PROVE PromptedOnce'
  BY <1>6 DEF Answer, tables, work
<1>7. ASSUME NEW p \in Polls, Receive(p) PROVE PromptedOnce'
  BY <1>7 DEF Receive, PollUnchanged, GoTo, sent
<1>8. ASSUME NEW p \in Polls, FindNotif(p) PROVE PromptedOnce'
  BY <1>8 DEF FindNotif, NextMessage, PollUnchanged, GoTo, sent
<1>9. ASSUME NEW p \in Polls, Mark(p) PROVE PromptedOnce'
  BY <1>9 DEF Mark, PollUnchanged, GoTo, sent
<1>10. ASSUME NEW p \in Polls, Enqueue(p) PROVE PromptedOnce'
  BY <1>10 DEF Enqueue, NextMessage, PollUnchanged, GoTo, sent
<1>11. ASSUME NEW p \in Polls, Throw(p) PROVE PromptedOnce'
  BY <1>11 DEF Throw, Fault, PollUnchanged, GoTo, sent
<1>12. ASSUME TakeJob PROVE PromptedOnce'
  BY <1>12 DEF TakeJob, WorkUnchanged
<1>13. ASSUME Summarize PROVE PromptedOnce'
  BY <1>13 DEF Summarize, WorkUnchanged
<1>14. ASSUME Deliver PROVE PromptedOnce'
  BY <1>14 DEF Deliver, WorkUnchanged
<1>15. ASSUME Store PROVE PromptedOnce'
  BY <1>15 DEF Store, Fault, WorkUnchanged
<1>16. ASSUME Finish PROVE PromptedOnce'
  BY <1>16 DEF Finish, Conclude, Fault, WorkUnchanged
<1>17. ASSUME FailJob PROVE PromptedOnce'
  BY <1>17 DEF FailJob, Conclude, Fault, WorkUnchanged
<1>18. ASSUME Crash PROVE PromptedOnce'
  BY <1>18 DEF Crash, Fault, tables
<1>19. CASE UNCHANGED vars
  BY <1>19 DEF vars, tables, work, sent
<1> QED
  BY <1>1, <1>2, <1>3, <1>4, <1>5, <1>6, <1>7, <1>8, <1>9, <1>10, <1>11, <1>12, <1>13,
       <1>14, <1>15, <1>16, <1>17, <1>18, <1>19 DEF Next

-----------------------------------------------------------------------------
(* Theorems                                                                *)

\* Nothing has happened yet.
LEMMA InitInvariant == Init => IInv /\ OneCall /\ Unprompted /\ PromptedOnce
<1> SUFFICES ASSUME Init PROVE IInv /\ OneCall /\ Unprompted /\ PromptedOnce
  OBVIOUS
<1> USE DEF Init
<1>1. TypeOK
  BY DEF TypeOK, Status
<1>2. CallsPrompt /\ PollsPoll /\ WorkerInOrder /\ DoneIsStored
  BY DEF CallsPrompt, PollsPoll, WorkerInOrder, DoneIsStored
<1>4. OwedToFaults
  <2>1. Owed = {}
    BY DEF Owed, TakenForSent
  <2> QED
    BY <2>1, FS_EmptySet DEF OwedToFaults
<1>3. OneCall /\ Unprompted /\ PromptedOnce
  BY DEF OneCall, Prompting, Unprompted, PromptedOnce
<1> QED
  BY <1>1, <1>2, <1>3, <1>4 DEF IInv

\* Types, the places of calls and polls, and the order of the worker's steps are
\* inductive together.
THEOREM Invariance == Spec => []IInv
<1>1. Init => IInv
  BY InitInvariant
<1>2. ASSUME IInv, [Next]_vars PROVE IInv'
  <2>1. TypeOK'
    BY <1>2, TypeParts, TablesTyped, WorkTyped, PlacesTyped, InputsTyped, FoundTyped,
       CountsTyped DEF IInv, TypeOK, TablesOK, WorkOK, PlacesOK, InputsOK, FoundOK, CountsOK
  <2>2. CallsPrompt' /\ PollsPoll'
    BY <1>2, TypeParts, CallsStep, PollsStep DEF IInv
  <2>3. WorkerInOrder' /\ DoneIsStored'
    BY <1>2, OrderStep, DoneStep DEF IInv
  <2>4. OwedToFaults'
    BY <1>2, TypeParts, OwedToFaultsStep DEF IInv
  <2> QED
    BY <2>1, <2>2, <2>3, <2>4 DEF IInv
<1>3. IInv /\ [Next]_vars => IInv'
  BY <1>2
<1> QED
  BY <1>1, <1>3, PTL DEF Spec

\* Every variable keeps its type.
THEOREM TypeCorrect == Spec => []TypeOK
<1>1. IInv => TypeOK
  BY DEF IInv
<1> QED
  BY <1>1, Invariance, PTL

\* "done" in the notification log is written by the worker that has stored the
\* summary; a swallowed failure of the sending leaves one row "done" without a
\* summary sent, and nothing else does, whatever crashes or is run again.
THEOREM DoneAccounted == Spec => []DoneIsAccounted
<1>1. ASSUME IInv PROVE DoneIsAccounted
  <2> DEFINE Unsent == {n \in Notifs : status[n] = "done" /\ summaries[n] = 0}
  <2>1. Unsent \subseteq Owed
    BY DEF Owed, TakenForSent
  <2>2. IsFiniteSet(Owed)
    BY <1>1 DEF IInv, OwedToFaults
  <2>3. /\ Cardinality(Unsent) <= Cardinality(Owed)
        /\ Cardinality(Unsent) \in Nat /\ Cardinality(Owed) \in Nat
    BY <2>1, <2>2, FS_Subset, FS_CardinalityType
  <2>4. faults \in Nat /\ Cardinality(Owed) <= faults
    BY <1>1, TypeParts DEF IInv, OwedToFaults, CountsOK
  <2>5. Cardinality(Unsent) <= faults
    BY <2>3, <2>4
  <2> QED
    BY <1>1, <2>5 DEF IInv, DoneIsStored, DoneIsAccounted
<1> QED
  BY <1>1, Invariance, PTL

\* A user whose two phone numbers differ is prompted once on each of them,
\* however often and however concurrently Paperless reports the document.
THEOREM OnePrompt == ASSUME PhonesDiffer PROVE Spec => []PromptedOnce
<1> DEFINE Inv == IInv /\ OneCall /\ Unprompted /\ PromptedOnce
<1>1. Init => Inv
  BY InitInvariant
<1>2. ASSUME Inv, IInv', [Next]_vars PROVE Inv'
  <2>1. TypeOK /\ PlacesOK /\ InputsOK /\ CountsOK /\ CallsPrompt
    BY <1>2, TypeParts DEF IInv
  <2> QED
    BY <1>2, <2>1, PhonesDiffer, OneCallStep, UnpromptedStep, OnceStep
<1>3. Inv /\ IInv' /\ [Next]_vars => Inv'
  BY <1>2
<1>4. Inv => PromptedOnce
  OBVIOUS
<1> QED
  BY <1>1, <1>3, <1>4, Invariance, PTL DEF Spec

-----------------------------------------------------------------------------
(* Every summary was asked for                                             *)

\* A poll prepares the job of the phone whose approval it handles.
FoundIsAsked == \A p \in Polls : at[p] \in {"mark", "enqueue"} => found[p][2] = Head(batch[p])

\* The approvals of a phone that may still lead to a summary: jobs that wait, the one
\* whose summary is being made, approvals received and approvals in signal-api.
JobsOf(ph) == {j \in Job : j.notif[2] = ph}
InHand(ph) == IF step \in {"summarize", "deliver"} /\ job.notif[2] = ph THEN 1 ELSE 0
Ahead(ph) ==
    Occurs(queue, JobsOf(ph)) + InHand(ph) + InBatches(batch, Polls, {ph}) + Occurs(inbox, {ph})

AskedFor ==
    \A ph \in Phones : SumOf(summaries, OfPhone(ph)) + Ahead(ph) <= answers[ph] + reruns

\* A phone has finitely many notifications, as there are finitely many documents.
LEMMA FiniteOfPhone == ASSUME NEW ph \in Phones PROVE IsFiniteSet(OfPhone(ph))
<1>1. IsFiniteSet(Docs \X {ph})
  BY SummaryAssumption, FS_Singleton, FS_Product
<1>2. OfPhone(ph) \subseteq Docs \X {ph}
  BY NotifFacts DEF OfPhone
<1> QED
  BY <1>1, <1>2, FS_Subset

\* SumOf is the sum of CommonLemmas.
LEMMA SumIsTotal == \A f, S : SumOf(f, S) = Total(f, S)
<1> SUFFICES ASSUME NEW f, NEW S PROVE SumOf(f, S) = Total(f, S)
  OBVIOUS
<1> QED
  BY DEF SumOf, Total

\* All amounts are numbers.
LEMMA Amounts ==
    ASSUME WorkOK, InputsOK, CountsOK, NEW ph \in Phones
    PROVE  /\ SumOf(summaries, OfPhone(ph)) \in Nat
           /\ Occurs(queue, JobsOf(ph)) \in Nat
           /\ InHand(ph) \in Nat
           /\ InBatches(batch, Polls, {ph}) \in Nat
           /\ Occurs(inbox, {ph}) \in Nat
           /\ answers[ph] \in Nat /\ reruns \in Nat
<1>1. SumOf(summaries, OfPhone(ph)) \in Nat
  <2>1. \A n \in OfPhone(ph) : summaries[n] \in Nat /\ summaries[n] = summaries[n]
    BY DEF OfPhone, CountsOK
  <2> QED
    BY <2>1, FiniteOfPhone, TotalOfSame, SumIsTotal
<1>2. Occurs(queue, JobsOf(ph)) \in Nat /\ Occurs(inbox, {ph}) \in Nat
  BY OccursIsNat DEF WorkOK, InputsOK
<1>3. InBatches(batch, Polls, {ph}) \in Nat
  BY InBatchesIsNat, SummaryAssumption DEF InputsOK
<1>4. InHand(ph) \in Nat
  BY DEF InHand
<1> QED
  BY <1>1, <1>2, <1>3, <1>4 DEF CountsOK

\* A poll is given another batch.
LEMMA BatchSwapped ==
    ASSUME InputsOK, NEW p \in Polls, NEW V,
           \A q \in Polls : batch'[q] \in Seq(Phones),
           \A q \in Polls \ {p} : batch'[q] = batch[q]
    PROVE  /\ InBatches(batch, Polls, V) \in Nat /\ InBatches(batch', Polls, V) \in Nat
           /\ Occurs(batch[p], V) \in Nat /\ Occurs(batch'[p], V) \in Nat
           /\ InBatches(batch', Polls, V) + Occurs(batch[p], V) =
                 InBatches(batch, Polls, V) + Occurs(batch'[p], V)
<1>1. \A q \in Polls : batch[q] \in Seq(Phones) /\ batch'[q] \in Seq(Phones)
  BY DEF InputsOK
<1>2. \A q \in Polls : Occurs(batch[q], V) \in Nat /\ Occurs(batch'[q], V) \in Nat
  BY <1>1, OccursIsNat
<1>3. IsFiniteSet(Polls)
  BY SummaryAssumption
<1>4. /\ InBatches(batch, Polls, V) \in Nat /\ InBatches(batch', Polls, V) \in Nat
      /\ InBatches(batch', Polls, V) + Occurs(batch[p], V) =
            InBatches(batch, Polls, V) + Occurs(batch'[p], V)
  BY <1>2, <1>3, BatchReplaced
<1> QED
  BY <1>2, <1>4

\* The approval a poll handles is the first of its batch.
LEMMA FirstOfBatch ==
    ASSUME InputsOK, PlacesOK, NEW p \in Polls, at[p] # "idle", NEW ph \in Phones,
           NEW one, one = IF Head(batch[p]) = ph THEN 1 ELSE 0
    PROVE  /\ Tail(batch[p]) \in Seq(Phones)
           /\ Occurs(batch[p], {ph}) = Occurs(Tail(batch[p]), {ph}) + one
<1>1. batch[p] \in Seq(Phones) /\ batch[p] # <<>>
  BY DEF InputsOK, PlacesOK
<1>2. Tail(batch[p]) \in Seq(Phones)
  BY <1>1, TailFacts
<1>3. Occurs(batch[p], {ph}) = Occurs(Tail(batch[p]), {ph}) + (IF Head(batch[p]) \in {ph} THEN 1 ELSE 0)
  BY <1>1, OccursInTail
<1>4. (IF Head(batch[p]) \in {ph} THEN 1 ELSE 0) = one
  OBVIOUS
<1> QED
  BY <1>2, <1>3, <1>4

\* A poll is done with a message.
LEMMA BatchGoesOn ==
    ASSUME InputsOK, PlacesOK, NEW p \in Polls, at[p] # "idle", NEW ph \in Phones,
           NextMessage(p), NEW one, one = IF Head(batch[p]) = ph THEN 1 ELSE 0
    PROVE  /\ InBatches(batch', Polls, {ph}) \in Nat
           /\ InBatches(batch, Polls, {ph}) = InBatches(batch', Polls, {ph}) + one
<1> DEFINE was == InBatches(batch, Polls, {ph})
           is == InBatches(batch', Polls, {ph})
           left == Occurs(Tail(batch[p]), {ph})
           all == Occurs(batch[p], {ph})
<1>1. Tail(batch[p]) \in Seq(Phones) /\ all = left + one
  BY FirstOfBatch
<1>2. /\ batch'[p] = Tail(batch[p])
      /\ \A q \in Polls : batch'[q] \in Seq(Phones)
      /\ \A q \in Polls \ {p} : batch'[q] = batch[q]
  BY NextMessageFacts DEF NextMessage, InputsOK
<1>3. was \in Nat /\ is \in Nat /\ all \in Nat /\ left \in Nat /\ is + all = was + left
  BY <1>2, BatchSwapped
<1>4. one \in {0, 1}
  OBVIOUS
<1> HIDE DEF was, is, left, all
<1>5. was = is + one
  BY <1>1, <1>3, <1>4
<1> QED
  BY <1>3, <1>5 DEF was, is

\* A poll drops its batch, whose first approval was of some phone.
LEMMA BatchDropped ==
    ASSUME InputsOK, PlacesOK, NEW p \in Polls, at[p] # "idle", NEW ph \in Phones,
           batch'[p] = <<>>, \A q \in Polls \ {p} : batch'[q] = batch[q],
           NEW one, one = IF Head(batch[p]) = ph THEN 1 ELSE 0
    PROVE  /\ InBatches(batch', Polls, {ph}) \in Nat
           /\ \E rest \in Nat :
                 InBatches(batch, Polls, {ph}) = InBatches(batch', Polls, {ph}) + (one + rest)
<1> DEFINE was == InBatches(batch, Polls, {ph})
           is == InBatches(batch', Polls, {ph})
           left == Occurs(Tail(batch[p]), {ph})
           all == Occurs(batch[p], {ph})
<1>1. Tail(batch[p]) \in Seq(Phones) /\ all = left + one
  BY FirstOfBatch
<1>2. Occurs(batch'[p], {ph}) = 0 /\ \A q \in Polls : batch'[q] \in Seq(Phones)
  <2>1. <<>> \in Seq(Phones) /\ \A q \in Polls : batch[q] \in Seq(Phones)
    BY DEF InputsOK
  <2> QED
    BY <2>1, OccursInEmpty
<1>3. was \in Nat /\ is \in Nat /\ is + all = was + 0
  BY <1>2, BatchSwapped
<1>4. one \in {0, 1} /\ left \in Nat
  BY <1>1, OccursIsNat
<1> HIDE DEF was, is, left, all
<1>5. was = is + (one + left)
  BY <1>1, <1>3, <1>4
<1> QED
  BY <1>3, <1>4, <1>5 DEF was, is

\* Before a job is queued its approval is there, and afterwards the job.
LEMMA JobQueued ==
    ASSUME WorkOK, FoundOK, NEW p \in Polls, at[p] = "enqueue", NEW ph \in Phones,
           queue' = Append(queue, [notif |-> found[p], reruns |-> 0])
    PROVE  Occurs(queue', JobsOf(ph)) =
               Occurs(queue, JobsOf(ph)) + (IF found[p][2] = ph THEN 1 ELSE 0)
<1>1. [notif |-> found[p], reruns |-> 0] \in Job
  BY DEF FoundOK, Job
<1>2. [notif |-> found[p], reruns |-> 0] \in JobsOf(ph) <=> found[p][2] = ph
  BY <1>1 DEF JobsOf
<1>3. queue \in Seq(Job)
  BY DEF WorkOK
<1> QED
  BY <1>1, <1>2, <1>3, OccursInAppend

LEMMA AskedForStep ==
    ASSUME TablesOK, WorkOK, PlacesOK, InputsOK, FoundOK, CountsOK, PollsPoll,
           FoundIsAsked, AskedFor, [Next]_vars
    PROVE  AskedFor'
<1> SUFFICES ASSUME NEW ph \in Phones
             PROVE  SumOf(summaries', OfPhone(ph)) + Ahead(ph)' <= answers'[ph] + reruns'
  BY DEF AskedFor
<1> DEFINE told == SumOf(summaries, OfPhone(ph))
           queued == Occurs(queue, JobsOf(ph))
           hand == InHand(ph)
           received == InBatches(batch, Polls, {ph})
           arrived == Occurs(inbox, {ph})
<1>a. told + (queued + hand + received + arrived) <= answers[ph] + reruns
  BY DEF AskedFor, Ahead
<1>b. /\ told \in Nat /\ queued \in Nat /\ hand \in Nat /\ received \in Nat /\ arrived \in Nat
      /\ answers[ph] \in Nat /\ reruns \in Nat
  BY Amounts
<1>c. SUFFICES told' + (queued' + hand' + received' + arrived') <= answers'[ph] + reruns'
  BY DEF Ahead
<1>d. UNCHANGED <<summaries, queue, job, step, batch, inbox, answers, reruns>> =>
          told' + (queued' + hand' + received' + arrived') <= answers'[ph] + reruns'
  BY <1>a DEF InHand
<1>1. ASSUME NEW c \in Calls, onConsumed(c) \/ InsertDoc(c) \/ FindPhones(c) \/ Prompt(c) \/ Record(c)
      PROVE  UNCHANGED <<summaries, queue, job, step, batch, inbox, answers, reruns>>
  BY <1>1 DEF onConsumed, InsertDoc, FindPhones, Prompt, Record, CallUnchanged, work
<1>2. ASSUME NEW sender \in Phones, Answer(sender)
      PROVE  told' + (queued' + hand' + received' + arrived') <= answers'[ph] + reruns'
  <2>1. UNCHANGED <<summaries, queue, job, step, batch, reruns>>
    BY <1>2 DEF Answer, tables, work
  <2>2. answers'[ph] = answers[ph] + (IF sender = ph THEN 1 ELSE 0)
    BY <1>2 DEF Answer, CountsOK
  <2>3. arrived' = arrived + (IF sender \in {ph} THEN 1 ELSE 0)
    BY <1>2, OccursInAppend DEF Answer, InputsOK
  <2>4. told' = told /\ queued' = queued /\ hand' = hand /\ received' = received
    BY <2>1 DEF InHand
  <2> HIDE DEF told, queued, hand, received, arrived
  <2> QED
    BY <1>a, <1>b, <2>1, <2>2, <2>3, <2>4
<1>3. ASSUME NEW p \in Polls, Receive(p)
      PROVE  told' + (queued' + hand' + received' + arrived') <= answers'[ph] + reruns'
  <2>1. UNCHANGED <<summaries, queue, job, step, answers, reruns>>
    BY <1>3 DEF Receive, PollUnchanged, sent
  <2>2. /\ batch[p] = <<>> /\ batch'[p] = inbox /\ inbox' = <<>>
        /\ \A q \in Polls : batch'[q] \in Seq(Phones)
        /\ \A q \in Polls \ {p} : batch'[q] = batch[q]
    BY <1>3 DEF Receive, PlacesOK, InputsOK
  <2>3. received' \in Nat /\ received' + Occurs(batch[p], {ph}) = received + arrived
    BY <2>2, BatchSwapped
  <2>4. Occurs(batch[p], {ph}) = 0 /\ arrived' = 0
    BY <2>2, OccursInEmpty
  <2>5. received' = received + arrived /\ arrived' = 0
    <3> HIDE DEF received, arrived
    <3> QED
      BY <1>b, <2>3, <2>4
  <2>6. told' = told /\ queued' = queued /\ hand' = hand
    BY <2>1 DEF InHand
  <2> HIDE DEF told, queued, hand, received, arrived
  <2> QED
    BY <1>a, <1>b, <2>1, <2>5, <2>6
<1>4. ASSUME NEW p \in Polls, FindNotif(p)
      PROVE  told' + (queued' + hand' + received' + arrived') <= answers'[ph] + reruns'
  <2>1. UNCHANGED <<summaries, queue, job, step, inbox, answers, reruns>> /\ at[p] # "idle"
    BY <1>4 DEF FindNotif, PollUnchanged, sent
  <2>2. CASE NextMessage(p)
    <3>1. received = received' + (IF Head(batch[p]) = ph THEN 1 ELSE 0)
      BY <2>1, <2>2, BatchGoesOn
    <3>2. received' \in Nat
      <4>1. batch' \in [Polls -> Seq(Phones)]
        BY <2>1, <2>2, NextMessageFacts
      <4> QED
        BY <4>1, InBatchesIsNat, SummaryAssumption
    <3>3. told' = told /\ queued' = queued /\ hand' = hand /\ arrived' = arrived
      BY <2>1 DEF InHand
    <3> HIDE DEF told, queued, hand, received, arrived
    <3> QED
      BY <1>a, <1>b, <2>1, <3>1, <3>2, <3>3
  <2>3. CASE UNCHANGED batch
    BY <1>d, <2>1, <2>3
  <2> QED
    BY <1>4, <2>2, <2>3 DEF FindNotif
<1>5. ASSUME NEW p \in Polls, Mark(p)
      PROVE  UNCHANGED <<summaries, queue, job, step, batch, inbox, answers, reruns>>
  BY <1>5 DEF Mark, PollUnchanged, sent
<1>6. ASSUME NEW p \in Polls, Enqueue(p)
      PROVE  told' + (queued' + hand' + received' + arrived') <= answers'[ph] + reruns'
  <2>1. UNCHANGED <<summaries, job, step, inbox, answers, reruns>> /\ at[p] = "enqueue"
    BY <1>6 DEF Enqueue, PollUnchanged, sent
  <2>2. received = received' + (IF Head(batch[p]) = ph THEN 1 ELSE 0)
    BY <1>6, <2>1, BatchGoesOn DEF Enqueue
  <2>3. received' \in Nat
    <3>1. batch' \in [Polls -> Seq(Phones)]
      BY <1>6, <2>1, NextMessageFacts DEF Enqueue
    <3> QED
      BY <3>1, InBatchesIsNat, SummaryAssumption
  <2>4. queued' = queued + (IF found[p][2] = ph THEN 1 ELSE 0)
    BY <1>6, <2>1, JobQueued DEF Enqueue
  <2>5. found[p][2] = Head(batch[p])
    BY <2>1 DEF FoundIsAsked
  <2>6. told' = told /\ hand' = hand /\ arrived' = arrived
    BY <2>1 DEF InHand
  <2> HIDE DEF told, queued, hand, received, arrived
  <2> QED
    BY <1>a, <1>b, <2>1, <2>2, <2>3, <2>4, <2>5, <2>6
<1>7. ASSUME NEW p \in Polls, Throw(p)
      PROVE  told' + (queued' + hand' + received' + arrived') <= answers'[ph] + reruns'
  <2> DEFINE one == IF Head(batch[p]) = ph THEN 1 ELSE 0
  <2>1. UNCHANGED <<summaries, job, step, inbox, answers, reruns>> /\ at[p] # "idle"
    BY <1>7 DEF Throw, PollUnchanged, sent
  <2>2. PICK rest \in Nat : received' \in Nat /\ received = received' + (one + rest)
    <3>1. batch'[p] = <<>> /\ \A q \in Polls \ {p} : batch'[q] = batch[q]
      BY <1>7 DEF Throw, InputsOK
    <3> QED
      BY <2>1, <3>1, BatchDropped
  <2>3. told' = told /\ hand' = hand /\ arrived' = arrived
    BY <2>1 DEF InHand
  <2>4. queued' = queued \/ queued' = queued + one
    <3>1. CASE queue' = queue
      BY <3>1
    <3>2. CASE at[p] = "enqueue" /\ queue' = Append(queue, [notif |-> found[p], reruns |-> 0])
      <4>1. queued' = queued + (IF found[p][2] = ph THEN 1 ELSE 0)
        BY <3>2, JobQueued
      <4>2. found[p][2] = Head(batch[p])
        BY <3>2 DEF FoundIsAsked
      <4> QED
        BY <4>1, <4>2
    <3> QED
      BY <1>7, <3>1, <3>2 DEF Throw
  <2> HIDE DEF told, queued, hand, received, arrived
  <2>5. one \in Nat
    OBVIOUS
  <2> HIDE DEF one
  <2> QED
    BY <1>a, <1>b, <2>1, <2>2, <2>3, <2>4, <2>5
<1>8. ASSUME TakeJob
      PROVE  told' + (queued' + hand' + received' + arrived') <= answers'[ph] + reruns'
  <2>1. /\ UNCHANGED <<summaries, batch, inbox, answers, reruns>>
        /\ step = "idle" /\ step' = "summarize" /\ job' = Head(queue)
        /\ queue # <<>> /\ queue' = Tail(queue) /\ queue \in Seq(Job)
    BY <1>8 DEF TakeJob, WorkUnchanged, WorkOK
  <2>2. Head(queue) \in Job /\ queue' \in Seq(Job)
    BY <2>1, TailFacts
  <2>3. queued = queued' + (IF Head(queue) \in JobsOf(ph) THEN 1 ELSE 0)
    BY <2>1, OccursInTail
  <2>4. queued' \in Nat
    BY <2>2, OccursIsNat
  <2>5. hand = 0 /\ hand' = IF Head(queue) \in JobsOf(ph) THEN 1 ELSE 0
    BY <2>1, <2>2 DEF InHand, JobsOf
  <2>6. told' = told /\ received' = received /\ arrived' = arrived
    BY <2>1
  <2> HIDE DEF told, queued, hand, received, arrived
  <2> QED
    BY <1>a, <1>b, <2>1, <2>3, <2>4, <2>5, <2>6
<1>9. ASSUME Summarize \/ Store \/ Finish \/ FailJob
      PROVE  told' + (queued' + hand' + received' + arrived') <= answers'[ph] + reruns'
  <2>1. /\ UNCHANGED <<summaries, queue, batch, inbox, answers, reruns>>
        /\ step' \in {"summarize", "deliver"} => UNCHANGED job /\ step \in {"summarize", "deliver"}
    BY <1>9 DEF Summarize, Store, Finish, FailJob, Conclude, WorkUnchanged
  <2>2. hand' \in Nat /\ hand' <= hand
    BY <2>1 DEF InHand
  <2>3. told' = told /\ queued' = queued /\ received' = received /\ arrived' = arrived
    BY <2>1
  <2> HIDE DEF told, queued, hand, received, arrived
  <2> QED
    BY <1>a, <1>b, <2>1, <2>2, <2>3
<1>10. ASSUME Deliver
       PROVE  told' + (queued' + hand' + received' + arrived') <= answers'[ph] + reruns'
  <2>1. /\ UNCHANGED <<queue, job, batch, inbox, answers, reruns>>
        /\ step = "deliver" /\ step' = "store"
        /\ \/ summaries' = [summaries EXCEPT ![job.notif] = @ + 1]
           \/ summaries' = summaries
    BY <1>10 DEF Deliver, WorkUnchanged
  <2>2. job.notif \in Notifs
    BY <2>1 DEF WorkOK, Job
  <2>3. /\ \A n \in OfPhone(ph) : summaries[n] \in Nat /\ summaries'[n] \in Nat
        /\ \A n \in OfPhone(ph) \ {job.notif} : summaries'[n] = summaries[n]
        /\ summaries'[job.notif] - summaries[job.notif] \in {0, 1}
    BY <2>1, <2>2 DEF CountsOK, OfPhone
  <2>4. Total(summaries', OfPhone(ph)) =
            Total(summaries, OfPhone(ph))
                + (IF job.notif \in OfPhone(ph) THEN summaries'[job.notif] - summaries[job.notif] ELSE 0)
    BY <2>3, FiniteOfPhone, TotalsDiffer
  <2>5. told' = told \/ told' = told + (IF job.notif \in OfPhone(ph) THEN 1 ELSE 0)
    <3>1. Total(summaries, OfPhone(ph)) \in Nat
      BY <1>b, SumIsTotal
    <3> DEFINE more == summaries'[job.notif] - summaries[job.notif]
    <3>2. more = 0 \/ more = 1
      BY <2>3
    <3>3. Total(summaries', OfPhone(ph)) = Total(summaries, OfPhone(ph))
              + (IF job.notif \in OfPhone(ph) THEN more ELSE 0)
      BY <2>4
    <3> HIDE DEF more
    <3>4. \/ Total(summaries', OfPhone(ph)) = Total(summaries, OfPhone(ph))
          \/ Total(summaries', OfPhone(ph)) = Total(summaries, OfPhone(ph))
                  + (IF job.notif \in OfPhone(ph) THEN 1 ELSE 0)
      BY <3>1, <3>2, <3>3
    <3> QED
      BY <3>4, SumIsTotal
  <2>6. hand' = 0 /\ hand = IF job.notif \in OfPhone(ph) THEN 1 ELSE 0
    BY <2>1, <2>2 DEF InHand, OfPhone
  <2>7. queued' = queued /\ received' = received /\ arrived' = arrived
    BY <2>1
  <2> HIDE DEF told, queued, hand, received, arrived
  <2> QED
    BY <1>a, <1>b, <2>1, <2>5, <2>6, <2>7
<1>11. ASSUME Crash
       PROVE  told' + (queued' + hand' + received' + arrived') <= answers'[ph] + reruns'
  <2>1. UNCHANGED <<summaries, inbox, answers>> /\ step' = "idle"
    BY <1>11 DEF Crash
  <2>2. received' = 0
    <3>1. \A p \in Polls : batch'[p] = <<>>
      BY <1>11 DEF Crash
    <3> QED
      BY <3>1, InBatchesNone, SummaryAssumption
  <2>3. told' = told /\ arrived' = arrived /\ hand' = 0
    BY <2>1 DEF InHand
  <2>4. \/ queued' = queued /\ reruns' = reruns
        \/ queued' \in {queued, queued + 1} /\ reruns' = reruns + 1
    <3>1. CASE step # "idle" /\ job.reruns = 0
      <4> DEFINE again == [job EXCEPT !.reruns = 1]
      <4>1. again \in Job /\ queue \in Seq(Job)
        BY <3>1 DEF WorkOK, Job
      <4>2. queue' = <<again>> \o queue /\ reruns' = reruns + 1
        BY <1>11, <3>1 DEF Crash
      <4> HIDE DEF again
      <4>3. queued' = queued + (IF again \in JobsOf(ph) THEN 1 ELSE 0)
        BY <4>1, <4>2, OccursInFront
      <4> QED
        BY <1>b, <4>2, <4>3
    <3>2. CASE ~(step # "idle" /\ job.reruns = 0)
      BY <1>11, <3>2 DEF Crash
    <3> QED
      BY <3>1, <3>2
  <2> HIDE DEF told, queued, hand, received, arrived
  <2> QED
    BY <1>a, <1>b, <2>1, <2>2, <2>3, <2>4
<1>12. CASE UNCHANGED vars
  BY <1>d, <1>12 DEF vars, tables, work, sent
<1> HIDE DEF told, queued, hand, received, arrived
<1> QED
  BY <1>d, <1>1, <1>2, <1>3, <1>4, <1>5, <1>6, <1>7, <1>8, <1>9, <1>10, <1>11, <1>12 DEF Next

\* FindNotif loads a notification of the phone whose approval it handles.
LEMMA FoundIsAskedStep ==
    ASSUME TablesOK, PlacesOK, InputsOK, FoundOK, FoundIsAsked, [Next]_vars
    PROVE  FoundIsAsked'
<1> USE DEF FoundIsAsked
<1>a. \A p \in Polls : p \notin Calls /\ p \in Calls \cup Polls
  BY SummaryAssumption
<1>b. UNCHANGED <<batch, found>> /\ (\A p \in Polls : at'[p] = at[p]) => FoundIsAsked'
  OBVIOUS
<1>1. ASSUME NEW c \in Calls, onConsumed(c) \/ InsertDoc(c) \/ FindPhones(c) \/ Prompt(c) \/ Record(c)
      PROVE  FoundIsAsked'
  <2>1. UNCHANGED <<batch, found>> /\ \E place : at' = [at EXCEPT ![c] = place]
    BY <1>1 DEF onConsumed, InsertDoc, FindPhones, Prompt, Record, CallUnchanged, GoTo
  <2> QED
    BY <1>a, <1>b, <2>1 DEF PlacesOK
<1>2. ASSUME NEW ph \in Phones, Answer(ph) PROVE FoundIsAsked'
  BY <1>2, <1>b DEF Answer
<1>3. ASSUME NEW p \in Polls, Receive(p) PROVE FoundIsAsked'
  BY <1>3, <1>a DEF Receive, PlacesOK, InputsOK, GoTo
<1>4. ASSUME NEW p \in Polls, FindNotif(p) PROVE FoundIsAsked'
  <2> DEFINE ph == Head(batch[p])
  <2>1. CASE Pending(ph) = {}
    <3>1. /\ UNCHANGED found /\ at[p] # "idle" /\ NextMessage(p)
      BY <1>4, <2>1 DEF FindNotif
    <3> QED
      BY <1>a, <3>1 DEF NextMessage, GoTo, PlacesOK, InputsOK
  <2>2. found \in [Polls -> Notifs \cup {<<>>}]
    BY DEF FoundOK
  <2>3. CASE Pending(ph) # {}
    <3>1. /\ UNCHANGED batch /\ at' = [at EXCEPT ![p] = "mark"]
          /\ found' = [found EXCEPT ![p] = order[Min(Pending(ph))]]
      BY <1>4, <2>3 DEF FindNotif, GoTo
    <3>2. order[Min(Pending(ph))][2] = ph
      <4>1. Pending(ph) \subseteq Nat
        BY DEF Pending
      <4>2. Min(Pending(ph)) \in Pending(ph)
        BY <2>3, <4>1, MinOfNats
      <4> QED
        BY <4>2 DEF Pending
    <3>3. SUFFICES ASSUME NEW q \in Polls, at'[q] \in {"mark", "enqueue"}
                   PROVE  found'[q][2] = Head(batch[q])
      BY <3>1
    <3>4. CASE q = p
      BY <3>1, <3>2, <3>4, <2>2
    <3>5. CASE q # p
      BY <1>a, <3>1, <3>3, <3>5, <2>2 DEF PlacesOK
    <3> QED
      BY <3>4, <3>5
  <2> QED
    BY <2>1, <2>3
<1>5. ASSUME NEW p \in Polls, Mark(p) PROVE FoundIsAsked'
  BY <1>5, <1>a DEF Mark, GoTo, PlacesOK
<1>6. ASSUME NEW p \in Polls, Enqueue(p) PROVE FoundIsAsked'
  BY <1>6, <1>a DEF Enqueue, NextMessage, GoTo, PlacesOK, InputsOK
<1>7. ASSUME NEW p \in Polls, Throw(p) PROVE FoundIsAsked'
  BY <1>7, <1>a DEF Throw, GoTo, PlacesOK, InputsOK
<1>8. ASSUME TakeJob \/ Summarize \/ Deliver \/ Store \/ Finish \/ FailJob PROVE FoundIsAsked'
  BY <1>8, <1>b DEF TakeJob, Summarize, Deliver, Store, Finish, FailJob, Conclude, WorkUnchanged
<1>9. ASSUME Crash PROVE FoundIsAsked'
  BY <1>9, <1>a DEF Crash
<1>10. CASE UNCHANGED vars
  BY <1>10, <1>b DEF vars
<1> QED
  BY <1>1, <1>2, <1>3, <1>4, <1>5, <1>6, <1>7, <1>8, <1>9, <1>10 DEF Next

\* At first there is neither an approval nor a summary.
LEMMA NothingAsked == Init => FoundIsAsked /\ AskedFor
<1> SUFFICES ASSUME Init PROVE FoundIsAsked /\ AskedFor
  OBVIOUS
<1>1. FoundIsAsked
  BY DEF Init, FoundIsAsked
<1>2. ASSUME NEW ph \in Phones
      PROVE  SumOf(summaries, OfPhone(ph)) + Ahead(ph) <= answers[ph] + reruns
  <2>1. SumOf(summaries, OfPhone(ph)) = 0
    <3>1. \A n \in OfPhone(ph) : summaries[n] = 0
      BY DEF Init, OfPhone
    <3> QED
      BY <3>1, FiniteOfPhone, TotalOfZeros, SumIsTotal
  <2>2. Occurs(queue, JobsOf(ph)) = 0 /\ Occurs(inbox, {ph}) = 0
    BY OccursInEmpty DEF Init
  <2>3. InBatches(batch, Polls, {ph}) = 0
    <3>1. IsFiniteSet(Polls) /\ \A p \in Polls : batch[p] = <<>>
      BY SummaryAssumption DEF Init
    <3> QED
      BY <3>1, InBatchesNone
  <2>4. InHand(ph) = 0 /\ answers[ph] = 0 /\ reruns = 0
    BY DEF Init, InHand
  <2> QED
    BY <2>1, <2>2, <2>3, <2>4 DEF Ahead
<1> QED
  BY <1>1, <1>2 DEF AskedFor

\* Every summary is paid for by an approval of its phone, or by a job run again after
\* a crash: no interleaving of polls, failure or crash makes two of one approval.
THEOREM OnRequest == Spec => []SummariesAskedFor
<1> DEFINE Inv == IInv /\ FoundIsAsked /\ AskedFor
<1>1. Init => Inv
  BY InitInvariant, NothingAsked
<1>2. ASSUME Inv, IInv', [Next]_vars PROVE Inv'
  <2>1. TablesOK /\ WorkOK /\ PlacesOK /\ InputsOK /\ FoundOK /\ CountsOK /\ PollsPoll
    BY <1>2, TypeParts DEF IInv
  <2> QED
    BY <1>2, <2>1, FoundIsAskedStep, AskedForStep
<1>3. Inv /\ IInv' /\ [Next]_vars => Inv'
  BY <1>2
<1>4. Inv => SummariesAskedFor
  <2> SUFFICES ASSUME Inv, NEW ph \in Phones
               PROVE  SumOf(summaries, OfPhone(ph)) <= answers[ph] + reruns
    BY DEF SummariesAskedFor
  <2>1. WorkOK /\ InputsOK /\ CountsOK
    BY TypeParts DEF IInv
  <2>2. SumOf(summaries, OfPhone(ph)) + Ahead(ph) <= answers[ph] + reruns
    BY DEF AskedFor
  <2>3. Ahead(ph) \in Nat
    BY <2>1, Amounts DEF Ahead
  <2>4. SumOf(summaries, OfPhone(ph)) \in Nat /\ answers[ph] \in Nat /\ reruns \in Nat
    BY <2>1, Amounts
  <2> QED
    BY <2>2, <2>3, <2>4
<1> QED
  BY <1>1, <1>3, <1>4, Invariance, PTL DEF Spec

-----------------------------------------------------------------------------
(* One poll at a time: a notification is handled once                      *)

\* No poll starts before the last one has ended.
OnePoll == \A p, q \in Polls : p = q

\* The steps a row of doc_notifications may take.
Forward(old, new) ==
    \/ new = old
    \/ old = "none" /\ new = "pending"
    \/ old = "pending" /\ new = "processing"
    \/ old = "processing" /\ new \in {"done", "failed"}

\* The summaries a worker that has come to step s has sent for its job.
Sent(s) == IF s \in {"store", "finish", "fail"} THEN 1 ELSE 0

\* No summary before the approval.
Fresh == \A n \in Notifs : status[n] \in {"none", "pending"} => summaries[n] = 0

\* A job is the job of a notification that is being processed, and its only one.
AtWork ==
    /\ \A i \in 1 .. Len(queue) : status[queue[i].notif] = "processing"
    /\ step # "idle" => status[job.notif] = "processing"

OneJob ==
    /\ \A i, k \in 1 .. Len(queue) : queue[i].notif = queue[k].notif => i = k
    /\ step # "idle" => \A i \in 1 .. Len(queue) : queue[i].notif # job.notif

\* The notification a poll has loaded is still pending, and then has no job yet.
Held ==
    \A p \in Polls :
        /\ at[p] = "mark" => status[found[p]] = "pending"
        /\ at[p] = "enqueue" =>
              /\ status[found[p]] = "processing"
              /\ summaries[found[p]] = 0
              /\ \A i \in 1 .. Len(queue) : queue[i].notif # found[p]
              /\ step # "idle" => job.notif # found[p]

\* A job that was run before may have sent its summary then.
Budget ==
    /\ \A i \in 1 .. Len(queue) : summaries[queue[i].notif] <= queue[i].reruns
    /\ step # "idle" => summaries[job.notif] <= job.reruns + Sent(step)

RerunsCounted ==
    reruns = 0 => /\ \A i \in 1 .. Len(queue) : queue[i].reruns = 0
                  /\ step # "idle" => job.reruns = 0

\* One summary for a notification, a second one only from a job run again.
SummarisedOnce ==
    \A n \in Notifs : summaries[n] <= 2 /\ (reruns = 0 => summaries[n] <= 1)

Handled == Fresh /\ AtWork /\ OneJob /\ Held /\ Budget /\ RerunsCounted /\ SummarisedOnce

\* The rows a call has still to insert are not there.
Unrecorded ==
    /\ \A n \in Notifs : n[1] \notin stored => status[n] = "none"
    /\ \A c \in Calls : \A n \in Notifs :
          at[c] = "owner" /\ n[1] = DocOf[c] => status[n] = "none"
    /\ \A c \in Calls : at[c] \in {"prompt", "record"} =>
          \A i \in 1 .. Len(todo[c]) : status[<<DocOf[c], todo[c][i]>>] = "none"

\* The poll p has loaded nothing new.
LetGo(p) == (at'[p] = at[p] /\ found'[p] = found[p]) \/ at'[p] \in {"idle", "next"}

\* The jobs waiting and at work.
LEMMA JobFacts ==
    ASSUME WorkOK
    PROVE  /\ \A i \in 1 .. Len(queue) : queue[i] \in Job /\ queue[i].notif \in Notifs
           /\ step # "idle" => job \in Job /\ job.notif \in Notifs /\ job.reruns \in {0, 1}
<1>1. queue \in Seq(Job) /\ Len(queue) \in Nat
  BY DEF WorkOK
<1>2. \A i \in 1 .. Len(queue) : queue[i] \in Job
  BY <1>1
<1>3. step # "idle" => job \in Job
  BY DEF WorkOK
<1> QED
  BY <1>2, <1>3 DEF Job

\* A step that touches no row, no job and no count.
LEMMA NothingMoved ==
    ASSUME Handled, UNCHANGED <<status, summaries, queue, job, step, reruns>>,
           \A p \in Polls : LetGo(p)
    PROVE  Handled'
<1>1. Fresh' /\ AtWork' /\ OneJob' /\ Budget' /\ RerunsCounted' /\ SummarisedOnce'
  BY DEF Handled, Fresh, AtWork, OneJob, Budget, RerunsCounted, SummarisedOnce
<1>2. Held'
  BY DEF Handled, Held, LetGo
<1> QED
  BY <1>1, <1>2 DEF Handled

\* A row that is inserted was not there.
LEMMA RowInserted ==
    ASSUME TablesOK, WorkOK, FoundOK, CountsOK, Handled, NEW n \in Notifs, status[n] = "none",
           status' = [status EXCEPT ![n] = "pending"],
           UNCHANGED <<summaries, queue, job, step, reruns, found>>,
           \A p \in Polls : at'[p] = at[p]
    PROVE  Handled'
<1> USE DEF TablesOK, Handled
<1>1. \A m \in Notifs : status'[m] = IF m = n THEN "pending" ELSE status[m]
  OBVIOUS
<1>2. \A m \in Notifs : status[m] # "none" => status'[m] = status[m]
  BY <1>1
<1>3. \A i \in 1 .. Len(queue) : queue[i].notif \in Notifs
  BY JobFacts
<1>4. step # "idle" => job.notif \in Notifs
  BY JobFacts
<1>5. Fresh'
  BY <1>1 DEF Fresh
<1>6. AtWork'
  BY <1>2, <1>3, <1>4 DEF AtWork
<1>7. OneJob' /\ Budget' /\ RerunsCounted' /\ SummarisedOnce'
  BY DEF OneJob, Budget, RerunsCounted, SummarisedOnce
<1>8. \A p \in Polls : at[p] \in {"mark", "enqueue"} => found[p] \in Notifs
  BY DEF FoundOK
<1>9. Held'
  BY <1>2, <1>8 DEF Held
<1> QED
  BY <1>5, <1>6, <1>7, <1>9

\* A poll loads a pending notification.
LEMMA Loaded ==
    ASSUME OnePoll, Handled, NEW p \in Polls, NEW n \in Notifs, status[n] = "pending",
           at'[p] = "mark", found'[p] = n,
           UNCHANGED <<status, summaries, queue, job, step, reruns>>
    PROVE  Handled'
<1> USE DEF Handled
<1>1. Fresh' /\ AtWork' /\ OneJob' /\ Budget' /\ RerunsCounted' /\ SummarisedOnce'
  BY DEF Fresh, AtWork, OneJob, Budget, RerunsCounted, SummarisedOnce
<1>2. \A q \in Polls : q = p
  BY DEF OnePoll
<1>3. Held'
  BY <1>2 DEF Held
<1> QED
  BY <1>1, <1>3

\* A poll marks the notification it has loaded.
LEMMA Marked ==
    ASSUME OnePoll, TablesOK, WorkOK, PlacesOK, FoundOK, Handled, NEW p \in Polls, Mark(p)
    PROVE  Handled' /\ \A n \in Notifs : Forward(status[n], status'[n])
<1> USE DEF TablesOK, Handled
<1>1. PICK n \in Notifs : n = found[p] /\ status[n] = "pending"
  BY DEF Mark, FoundOK, Held
<1>2. \A m \in Notifs : status'[m] = IF m = n THEN "processing" ELSE status[m]
  BY <1>1 DEF Mark
<1>3. UNCHANGED <<summaries, queue, job, step, reruns, found>>
  BY DEF Mark, PollUnchanged, sent
<1>4. \A i \in 1 .. Len(queue) : queue[i].notif \in Notifs /\ queue[i].notif # n
  BY <1>1, JobFacts DEF AtWork
<1>5. step # "idle" => job.notif \in Notifs /\ job.notif # n
  BY <1>1, JobFacts DEF AtWork
<1>6. Fresh'
  BY <1>2, <1>3 DEF Fresh
<1>7. AtWork'
  BY <1>2, <1>3, <1>4, <1>5 DEF AtWork
<1>8. OneJob' /\ Budget' /\ RerunsCounted' /\ SummarisedOnce'
  BY <1>3 DEF OneJob, Budget, RerunsCounted, SummarisedOnce
<1>9. at' = [at EXCEPT ![p] = "enqueue"]
  BY DEF Mark, GoTo
<1>10. \A q \in Polls : q = p
  BY DEF OnePoll
<1>11. summaries[n] = 0
  BY <1>1 DEF Fresh
<1>12. Held'
  <2>1. at'[p] = "enqueue"
    BY <1>9 DEF PlacesOK
  <2>2. status'[n] = "processing" /\ found'[p] = n
    BY <1>1, <1>2, <1>3
  <2> QED
    BY <1>3, <1>4, <1>5, <1>10, <1>11, <2>1, <2>2 DEF Held
<1>13. \A m \in Notifs : Forward(status[m], status'[m])
  BY <1>1, <1>2 DEF Forward
<1> QED
  BY <1>6, <1>7, <1>8, <1>12, <1>13

\* A poll queues the job of the notification it has marked.
LEMMA Queued ==
    ASSUME OnePoll, TablesOK, WorkOK, FoundOK, CountsOK, Handled, NEW p \in Polls, at[p] = "enqueue",
           queue' = Append(queue, [notif |-> found[p], reruns |-> 0]),
           at'[p] \in {"idle", "next"},
           UNCHANGED <<status, summaries, job, step, reruns>>
    PROVE  Handled'
<1> USE DEF Handled
<1>1. PICK n \in Notifs :
          /\ n = found[p] /\ status[n] = "processing" /\ summaries[n] = 0
          /\ \A i \in 1 .. Len(queue) : queue[i].notif # n
          /\ step # "idle" => job.notif # n
  BY DEF FoundOK, Held
<1>2. PICK j \in Job : j = [notif |-> n, reruns |-> 0]
  BY DEF Job
<1>3. j.notif = n /\ j.reruns = 0 /\ queue' = Append(queue, j)
  BY <1>1, <1>2
<1>4. queue \in Seq(Job) /\ Len(queue) \in Nat
  BY DEF WorkOK
<1>5. /\ Len(queue') = Len(queue) + 1 /\ queue'[Len(queue) + 1] = j
      /\ \A i \in 1 .. Len(queue) : queue'[i] = queue[i]
  BY <1>3, <1>4, AppendProperties
<1>6. \A i \in 1 .. Len(queue') :
          (i \in 1 .. Len(queue) /\ queue'[i] = queue[i]) \/ (i = Len(queue) + 1 /\ queue'[i] = j)
  BY <1>4, <1>5
<1>7. Fresh' /\ SummarisedOnce'
  BY DEF Fresh, SummarisedOnce
<1>8. AtWork'
  BY <1>1, <1>3, <1>6 DEF AtWork
<1>9. OneJob'
  <2>1. ASSUME NEW i \in 1 .. Len(queue'), NEW k \in 1 .. Len(queue'),
               queue'[i].notif = queue'[k].notif
        PROVE  i = k
    BY <1>1, <1>3, <1>6, <2>1 DEF OneJob
  <2>2. step # "idle" => \A i \in 1 .. Len(queue') : queue'[i].notif # job.notif
    BY <1>1, <1>3, <1>6 DEF OneJob
  <2> QED
    BY <2>1, <2>2 DEF OneJob
<1>10. Budget'
  <2>1. ASSUME NEW i \in 1 .. Len(queue') PROVE summaries[queue'[i].notif] <= queue'[i].reruns
    <3>1. CASE queue'[i] = j
      BY <1>1, <1>3, <3>1
    <3>2. CASE i \in 1 .. Len(queue) /\ queue'[i] = queue[i]
      BY <3>2 DEF Budget
    <3> QED
      BY <1>6, <3>1, <3>2
  <2> QED
    BY <2>1 DEF Budget
<1>11. RerunsCounted'
  BY <1>3, <1>6 DEF RerunsCounted
<1>12. Held'
  <2>1. \A q \in Polls : q = p
    BY DEF OnePoll
  <2> QED
    BY <2>1 DEF Held
<1> QED
  BY <1>7, <1>8, <1>9, <1>10, <1>11, <1>12

\* The worker takes the first job.
LEMMA Taken ==
    ASSUME TablesOK, WorkOK, Handled, TakeJob
    PROVE  Handled'
<1> USE DEF Handled
<1>1. /\ step = "idle" /\ queue # <<>> /\ queue \in Seq(Job) /\ step' = "summarize"
      /\ UNCHANGED <<status, summaries, reruns, at, found>>
      /\ job' = Head(queue) /\ queue' = Tail(queue)
  BY DEF TakeJob, WorkUnchanged, WorkOK
<1>2. /\ Head(queue) = queue[1] /\ Len(queue) \in Nat \ {0} /\ Len(Tail(queue)) = Len(queue) - 1
      /\ \A i \in 1 .. Len(Tail(queue)) : Tail(queue)[i] = queue[i + 1]
  BY <1>1, TailFacts
<1>3. job' = queue[1] /\ 1 \in 1 .. Len(queue)
  BY <1>1, <1>2
<1>4. \A i \in 1 .. Len(queue') : i + 1 \in 1 .. Len(queue) /\ queue'[i] = queue[i + 1] /\ i \in Nat
  BY <1>1, <1>2
<1>5. Fresh' /\ SummarisedOnce'
  BY <1>1 DEF Fresh, SummarisedOnce
<1>6. AtWork'
  BY <1>1, <1>3, <1>4 DEF AtWork
<1>7. OneJob'
  <2>1. ASSUME NEW i \in 1 .. Len(queue'), NEW k \in 1 .. Len(queue'),
               queue'[i].notif = queue'[k].notif
        PROVE  i = k
    <3>1. i + 1 = k + 1
      BY <1>4, <2>1 DEF OneJob
    <3> QED
      BY <1>4, <3>1
  <2>2. ASSUME NEW i \in 1 .. Len(queue') PROVE queue'[i].notif # job'.notif
    <3>1. i + 1 # 1
      BY <1>4
    <3> QED
      BY <1>3, <1>4, <3>1 DEF OneJob
  <2> QED
    BY <2>1, <2>2 DEF OneJob
<1>8. Budget'
  <2>1. summaries[job'.notif] <= job'.reruns
    BY <1>3 DEF Budget
  <2>2. job' \in Job
    BY <1>1, <1>3
  <2>3. job'.reruns + Sent(step') = job'.reruns
    BY <1>1, <2>2 DEF Sent, Job
  <2>4. \A i \in 1 .. Len(queue') : summaries[queue'[i].notif] <= queue'[i].reruns
    BY <1>4 DEF Budget
  <2> QED
    BY <1>1, <2>1, <2>3, <2>4 DEF Budget
<1>9. RerunsCounted'
  BY <1>1, <1>3, <1>4 DEF RerunsCounted
<1>10. Held'
  BY <1>1, <1>3, <1>4 DEF Held
<1> QED
  BY <1>5, <1>6, <1>7, <1>8, <1>9, <1>10

\* The worker goes on with its job, or leaves it: the summary is the only one.
LEMMA Worked ==
    ASSUME TablesOK, WorkOK, FoundOK, CountsOK, Handled, Summarize \/ Deliver \/ Store
    PROVE  Handled'
<1> USE DEF Handled
<1>1. /\ step # "idle" /\ step' # "idle"
      /\ UNCHANGED <<status, reruns, at, found, queue, job>>
  BY DEF Summarize, Deliver, Store, WorkUnchanged
<1>2. PICK n \in Notifs : n = job.notif
  BY <1>1, JobFacts
<1>3. job.reruns \in {0, 1}
  BY <1>1, JobFacts
<1>4. \/ Sent(step') >= Sent(step) /\ Sent(step) \in Nat /\ Sent(step') \in Nat /\ UNCHANGED summaries
      \/ /\ Sent(step) = 0 /\ Sent(step') = 1
         /\ \A m \in Notifs : summaries'[m] = IF m = n THEN summaries[m] + 1 ELSE summaries[m]
  <2>1. CASE Summarize
    BY <2>1 DEF Summarize, Sent
  <2>2. CASE Deliver
    <3>1. Sent(step) = 0 /\ Sent(step') = 1
      BY <2>2 DEF Deliver, Sent
    <3>2. CASE summaries' = [summaries EXCEPT ![job.notif] = @ + 1]
      BY <1>2, <3>1, <3>2 DEF CountsOK
    <3>3. CASE UNCHANGED summaries
      BY <3>1, <3>3
    <3> QED
      BY <2>2, <3>2, <3>3 DEF Deliver
  <2>3. CASE Store
    BY <2>3 DEF Store, Sent
  <2> QED
    BY <2>1, <2>2, <2>3
<1>5. \A m \in Notifs : summaries[m] \in Nat
  BY DEF CountsOK
<1>6. summaries[n] <= job.reruns + Sent(step)
  BY <1>1, <1>2 DEF Budget
<1>7. summaries'[n] <= job.reruns + Sent(step')
  BY <1>3, <1>4, <1>5, <1>6
<1>8. \A m \in Notifs : m # n => summaries'[m] = summaries[m]
  BY <1>4
<1>9. \A i \in 1 .. Len(queue) : queue[i].notif \in Notifs /\ queue[i].notif # n
  BY <1>1, <1>2, JobFacts DEF OneJob
<1>10. Fresh'
  BY <1>1, <1>2, <1>8 DEF Fresh, AtWork
<1>11. AtWork' /\ OneJob' /\ RerunsCounted'
  BY <1>1 DEF AtWork, OneJob, RerunsCounted
<1>12. Budget'
  BY <1>1, <1>2, <1>7, <1>8, <1>9 DEF Budget
<1>13. SummarisedOnce'
  <2>1. Sent(step') \in {0, 1}
    BY DEF Sent
  <2>2. summaries'[n] \in Nat
    BY <1>4, <1>5
  <2>3. summaries'[n] <= 2
    BY <1>3, <1>7, <2>1, <2>2
  <2>4. reruns = 0 => summaries'[n] <= 1
    <3>1. reruns = 0 => job.reruns = 0
      BY <1>1 DEF RerunsCounted
    <3> QED
      BY <1>7, <2>1, <2>2, <3>1
  <2> QED
    BY <1>1, <1>8, <2>3, <2>4 DEF SummarisedOnce
<1>14. Held'
  <2>1. ASSUME NEW p \in Polls, at[p] = "enqueue" PROVE found[p] \in Notifs => summaries'[found[p]] = 0
    BY <1>1, <1>2, <1>8, <2>1 DEF Held
  <2>2. ASSUME NEW p \in Polls, at[p] = "enqueue" PROVE found[p] \in Notifs
    BY <2>2 DEF FoundOK
  <2> QED
    BY <1>1, <2>1, <2>2 DEF Held
<1> QED
  BY <1>10, <1>11, <1>12, <1>13, <1>14

\* The worker writes the result of its job.
LEMMA Concluded ==
    ASSUME TablesOK, WorkOK, FoundOK, Handled, Finish \/ FailJob
    PROVE  Handled' /\ \A n \in Notifs : Forward(status[n], status'[n])
<1> USE DEF Handled
<1>1. PICK result \in {"done", "failed"} : step \in {"finish", "fail"} /\ Conclude(result)
  BY DEF Finish, FailJob
<1>2. UNCHANGED <<summaries, queue, reruns, at, found>>
  BY <1>1 DEF Conclude, WorkUnchanged
<1>3. PICK n \in Notifs : n = job.notif /\ status[n] = "processing"
  BY <1>1, JobFacts DEF AtWork
<1>4. \/ step' = "idle"
      \/ step' = "fail" /\ UNCHANGED <<job, status>>
  BY <1>1 DEF Conclude, Fault
<1>5. UNCHANGED status \/ status' = [status EXCEPT ![n] = result]
  BY <1>1, <1>3 DEF Conclude
<1>6. \A m \in Notifs :
          /\ m # n => status'[m] = status[m]
          /\ status'[n] \in {"processing", result}
  BY <1>3, <1>5 DEF TablesOK
<1>7. \A i \in 1 .. Len(queue) : queue[i].notif \in Notifs /\ queue[i].notif # n
  BY <1>1, <1>3, JobFacts DEF OneJob
<1>8. Fresh'
  <2>1. \A m \in Notifs : status'[m] \in {"none", "pending"} => status[m] \in {"none", "pending"}
    BY <1>1, <1>6
  <2> QED
    BY <1>2, <2>1 DEF Fresh
<1>9. AtWork'
  <2>1. \A i \in 1 .. Len(queue) : status'[queue[i].notif] = "processing"
    BY <1>6, <1>7 DEF AtWork
  <2>2. step' # "idle" => status'[job'.notif] = "processing"
    BY <1>3, <1>4
  <2> QED
    BY <1>2, <2>1, <2>2 DEF AtWork
<1>10. step' # "idle" => step # "idle" /\ UNCHANGED job /\ Sent(step') = Sent(step)
  BY <1>1, <1>4 DEF Sent
<1>11. OneJob' /\ Budget' /\ RerunsCounted' /\ SummarisedOnce'
  BY <1>2, <1>10 DEF OneJob, Budget, RerunsCounted, SummarisedOnce
<1>12. Held'
  <2>1. ASSUME NEW p \in Polls, at[p] \in {"mark", "enqueue"}
        PROVE  found[p] \in Notifs /\ found[p] # n
    BY <1>1, <1>3, <2>1 DEF Held, FoundOK
  <2>2. ASSUME NEW p \in Polls, at[p] \in {"mark", "enqueue"}
        PROVE  status'[found[p]] = status[found[p]]
    BY <1>6, <2>1, <2>2
  <2> QED
    BY <1>2, <1>10, <2>2 DEF Held
<1>13. \A m \in Notifs : Forward(status[m], status'[m])
  BY <1>3, <1>6 DEF Forward
<1> QED
  BY <1>8, <1>9, <1>11, <1>12, <1>13

\* After a crash the job that was active is run again, once, before the others.
LEMMA RunAgain ==
    ASSUME TablesOK, WorkOK, PlacesOK, CountsOK, Handled, Crash
    PROVE  Handled'
<1> USE DEF Handled
<1>1. /\ UNCHANGED <<status, summaries>> /\ step' = "idle"
      /\ \A p \in Polls : at'[p] = "idle"
  BY SummaryAssumption DEF Crash, tables
<1>2. Fresh' /\ Held'
  BY <1>1 DEF Fresh, Held
<1>3. CASE ~(step # "idle" /\ job.reruns = 0)
  <2>1. UNCHANGED <<queue, reruns>>
    BY <1>3 DEF Crash
  <2>2. AtWork' /\ OneJob' /\ Budget' /\ RerunsCounted' /\ SummarisedOnce'
    BY <1>1, <2>1 DEF AtWork, OneJob, Budget, RerunsCounted, SummarisedOnce
  <2> QED
    BY <1>2, <2>2
<1>4. CASE step # "idle" /\ job.reruns = 0
  <2>1. job \in Job /\ job.notif \in Notifs
    BY <1>4, JobFacts
  <2>2. PICK j \in Job : j = [job EXCEPT !.reruns = 1]
    BY <2>1 DEF Job
  <2>3. j.notif = job.notif /\ j.reruns = 1
    BY <2>1, <2>2 DEF Job
  <2>4. queue' = <<j>> \o queue /\ reruns' = reruns + 1 /\ queue \in Seq(Job) /\ Len(queue) \in Nat
    BY <1>4, <2>2 DEF Crash, WorkOK
  <2>5. \A i \in 1 .. Len(queue') :
            \/ i = 1 /\ queue'[i] = j
            \/ i - 1 \in 1 .. Len(queue) /\ i \in Nat /\ queue'[i] = queue[i - 1]
    BY <2>4
  <2>6. AtWork'
    BY <1>1, <1>4, <2>3, <2>5 DEF AtWork
  <2>7. OneJob'
    <3>1. ASSUME NEW i \in 1 .. Len(queue'), NEW k \in 1 .. Len(queue'),
                 queue'[i].notif = queue'[k].notif
          PROVE  i = k
      <4>1. \A l \in 1 .. Len(queue') : queue'[l].notif = job.notif => l = 1
        BY <1>4, <2>5 DEF OneJob
      <4>2. CASE i = 1
        <5>1. queue'[k].notif = job.notif
          BY <2>3, <2>5, <3>1, <4>2
        <5> QED
          BY <4>1, <4>2, <5>1
      <4>3. CASE k = 1
        <5>1. queue'[i].notif = job.notif
          BY <2>3, <2>5, <3>1, <4>3
        <5> QED
          BY <4>1, <4>3, <5>1
      <4>4. CASE i # 1 /\ k # 1
        <5>1. i - 1 = k - 1
          BY <2>5, <3>1, <4>4 DEF OneJob
        <5> QED
          BY <2>5, <4>4, <5>1
      <4> QED
        BY <4>2, <4>3, <4>4
    <3> QED
      BY <1>1, <3>1 DEF OneJob
  <2>8. Budget'
    <3>1. summaries[j.notif] <= j.reruns
      <4>1. Sent(step) \in {0, 1}
        BY DEF Sent
      <4>2. summaries[job.notif] \in Nat /\ summaries[job.notif] <= 0 + Sent(step)
        BY <1>4, <2>1 DEF Budget, CountsOK
      <4> QED
        BY <2>3, <4>1, <4>2
    <3>2. \A i \in 1 .. Len(queue') : summaries[queue'[i].notif] <= queue'[i].reruns
      BY <2>5, <3>1 DEF Budget
    <3> QED
      BY <1>1, <3>2 DEF Budget
  <2>9. RerunsCounted' /\ SummarisedOnce'
    <3>1. reruns' # 0
      BY <2>4 DEF CountsOK
    <3> QED
      BY <1>1, <3>1 DEF RerunsCounted, SummarisedOnce
  <2> QED
    BY <1>2, <2>6, <2>7, <2>8, <2>9
<1> QED
  BY <1>3, <1>4

\* A step of a poll, of the worker or of a user inserts no row.
LEMMA NoneInserted ==
    ASSUME Unrecorded, UNCHANGED <<stored, todo>>, \A c \in Calls : at'[c] = at[c],
           \A n \in Notifs : status[n] = "none" => status'[n] = "none", CallsPrompt
    PROVE  Unrecorded'
BY DEF Unrecorded, CallsPrompt

\* A call inserts the rows of its list, and no other call does.
LEMMA UnrecordedCalls ==
    ASSUME PhonesDiffer, TablesOK, PlacesOK, InputsOK, CallsPrompt, OneCall, Unprompted, Unrecorded,
           NEW c \in Calls, onConsumed(c) \/ InsertDoc(c) \/ FindPhones(c) \/ Prompt(c)
    PROVE  Unrecorded'
<1> USE SummaryAssumption DEF PlacesOK, InputsOK, CallsPrompt, Unrecorded
<1>1. UNCHANGED status /\ stored \subseteq stored'
  BY DEF onConsumed, InsertDoc, FindPhones, Prompt
<1>2. \A e \in Calls \ {c} : todo'[e] = todo[e] /\ at'[e] = at[e]
  BY DEF onConsumed, InsertDoc, FindPhones, Prompt, GoTo
<1>3. \A n \in Notifs : at'[c] = "owner" /\ n[1] = DocOf[c] => status[n] = "none"
  BY DEF onConsumed, InsertDoc, FindPhones, Prompt, GoTo
<1>4. at'[c] \in {"prompt", "record"} =>
          \A i \in 1 .. Len(todo'[c]) : status[<<DocOf[c], todo'[c][i]>>] = "none"
  <2>1. CASE onConsumed(c) \/ InsertDoc(c)
    BY <2>1 DEF onConsumed, InsertDoc, GoTo
  <2>2. CASE FindPhones(c)
    <3>1. at'[c] \in {"prompt", "record"} => todo'[c] = PhonesOf[DocOf[c]] /\ at[c] = "owner"
      BY <2>2 DEF FindPhones, GoTo
    <3>2. \A i \in 1 .. Len(PhonesOf[DocOf[c]]) :
              <<DocOf[c], PhonesOf[DocOf[c]][i]>> \in Notifs
              /\ <<DocOf[c], PhonesOf[DocOf[c]][i]>>[1] = DocOf[c]
      BY NotifFacts
    <3> QED
      BY <3>1, <3>2
  <2>3. CASE Prompt(c)
    BY <2>3 DEF Prompt, GoTo
  <2> QED
    BY <2>1, <2>2, <2>3
<1>5. ASSUME NEW e \in Calls, NEW n \in Notifs, at'[e] = "owner", n[1] = DocOf[e]
      PROVE  status[n] = "none"
  BY <1>2, <1>3, <1>5
<1>6. ASSUME NEW e \in Calls, at'[e] \in {"prompt", "record"}, NEW i \in 1 .. Len(todo'[e])
      PROVE  status[<<DocOf[e], todo'[e][i]>>] = "none"
  <2>1. CASE e = c
    BY <1>4, <1>6, <2>1
  <2>2. CASE e # c
    <3>1. todo'[e] = todo[e] /\ at'[e] = at[e]
      BY <1>2, <2>2
    <3> QED
      BY <1>6, <3>1
  <2> QED
    BY <2>1, <2>2
<1>7. \A n \in Notifs : n[1] \notin stored' => status[n] = "none"
  BY <1>1
<1> QED
  BY <1>1, <1>5, <1>6, <1>7

\* A call inserts the row of the first phone of its list.
LEMMA Recorded ==
    ASSUME PhonesDiffer, TablesOK, PlacesOK, InputsOK, CallsPrompt, OneCall, Unprompted, Unrecorded,
           NEW c \in Calls, Record(c)
    PROVE  /\ Unrecorded'
           /\ \/ UNCHANGED status
              \/ \E n \in Notifs : status[n] = "none" /\ status' = [status EXCEPT ![n] = "pending"]
<1> USE SummaryAssumption DEF PlacesOK, InputsOK, CallsPrompt, OneCall, Prompting
<1>1. /\ at[c] = "record" /\ UNCHANGED stored
      /\ \A e \in Calls \ {c} : at'[e] = at[e] /\ todo'[e] = todo[e]
      /\ at'[c] # "owner"
  BY DEF Record, GoTo
<1>2. /\ Head(todo[c]) = todo[c][1] /\ 1 \in 1 .. Len(todo[c])
      /\ <<DocOf[c], Head(todo[c])>> \in Notifs
      /\ \A i \in 1 .. Len(Tail(todo[c])) :
            /\ i + 1 \in 1 .. Len(todo[c]) /\ i + 1 # 1 /\ Tail(todo[c])[i] = todo[c][i + 1]
            /\ <<DocOf[c], Tail(todo[c])[i]>> \in Notifs
  <2>1. Tail(todo[c]) \in Seq(Phones) /\ \A i \in 1 .. Len(Tail(todo[c])) : i \in Nat \ {0}
    BY <1>1, TurnFacts
  <2> QED
    BY <1>1, <2>1, TurnFacts, TailFacts
<1>3. PICK n \in Notifs : n = <<DocOf[c], Head(todo[c])>>
  BY <1>2
<1>4. status[n] = "none" /\ n[1] = DocOf[c] /\ n[2] = todo[c][1]
  BY <1>1, <1>2, <1>3 DEF Unrecorded
<1>5. DocOf[c] \in stored /\ \A e \in Calls \ {c} : Prompting(e) => DocOf[e] # DocOf[c]
  BY <1>1
<1>6. CASE UNCHANGED status /\ at'[c] = "end"
  <2>1. ASSUME NEW e \in Calls, at'[e] \in {"owner", "prompt", "record"}
        PROVE  at'[e] = at[e] /\ todo'[e] = todo[e]
    BY <1>1, <1>6, <2>1
  <2>2. UNCHANGED <<status, stored>>
    BY <1>1, <1>6
  <2>3. \A m \in Notifs : m[1] \notin stored => status[m] = "none"
    BY DEF Unrecorded
  <2>4. \A e \in Calls : \A m \in Notifs :
            at'[e] = "owner" /\ m[1] = DocOf[e] => status[m] = "none"
    BY <2>1 DEF Unrecorded
  <2>5. \A e \in Calls : at'[e] \in {"prompt", "record"} =>
            \A i \in 1 .. Len(todo'[e]) : status[<<DocOf[e], todo'[e][i]>>] = "none"
    BY <2>1 DEF Unrecorded
  <2> QED
    BY <2>2, <2>3, <2>4, <2>5 DEF Unrecorded
<1>7. CASE /\ status' = [status EXCEPT ![n] = "pending"] /\ todo'[c] = Tail(todo[c])
  <2>1. \A m \in Notifs : m # n => status'[m] = status[m]
    BY <1>7 DEF TablesOK
  <2>2. \A m \in Notifs : m[1] # DocOf[c] => status'[m] = status[m]
    BY <1>4, <2>1
  <2>3. \A m \in Notifs : m[1] \notin stored => status'[m] = "none"
    BY <1>5, <2>2 DEF Unrecorded
  <2>4. ASSUME NEW e \in Calls, NEW m \in Notifs, at'[e] = "owner", m[1] = DocOf[e]
        PROVE  status'[m] = "none"
    <3>1. e # c /\ at[e] = "owner"
      BY <1>1, <2>4
    <3>2. m[1] # DocOf[c] /\ status[m] = "none"
      BY <1>5, <2>4, <3>1 DEF Unrecorded
    <3> QED
      BY <2>2, <3>2
  <2>5. ASSUME NEW e \in Calls, at'[e] \in {"prompt", "record"}, NEW i \in 1 .. Len(todo'[e])
        PROVE  status'[<<DocOf[e], todo'[e][i]>>] = "none"
    <3>1. CASE e = c
      <4>1. i \in 1 .. Len(Tail(todo[c]))
        BY <1>7, <2>5, <3>1
      <4>2. /\ i + 1 \in 1 .. Len(todo[c]) /\ i + 1 # 1 /\ todo'[c][i] = todo[c][i + 1]
            /\ <<DocOf[c], todo'[c][i]>> \in Notifs
        BY <1>2, <1>7, <4>1
      <4>3. todo[c][i + 1] # todo[c][1]
        BY <1>2, <4>2 DEF Unprompted
      <4>4. <<DocOf[c], todo'[c][i]>> # n
        BY <1>2, <1>3, <4>2, <4>3
      <4>5. status[<<DocOf[c], todo'[c][i]>>] = "none"
        BY <1>1, <4>2 DEF Unrecorded
      <4> QED
        BY <2>1, <3>1, <4>2, <4>4, <4>5
    <3>2. CASE e # c
      <4>1. todo'[e] = todo[e] /\ at'[e] = at[e]
        BY <1>1, <3>2
      <4>2. /\ <<DocOf[e], todo[e][i]>> \in Notifs /\ <<DocOf[e], todo[e][i]>>[1] = DocOf[e]
            /\ status[<<DocOf[e], todo[e][i]>>] = "none"
        BY <2>5, <4>1 DEF Unrecorded
      <4>3. DocOf[e] # DocOf[c]
        BY <1>5, <2>5, <3>2, <4>1
      <4> QED
        BY <2>2, <4>1, <4>2, <4>3
    <3> QED
      BY <3>1, <3>2
  <2>6. \A e \in Calls : at'[e] \in {"prompt", "record"} =>
            \A i \in 1 .. Len(todo'[e]) : status'[<<DocOf[e], todo'[e][i]>>] = "none"
    BY <2>5
  <2>7. \A e \in Calls : \A m \in Notifs :
            at'[e] = "owner" /\ m[1] = DocOf[e] => status'[m] = "none"
    BY <2>4
  <2>8. \A m \in Notifs : m[1] \notin stored' => status'[m] = "none"
    BY <1>1, <2>3
  <2>9. Unrecorded'
    BY <2>6, <2>7, <2>8 DEF Unrecorded
  <2> QED
    BY <1>4, <1>7, <2>9
<1>8. \/ UNCHANGED status /\ at'[c] = "end"
      \/ status' = [status EXCEPT ![n] = "pending"] /\ todo'[c] = Tail(todo[c])
  BY <1>3 DEF Record, GoTo
<1> QED
  BY <1>4, <1>6, <1>7, <1>8

\* One notification after another, each at most once.
LEMMA HandledStep ==
    ASSUME PhonesDiffer, OnePoll, IInv, OneCall, Unprompted, Unrecorded, Handled, [Next]_vars
    PROVE  /\ Unrecorded' /\ Handled'
           /\ \A n \in Notifs : Forward(status[n], status'[n])
<1>a. /\ TablesOK /\ WorkOK /\ PlacesOK /\ InputsOK /\ FoundOK /\ CountsOK
      /\ CallsPrompt /\ PollsPoll
  BY TypeParts DEF IInv
<1>b. Calls \cap Polls = {} /\ \A c \in Calls : c \notin Polls
  BY SummaryAssumption
<1>c. UNCHANGED status => \A n \in Notifs : Forward(status[n], status'[n])
  BY DEF Forward
<1>1. ASSUME NEW c \in Calls, onConsumed(c) \/ InsertDoc(c) \/ FindPhones(c) \/ Prompt(c)
      PROVE  Unrecorded' /\ Handled' /\ UNCHANGED status
  <2>1. UNCHANGED <<status, summaries, queue, job, step, reruns, found>>
    BY <1>1 DEF onConsumed, InsertDoc, FindPhones, Prompt, CallUnchanged, work
  <2>2. \A p \in Polls : at'[p] = at[p]
    BY <1>1, <1>a, <1>b DEF onConsumed, InsertDoc, FindPhones, Prompt, GoTo, PlacesOK
  <2>3. \A p \in Polls : LetGo(p)
    BY <2>1, <2>2 DEF LetGo
  <2> QED
    BY <1>1, <1>a, <2>1, <2>3, UnrecordedCalls, NothingMoved
<1>2. ASSUME NEW c \in Calls, Record(c)
      PROVE  Unrecorded' /\ Handled' /\ \A n \in Notifs : Forward(status[n], status'[n])
  <2>1. UNCHANGED <<summaries, queue, job, step, reruns, found>>
    BY <1>2 DEF Record, CallUnchanged, work
  <2>2. \A p \in Polls : at'[p] = at[p]
    BY <1>2, <1>a, <1>b DEF Record, GoTo, PlacesOK
  <2>3. \A p \in Polls : LetGo(p)
    BY <2>1, <2>2 DEF LetGo
  <2>4. Unrecorded'
    BY <1>2, <1>a, Recorded
  <2>5. CASE UNCHANGED status
    BY <1>c, <2>1, <2>3, <2>4, <2>5, NothingMoved
  <2>6. ASSUME NEW n \in Notifs, status[n] = "none", status' = [status EXCEPT ![n] = "pending"]
        PROVE  Handled' /\ \A m \in Notifs : Forward(status[m], status'[m])
    <3>1. Handled'
      BY <1>a, <2>1, <2>2, <2>6, RowInserted
    <3>2. \A m \in Notifs : Forward(status[m], status'[m])
      BY <1>a, <2>6 DEF TablesOK, Forward
    <3> QED
      BY <3>1, <3>2
  <2> QED
    BY <1>2, <1>a, <2>4, <2>5, <2>6, Recorded
<1>3. ASSUME UNCHANGED <<stored, todo>>, \A c \in Calls : at'[c] = at[c],
             \A n \in Notifs : Forward(status[n], status'[n]),
             \A n \in Notifs : status[n] = "none" => status'[n] # "pending"
      PROVE  Unrecorded'
  <2>1. \A n \in Notifs : status[n] = "none" => status'[n] = "none"
    BY <1>3 DEF Forward
  <2> QED
    BY <1>a, <1>3, <2>1, NoneInserted
<1>4. ASSUME \/ \E ph \in Phones : Answer(ph)
             \/ \E p \in Polls : Receive(p)
             \/ UNCHANGED vars
      PROVE  Unrecorded' /\ Handled' /\ UNCHANGED status
  <2>1. /\ UNCHANGED <<status, summaries, queue, job, step, reruns, found, stored, todo>>
        /\ \A c \in Calls : at'[c] = at[c]
        /\ \A p \in Polls : at'[p] = at[p] \/ at'[p] = "next"
    BY <1>4, <1>a, <1>b DEF Answer, Receive, GoTo, PollUnchanged, vars, tables, work, sent, PlacesOK
  <2>2. \A p \in Polls : LetGo(p)
    BY <2>1 DEF LetGo
  <2> QED
    BY <1>a, <2>1, <2>2, NothingMoved, NoneInserted
<1>5. ASSUME NEW p \in Polls, FindNotif(p)
      PROVE  Unrecorded' /\ Handled' /\ UNCHANGED status
  <2>1. UNCHANGED <<status, summaries, queue, job, step, reruns, stored, todo>> /\ at[p] = "next"
    BY <1>5 DEF FindNotif, PollUnchanged, sent
  <2>2. CASE NextMessage(p) /\ UNCHANGED found
    <3>1. PICK place \in {"idle", "next"} : at' = [at EXCEPT ![p] = place]
      BY <1>a, <2>1, <2>2, NextMessageFacts
    <3>2. \A q \in Polls : LetGo(q)
      BY <1>a, <2>2, <3>1 DEF LetGo, PlacesOK
    <3>3. \A c \in Calls : at'[c] = at[c]
      BY <1>b, <3>1
    <3> QED
      BY <1>a, <2>1, <3>2, <3>3, NothingMoved, NoneInserted
  <2>3. CASE /\ Pending(Head(batch[p])) # {}
             /\ found' = [found EXCEPT ![p] = order[Min(Pending(Head(batch[p])))]]
             /\ GoTo(p, "mark")
    <3>1. Pending(Head(batch[p])) \subseteq 1 .. Len(order) /\ Len(order) \in Nat
      BY <1>a DEF Pending, TablesOK
    <3>2. Pending(Head(batch[p])) \in SUBSET Nat
      BY <3>1
    <3>3. Min(Pending(Head(batch[p]))) \in Pending(Head(batch[p]))
      BY <2>3, <3>2, MinOfNats
    <3>4. PICK n \in Notifs : n = order[Min(Pending(Head(batch[p])))] /\ status[n] = "pending"
      <4>1. \A i \in Pending(Head(batch[p])) : i \in 1 .. Len(order) /\ status[order[i]] = "pending"
        BY DEF Pending
      <4>2. \A i \in 1 .. Len(order) : order[i] \in Notifs
        BY <1>a DEF TablesOK
      <4> QED
        BY <3>3, <4>1, <4>2
    <3>5. found'[p] = n /\ at'[p] = "mark"
      BY <1>a, <2>3, <3>4 DEF GoTo, FoundOK, PlacesOK
    <3>6. \A c \in Calls : at'[c] = at[c]
      BY <1>b, <2>3 DEF GoTo
    <3> QED
      BY <1>a, <2>1, <3>4, <3>5, <3>6, Loaded, NoneInserted
  <2> QED
    BY <1>5, <2>2, <2>3 DEF FindNotif
<1>6. ASSUME NEW p \in Polls, Mark(p)
      PROVE  Unrecorded' /\ Handled' /\ \A n \in Notifs : Forward(status[n], status'[n])
  <2>1. Handled' /\ \A n \in Notifs : Forward(status[n], status'[n])
    BY <1>6, <1>a, Marked
  <2>2. UNCHANGED <<stored, todo>> /\ \A c \in Calls : at'[c] = at[c]
    BY <1>6, <1>b DEF Mark, PollUnchanged, GoTo
  <2>3. \A n \in Notifs : status'[n] = status[n] \/ status'[n] = "processing"
    BY <1>6, <1>a DEF Mark, TablesOK
  <2> QED
    BY <1>3, <2>1, <2>2, <2>3
<1>7. ASSUME NEW p \in Polls, Enqueue(p) \/ Throw(p)
      PROVE  Unrecorded' /\ Handled' /\ UNCHANGED status
  <2>1. /\ UNCHANGED <<status, summaries, job, step, reruns, stored, todo>>
        /\ at[p] # "idle"
    BY <1>7 DEF Enqueue, Throw, PollUnchanged, sent
  <2>2. PICK place \in {"idle", "next"} : at' = [at EXCEPT ![p] = place]
    BY <1>7, <1>a, <2>1, NextMessageFacts DEF Enqueue, Throw, GoTo
  <2>3. at'[p] \in {"idle", "next"} /\ \A c \in Calls : at'[c] = at[c]
    BY <1>a, <1>b, <2>2 DEF PlacesOK
  <2>4. Unrecorded'
    BY <1>a, <2>1, <2>3, NoneInserted
  <2>5. CASE UNCHANGED queue
    <3>1. \A q \in Polls : LetGo(q)
      BY <2>3 DEF LetGo, OnePoll
    <3> QED
      BY <2>1, <2>4, <2>5, <3>1, NothingMoved
  <2>6. CASE at[p] = "enqueue" /\ queue' = Append(queue, [notif |-> found[p], reruns |-> 0])
    BY <1>a, <2>1, <2>3, <2>4, <2>6, Queued
  <2> QED
    BY <1>7, <2>5, <2>6 DEF Enqueue, Throw
<1>8. ASSUME TakeJob \/ Summarize \/ Deliver \/ Store
      PROVE  Unrecorded' /\ Handled' /\ UNCHANGED status
  <2>1. UNCHANGED <<status, stored, todo, at>>
    BY <1>8 DEF TakeJob, Summarize, Deliver, Store, WorkUnchanged
  <2>2. Handled'
    BY <1>8, <1>a, Taken, Worked
  <2> QED
    BY <1>a, <2>1, <2>2, NoneInserted
<1>9. ASSUME Finish \/ FailJob
      PROVE  Unrecorded' /\ Handled' /\ \A n \in Notifs : Forward(status[n], status'[n])
  <2>1. Handled' /\ \A n \in Notifs : Forward(status[n], status'[n])
    BY <1>9, <1>a, Concluded
  <2>2. UNCHANGED <<stored, todo, at>>
    BY <1>9 DEF Finish, FailJob, Conclude, WorkUnchanged
  <2>3. \A n \in Notifs : status'[n] = status[n] \/ status'[n] \in {"done", "failed"}
    BY <1>9, <1>a DEF Finish, FailJob, Conclude, TablesOK
  <2> QED
    BY <1>3, <2>1, <2>2, <2>3
<1>10. ASSUME Crash PROVE Unrecorded' /\ Handled' /\ UNCHANGED status
  <2>1. UNCHANGED <<stored, status>> /\ \A c \in Calls : at'[c] \in {"idle", "end"}
    BY <1>10 DEF Crash, tables
  <2>2. Unrecorded'
    BY <2>1 DEF Unrecorded
  <2> QED
    BY <1>10, <1>a, <2>1, <2>2, RunAgain
<1> QED
  BY <1>c, <1>1, <1>2, <1>4, <1>5, <1>6, <1>7, <1>8, <1>9, <1>10 DEF Next

LEMMA NothingHandled == Init => Unrecorded /\ Handled
<1> SUFFICES ASSUME Init PROVE Unrecorded /\ Handled
  OBVIOUS
<1>1. Unrecorded
  BY DEF Init, Unrecorded
<1>2. Fresh /\ AtWork /\ OneJob /\ Held /\ Budget /\ RerunsCounted /\ SummarisedOnce
  BY DEF Init, Fresh, AtWork, OneJob, Held, Budget, RerunsCounted, SummarisedOnce
<1> QED
  BY <1>1, <1>2 DEF Handled

\* What both theorems rest on.
LEMMA HandledAlways ==
    ASSUME PhonesDiffer, OnePoll
    PROVE  Spec => [](IInv /\ OneCall /\ Unprompted /\ Unrecorded /\ Handled)
<1> DEFINE Inv == IInv /\ OneCall /\ Unprompted /\ Unrecorded /\ Handled
<1>1. Init => Inv
  BY InitInvariant, NothingHandled
<1>2. ASSUME Inv, IInv', [Next]_vars PROVE Inv'
  <2>1. TypeOK /\ PlacesOK /\ InputsOK /\ CountsOK /\ CallsPrompt
    BY <1>2, TypeParts DEF IInv
  <2> QED
    BY <1>2, <2>1, PhonesDiffer, OnePoll, OneCallStep, UnpromptedStep, HandledStep
<1>3. Inv /\ IInv' /\ [Next]_vars => Inv'
  BY <1>2
<1> QED
  BY <1>1, <1>3, Invariance, PTL DEF Spec

\* As long as polls do not overlap, an approval brings no second summary: a phone
\* gets a second one for the same document only when BullMQ has run a job again
\* after a crash, and a third one never, whatever fails and whenever it crashes.
THEOREM OneSummary ==
    ASSUME PhonesDiffer, OnePoll
    PROVE  Spec => []SummarisedOnce
<1>1. Handled => SummarisedOnce
  BY DEF Handled
<1> QED
  BY <1>1, HandledAlways, PhonesDiffer, OnePoll, PTL

\* As long as polls do not overlap, a row of the notification log goes from
\* pending to processing to done or failed and never back: what was reported
\* as done is not started again, though notifRepo.save writes whole rows.
THEOREM NeverBack ==
    ASSUME PhonesDiffer, OnePoll
    PROVE  Spec => [][\A n \in Notifs : Forward(status[n], status'[n])]_vars
<1> DEFINE Inv == IInv /\ OneCall /\ Unprompted /\ Unrecorded /\ Handled
<1>1. ASSUME Inv, [Next]_vars PROVE \A n \in Notifs : Forward(status[n], status'[n])
  BY <1>1, PhonesDiffer, OnePoll, HandledStep
<1>2. Inv /\ [Next]_vars => [\A n \in Notifs : Forward(status[n], status'[n])]_vars
  BY <1>1
<1> QED
  BY <1>2, HandledAlways, PhonesDiffer, OnePoll, PTL DEF Spec
=============================================================================
