---------------------------- MODULE DocSummary ----------------------------
(***************************************************************************)
(* Document summaries (DocumentsService): Paperless reports a consumed     *)
(* document, its owner's phones are prompted, an approval by Signal queues *)
(* a job in BullMQ, and the worker sends the summary.                      *)
(*                                                                         *)
(* Calls are activations of onConsumed, Polls activations of pollSignal,   *)
(* which may overlap, and one worker takes the jobs. An action is what one *)
(* of them does between two awaits. Postgres, the queue in Redis and       *)
(* signal-api survive a crash of the API.                                  *)
(***************************************************************************)
EXTENDS Naturals, FiniteSets, Sequences, FiniteSetsExt

CONSTANTS
    Docs,         \* documents in Paperless
    Phones,       \* phone numbers
    PhonesOf,     \* the phones of a document's owner, in order
    Calls,        \* POSTs of /documents/consumed
    DocOf,        \* the document a call reports
    Polls,        \* concurrent activations of pollSignal
    MaxFaults     \* bound: crashes and failed calls

ASSUME SummaryAssumption ==
    /\ PhonesOf \in [Docs -> Seq(Phones)]
    /\ DocOf \in [Calls -> Docs]
    /\ Calls \cap Polls = {}
    /\ IsFiniteSet(Docs) /\ IsFiniteSet(Polls)
    /\ MaxFaults \in Nat

\* A notification is known by its document and its phone: PromptedOnce says
\* that there is one row for the two.
Notifs == UNION {{d} \X {PhonesOf[d][i] : i \in DOMAIN PhonesOf[d]} : d \in Docs}
Status == {"none", "pending", "processing", "done", "failed"}
NoJob == [notif |-> "none"]

VARIABLES
    stored,     \* documents in doc_documents
    status,     \* status of each row of doc_notifications, "none" if absent
    order,      \* the rows in the order of their createdAt
    summarised, \* documents with a row in doc_summaries
    queue,      \* waiting jobs of the queue doc-summary
    job,        \* the job the worker runs, or NoJob
    step,       \* where the worker is in processSummary
    at,         \* where each call and poll is
    todo,       \* the phones a call has still to prompt
    inbox,      \* approvals waiting in signal-api, by phone
    batch,      \* approvals a poll received and has not handled
    found,      \* the notification a poll has loaded
    prompts,    \* prompts sent, per notification
    answers,    \* approvals sent, per phone
    summaries,  \* summaries sent, per notification
    reruns,     \* jobs run again after a crash
    faults      \* crashes and failed calls so far

tables == <<stored, status, order, summarised>>
work == <<queue, job, step>>
sent == <<prompts, answers, summaries, reruns>>
vars == <<tables, work, sent, at, todo, inbox, batch, found, faults>>

-----------------------------------------------------------------------------
GoTo(w, place) == at' = [at EXCEPT ![w] = place]

Fault == faults < MaxFaults /\ faults' = faults + 1

Pending(ph) == {i \in 1 .. Len(order) : order[i][2] = ph /\ status[order[i]] = "pending"}

Init ==
    /\ stored = {} /\ summarised = {}
    /\ status = [n \in Notifs |-> "none"]
    /\ order = <<>>
    /\ queue = <<>> /\ job = NoJob /\ step = "idle"
    /\ at = [w \in Calls \cup Polls |-> "idle"]
    /\ todo = [c \in Calls |-> <<>>]
    /\ inbox = <<>>
    /\ batch = [p \in Polls |-> <<>>]
    /\ found = [p \in Polls |-> <<>>]
    /\ prompts = [n \in Notifs |-> 0]
    /\ answers = [ph \in Phones |-> 0]
    /\ summaries = [n \in Notifs |-> 0]
    /\ reruns = 0 /\ faults = 0

-----------------------------------------------------------------------------
(* onConsumed                                                              *)

CallUnchanged == UNCHANGED <<summarised, work, answers, summaries, reruns, inbox, batch, found>>

\* The document is looked up: a known one is skipped.
onConsumed(c) ==
    /\ at[c] = "idle"
    /\ GoTo(c, IF DocOf[c] \in stored THEN "end" ELSE "insert")
    /\ UNCHANGED <<stored, status, order, prompts, todo, faults>>
    /\ CallUnchanged

\* Fault: doc_documents has no unique column.
InsertDoc_NotUnique(c) ==
    /\ at[c] = "insert"
    /\ stored' = stored \cup {DocOf[c]}
    /\ GoTo(c, "owner")
    /\ UNCHANGED <<status, order, prompts, todo, faults>>
    /\ CallUnchanged

\* The unique column paperlessId refuses a document another call has inserted.
InsertDoc(c) ==
    /\ at[c] = "insert"
    /\ stored' = stored \cup {DocOf[c]}
    /\ GoTo(c, IF DocOf[c] \in stored THEN "end" ELSE "owner")
    /\ UNCHANGED <<status, order, prompts, todo, faults>>
    /\ CallUnchanged

\* getPhonesAndPrefsForUser: a failed lookup counts as a user without phones.
FindPhones(c) ==
    /\ at[c] = "owner"
    /\ \/ /\ todo' = [todo EXCEPT ![c] = PhonesOf[DocOf[c]]]
          /\ GoTo(c, IF PhonesOf[DocOf[c]] = <<>> THEN "end" ELSE "prompt")
          /\ UNCHANGED faults
       \/ Fault /\ GoTo(c, "end") /\ UNCHANGED todo
    /\ UNCHANGED <<stored, status, order, prompts>>
    /\ CallUnchanged

\* sendSignal: a failure is swallowed, and the row is saved all the same.
Prompt(c) ==
    /\ at[c] = "prompt"
    /\ LET n == <<DocOf[c], Head(todo[c])>>
       IN  \/ prompts' = [prompts EXCEPT ![n] = @ + 1] /\ UNCHANGED faults
           \/ Fault /\ UNCHANGED prompts
    /\ GoTo(c, "record")
    /\ UNCHANGED <<stored, status, order, todo>>
    /\ CallUnchanged

\* The row is inserted after its prompt; a failure ends the call.
Record(c) ==
    /\ at[c] = "record"
    /\ LET n == <<DocOf[c], Head(todo[c])>>
       IN  \/ /\ status' = [status EXCEPT ![n] = "pending"]
              /\ order' = Append(order, n)
              /\ todo' = [todo EXCEPT ![c] = Tail(@)]
              /\ GoTo(c, IF Len(todo[c]) = 1 THEN "end" ELSE "prompt")
              /\ UNCHANGED faults
           \/ Fault /\ GoTo(c, "end") /\ UNCHANGED <<status, order, todo>>
    /\ UNCHANGED <<stored, prompts>>
    /\ CallUnchanged

-----------------------------------------------------------------------------
(* The user and pollSignal                                                 *)

SumOf(f, S) == MapThenSumSet(LAMBDA x : f[x], S)
OfPhone(ph) == {n \in Notifs : n[2] = ph}

\* A user answers a prompt, by a check mark as text or as a reaction: the
\* message names the phone, not the document.
Answer(ph) ==
    /\ answers[ph] < SumOf(prompts, OfPhone(ph))
    /\ answers' = [answers EXCEPT ![ph] = @ + 1]
    /\ inbox' = Append(inbox, ph)
    /\ UNCHANGED <<tables, work, prompts, summaries, reruns, at, todo, batch, found, faults>>

PollUnchanged == UNCHANGED <<stored, summarised, job, step, sent, todo>>

\* GET /v1/receive empties signal-api.
Receive(p) ==
    /\ at[p] = "idle"
    /\ inbox # <<>>
    /\ batch' = [batch EXCEPT ![p] = inbox]
    /\ inbox' = <<>>
    /\ GoTo(p, "next")
    /\ UNCHANGED <<status, order, queue, found, faults>>
    /\ PollUnchanged

\* Fault: the loop runs once more when the batch is empty.
NextMessage_NoEnd(p) ==
    /\ batch' = [batch EXCEPT ![p] = Tail(@)]
    /\ GoTo(p, "next")

NextMessage(p) ==
    /\ batch' = [batch EXCEPT ![p] = Tail(@)]
    /\ GoTo(p, IF Len(batch[p]) = 1 THEN "idle" ELSE "next")

\* The oldest pending notification of the sender is loaded.
FindNotif(p) ==
    /\ at[p] = "next"
    /\ LET ph == Head(batch[p])
       IN  IF Pending(ph) = {}
           THEN NextMessage(p) /\ UNCHANGED found
           ELSE /\ found' = [found EXCEPT ![p] = order[Min(Pending(ph))]]
                /\ GoTo(p, "mark")
                /\ UNCHANGED batch
    /\ UNCHANGED <<status, order, queue, inbox, faults>>
    /\ PollUnchanged

\* notifRepo.save writes the whole row, whatever its status is by now.
Mark(p) ==
    /\ at[p] = "mark"
    /\ status' = [status EXCEPT ![found[p]] = "processing"]
    /\ GoTo(p, "enqueue")
    /\ UNCHANGED <<order, queue, inbox, batch, found, faults>>
    /\ PollUnchanged

Enqueue(p) ==
    /\ at[p] = "enqueue"
    /\ queue' = Append(queue, [notif |-> found[p], reruns |-> 0])
    /\ NextMessage(p)
    /\ found' = [found EXCEPT ![p] = <<>>]
    /\ UNCHANGED <<status, order, inbox, faults>>
    /\ PollUnchanged

\* Fault: a failed message is handled again.
Throw_Retries(p) ==
    /\ at[p] # "idle"
    /\ Fault
    /\ GoTo(p, "next")
    /\ found' = [found EXCEPT ![p] = <<>>]
    /\ queue' \in {queue, Append(queue, [notif |-> found[p], reruns |-> 0])}
    /\ at[p] = "enqueue" \/ queue' = queue
    /\ UNCHANGED <<status, order, inbox, batch>>
    /\ PollUnchanged

\* A call of the poll throws: the rest of its batch is dropped. A queue that
\* fails may have taken the job.
Throw(p) ==
    /\ at[p] # "idle"
    /\ Fault
    /\ batch' = [batch EXCEPT ![p] = <<>>]
    /\ GoTo(p, "idle")
    /\ found' = [found EXCEPT ![p] = <<>>]
    /\ queue' \in {queue, Append(queue, [notif |-> found[p], reruns |-> 0])}
    /\ at[p] = "enqueue" \/ queue' = queue
    /\ UNCHANGED <<status, order, inbox>>
    /\ PollUnchanged

-----------------------------------------------------------------------------
(* The worker: processSummary                                              *)

WorkUnchanged == UNCHANGED <<stored, order, prompts, answers, reruns, at, todo, inbox, batch, found>>

TakeJob ==
    /\ step = "idle"
    /\ queue # <<>>
    /\ job' = Head(queue)
    /\ queue' = Tail(queue)
    /\ step' = "summarize"
    /\ UNCHANGED <<status, summarised, summaries, faults>>
    /\ WorkUnchanged

\* The text is fetched and summarised: there may be none, or a call fails.
Summarize ==
    /\ step = "summarize"
    /\ step' \in {"deliver", "fail"}
    /\ UNCHANGED <<status, summarised, summaries, faults, queue, job>>
    /\ WorkUnchanged

\* sendSignal: a failure is swallowed, and the job goes on all the same.
Deliver ==
    /\ step = "deliver"
    /\ \/ summaries' = [summaries EXCEPT ![job.notif] = @ + 1] /\ UNCHANGED faults
       \/ Fault /\ UNCHANGED summaries
    /\ step' = "store"
    /\ UNCHANGED <<status, summarised, queue, job>>
    /\ WorkUnchanged

\* Fault: a failing insert is ignored.
Store_Ignored ==
    /\ step = "store"
    /\ step' = "finish"
    /\ \/ summarised' = summarised \cup {job.notif[1]} /\ UNCHANGED faults
       \/ Fault /\ UNCHANGED summarised
    /\ UNCHANGED <<status, summaries, queue, job>>
    /\ WorkUnchanged

Store ==
    /\ step = "store"
    /\ \/ summarised' = summarised \cup {job.notif[1]} /\ step' = "finish" /\ UNCHANGED faults
       \/ Fault /\ step' = "fail" /\ UNCHANGED summarised
    /\ UNCHANGED <<status, summaries, queue, job>>
    /\ WorkUnchanged

\* notifRepo.update after the summary, or in the catch block after the message
\* about the failure. A failure of the latter fails the job, without a retry.
Conclude(result) ==
    /\ \/ status' = [status EXCEPT ![job.notif] = result] /\ UNCHANGED faults
       \/ Fault /\ UNCHANGED status
    /\ IF result = "done" /\ faults' # faults
       THEN step' = "fail" /\ UNCHANGED job
       ELSE step' = "idle" /\ job' = NoJob
    /\ UNCHANGED <<summarised, summaries, queue>>
    /\ WorkUnchanged

Finish == step = "finish" /\ Conclude("done")

\* Fault: the catch block reports the failure and leaves the row.
FailJob_RowLeft ==
    /\ step = "fail"
    /\ step' = "idle"
    /\ job' = NoJob
    /\ UNCHANGED <<status, summarised, summaries, queue, faults>>
    /\ WorkUnchanged

FailJob == step = "fail" /\ Conclude("failed")

-----------------------------------------------------------------------------
\* The API process dies and starts again. BullMQ runs the job that was active
\* once more; a job that stalls twice is given up.
Crash ==
    /\ Fault
    /\ at' = [w \in Calls \cup Polls |->
                 IF w \in Calls /\ at[w] = "idle" THEN "idle"
                 ELSE IF w \in Calls THEN "end" ELSE "idle"]
    /\ todo' = [c \in Calls |-> <<>>]
    /\ batch' = [p \in Polls |-> <<>>]
    /\ found' = [p \in Polls |-> <<>>]
    /\ step' = "idle"
    /\ job' = NoJob
    /\ IF step # "idle" /\ job.reruns = 0
       THEN /\ queue' = <<[job EXCEPT !.reruns = 1]>> \o queue
            /\ reruns' = reruns + 1
       ELSE UNCHANGED <<queue, reruns>>
    /\ UNCHANGED <<tables, inbox, prompts, answers, summaries>>

PollStep(p) == Receive(p) \/ FindNotif(p) \/ Mark(p) \/ Enqueue(p)
WorkerStep == TakeJob \/ Summarize \/ Deliver \/ Store \/ Finish \/ FailJob

Next ==
    \/ \E c \in Calls : onConsumed(c)
    \/ \E c \in Calls : InsertDoc(c)
    \/ \E c \in Calls : FindPhones(c)
    \/ \E c \in Calls : Prompt(c)
    \/ \E c \in Calls : Record(c)
    \/ \E ph \in Phones : Answer(ph)
    \/ \E p \in Polls : Receive(p)
    \/ \E p \in Polls : FindNotif(p)
    \/ \E p \in Polls : Mark(p)
    \/ \E p \in Polls : Enqueue(p)
    \/ \E p \in Polls : Throw(p)
    \/ TakeJob
    \/ Summarize
    \/ Deliver
    \/ Store
    \/ Finish
    \/ FailJob
    \/ Crash

Spec == Init /\ [][Next]_vars

\* The timer keeps polling, BullMQ keeps taking jobs, and a call of either
\* returns or throws.
FairSpec ==
    /\ Spec
    /\ \A p \in Polls : WF_vars(PollStep(p))
    /\ WF_vars(WorkerStep)

-----------------------------------------------------------------------------
(* Properties                                                              *)

Job == [notif : Notifs, reruns : {0, 1}]

TypeOK ==
    /\ stored \subseteq Docs /\ summarised \subseteq Docs
    /\ status \in [Notifs -> Status]
    /\ order \in Seq(Notifs)
    /\ queue \in Seq(Job)
    /\ job \in Job \cup {NoJob}
    /\ step \in {"idle", "summarize", "deliver", "store", "finish", "fail"}
    /\ step = "idle" <=> job = NoJob
    /\ at \in [Calls \cup Polls ->
                {"idle", "insert", "owner", "prompt", "record", "next", "mark", "enqueue", "end"}]
    /\ todo \in [Calls -> Seq(Phones)]
    /\ inbox \in Seq(Phones)
    /\ batch \in [Polls -> Seq(Phones)]
    /\ found \in [Polls -> Notifs \cup {<<>>}]
    /\ \A p \in Polls : at[p] = "idle" <=> batch[p] = <<>>
    /\ \A p \in Polls : IF at[p] \in {"mark", "enqueue"} THEN found[p] \in Notifs ELSE found[p] = <<>>
    /\ prompts \in [Notifs -> Nat] /\ summaries \in [Notifs -> Nat]
    /\ answers \in [Phones -> Nat]
    /\ reruns \in Nat /\ faults \in Nat

\* A document's owner is prompted once per phone, however often and however
\* concurrently Paperless reports the document.
PromptedOnce == \A n \in Notifs : prompts[n] <= 1

\* Every summary was asked for: a phone gets no more of them than it has sent
\* approvals, except for jobs BullMQ runs again after a crash.
SummariesAskedFor ==
    \A ph \in Phones : SumOf(summaries, OfPhone(ph)) <= answers[ph] + reruns

\* "done" in the notification log means that the summary is stored, but not
\* that anybody got it: one failure of the sending, which sendSignal hides,
\* makes one row say "done" of a summary its phone never got, and no more.
DoneIsAccounted ==
    /\ \A n \in Notifs : status[n] = "done" => n[1] \in summarised
    /\ Cardinality({n \in Notifs : status[n] = "done" /\ summaries[n] = 0}) <= faults

\* A summary a user was told is being made succeeds or fails: the log does not
\* say "processing" for ever, unless something failed on the way.
ProcessingConcludes ==
    \A n \in Notifs :
        status[n] = "processing" ~> status[n] \in {"done", "failed"} \/ faults > 0

\* README.md:121, "When the user replies with a check mark (text or reaction),
\* the API queues a BullMQ job": where every answer has been handled, as many
\* prompts have left "pending" as the phone has answered.
AnswersAreServed ==
    \A ph \in Phones :
        (\A i \in 1 .. Len(inbox) : inbox[i] # ph) /\ (\A p \in Polls : at[p] = "idle")
            => Cardinality({n \in OfPhone(ph) : status[n] \notin {"none", "pending"}}) >= answers[ph]
=============================================================================
