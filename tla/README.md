# CollaBrains platform: a TLA+ model of its stateful core

The platform is a NestJS API (`src/api`) with a Next.js portal (`src/portal`) and a few
Python and shell scripts (`src/scripts`). The API provisions Authentik, Mailcow and
Traefik, and then connects Signal, Paperless, Ollama and the mail server for its users.
Almost all of its state lives elsewhere: in Postgres (TypeORM), in two BullMQ queues and
some keys in Redis, and in the databases of the systems it calls. The API itself is one
Node process, so two pieces of its code interleave only at an `await`; that is where
everything below can go wrong.

This directory models that core, checks it with TLC and proves part of it with TLAPS.

    tlc -workers 2 -config MCBootstrap.cfg MCBootstrap     # and so on, see "Runs"
    tlapm BootstrapProofs.tla

## 1. Inventory

For every component: its state, its operations, whom it talks to, what is hard about it,
and what makes it correct. Components in *italics* have no module.

**Bootstrap state machine** (`api/src/bootstrap/bootstrap.service.ts`). State:
`currentState` and `eventLog` in memory, the table `onboarding_events`. Operations:
restore on start, automatic start, `POST /bootstrap/start`, the pipeline, the HTTP checks
of DNS and ports. Talks to the three integrations and to the event emitter. Hard: crashes
between any two steps, event rows that are not saved, checks that write rows of their own
at any time. Correct if: one pipeline at a time; the state never claims what was not
provisioned and moves only forward; a finished system stays finished over a restart; a
pipeline ends in READY or in a reported error.

**Provisioning integrations** (`bootstrap/integrations/*.ts`). State: objects in Authentik
and Mailcow, two files of Traefik. Operations: look up, create, overwrite; some failures
are swallowed. Hard: partial failure, and `POST /admin/reprovision-authentik` running the
same code beside the pipeline. Correct if: a second run repairs the first.

**Tickets by Signal** (`tickets/tickets.service.ts`, `documents.service.ts` `pollSignal`).
State: the table `signal_tickets`. Operations: create, confirm, cancel, mark done by
message; update and delete by the dashboard. Hard: `setInterval` starts a poll every five
seconds whether or not the last one has ended; a receive empties signal-api, so what a
failing poll had received is gone; rows are loaded, changed and saved whole. Correct if: a
number names one open ticket; nothing is opened unconfirmed; answers settle questions in
order.

**Document summaries** (`documents/documents.service.ts`). State: the tables
`doc_documents`, `doc_notifications`, `doc_summaries`, the queue `doc-summary`. Operations:
`onConsumed` (called by Paperless), the approval in `pollSignal`, `processSummary` in the
BullMQ worker. Hard: a message that names a phone and not a document, overlapping polls,
failures between the status and the queue, jobs that BullMQ runs again. Correct if: each
owner is prompted once; every summary was asked for; "done" means stored, and delivered unless
the send failed; "processing" ends.

**Signal delivery** (`documents.service.ts:89-115,154-204`, `scripts/signal_consumer.py`).
State: signal-api's inbox, `signal:pending:*` and `signal:processed:*` in Redis. Operations:
the API and the consumer both empty the inbox; the consumer stores attachments and notes in
Paperless and forwards commands by HTTP; the API parks those in Redis for its next poll.
Hard: who gets which message, keys that collide or are read twice, timestamps of two clocks.
Correct if: a message has one fate; a command is executed once and an upload happens once;
an approval reaches the API; what a reply says is so.

**Onboarding** (`users/users.service.ts`, `users/paperless.service.ts`). State: directories,
the mailbox, Paperless users, accounts, rules and workflows. Run by a poll each minute, by
Authentik's webhook and by the administrator, without mutual exclusion. Hard:
check-then-create, failures half way (the directory that marks a user as onboarded comes
first). Correct if: each object exists once, an onboarding that ends has made all of them,
and a user behind one who always fails is onboarded too.

**User attributes** (`ldap/ldap-metadata.service.ts`, `users-me.service.ts`,
`documents.service.ts:509`, `mail-imap.service.ts:153`, `users.service.ts:185`,
`scripts/sync_users.py`) and **mail credentials** (`mail/mail-imap.service.ts`). State: one
attribute map per user in Authentik, a cache of it in Redis, the mailbox password in Mailcow
whose copy is in the map. Hard: all writers read the map, wait, and write it back whole; the
password is set in one system and stored in another, and a refusal of Mailcow in an answer of
status 200 is not read. Correct if: no update undoes another
one, the cache does not keep what was overwritten, and the stored password opens the mailbox.

**Proactive hints** (`proactive/proactive.service.ts`), **Finance** (`finance/*.ts`), **Push
subscriptions** (`push/push.service.ts`). State: `proactive_hints`, `finance_*` and
`push_subscriptions`. Hard: scans that overlap with themselves and with user requests,
check-then-insert everywhere. Correct if: one mail, ticket or document gives one hint or
transaction, approvals one subscription; one accepted hint one event; an endpoint that was
registered is kept while it lives.

**Tags of a document** (`documents.service.ts:564-681`). State: the tags in Paperless. Hard:
two jobs per document read the list, wait and write it back. Correct if: no tag is lost or
made twice.

**Portal** (`portal/app`, `portal/hooks`). State of a page in the browser, fed by some thirty
routes of the portal's server, which call handlers of the API. Hard: nothing cancels a load
that another has superseded; failures turn into empty lists or successes on the way; the
hook sends a request again that timed out; the state request of the installation page races
its event stream; streams of two answers overlap in the chat. Correct if: the page ends up
showing what is stored, and an answer is its own stream, whole.

*Ticket reminders* and the schedules of the hourly and daily jobs: two calls of BullMQ
(remove, add) at each start, and a read of open tickets each hour. *Notifications* and *audit
log*: sending and appending. *Backup, restore and provisioning of directories*: sequential
shell scripts.

How they interact. Authentik is the directory all others read phones and preferences
from. Signal messages reach tickets and documents through one loop, tickets first: an
approval confirms the oldest pending ticket of its sender and only without one approves a
document. Paperless calls the API after each document; the API calls Paperless for text
and tags. Tickets, mails and documents feed the hint scan; accepted hints go to the
calendar. A crash of the API loses every activation in progress and every message it had
received; Postgres, Redis and the other systems survive.

## 2. Modules

| module | models | kind |
|---|---|---|
| `Bootstrap` | `BootstrapService`, its table, the three `provision()`, re-provisioning | component |
| `SignalTickets` | `TicketsService` and the ticket part of `pollSignal`, the dashboard | component |
| `TicketLifecycle` | the life of a ticket as its user sees it | abstract specification |
| `DocSummary` | `onConsumed`, approvals, the queue and the worker | component |
| `SignalDelivery` | the consumer script, `handleSignalCommand`, receiving and draining in `pollSignal` | component |
| `MessageFate` | what becomes of a message: acted upon, stored or lost, once | abstract specification |
| `UserAccounts` | one user's attributes, their cache and the mailbox password, all writers | component |
| `Onboarding` | `onboardUser` with its three callers, `PaperlessService` | component |
| `ProactiveHints` | scans, `acceptHint`, `dismissHint` | component |
| `Finance` | the mail poller, transactions and their subscriptions | component |
| `PushSubscriptions` | `PushService`, and browsers that renew and register their endpoint | component |
| `DocumentTags` | `categorizeDocument`, `tagDocumentForGpt` | component |
| `PortalServices` | what routes and handlers make of a failure | operators |
| `PortalPages` | a page: loads, changes, retries (EXTENDS `PortalServices`) | component |
| `BootstrapView` | the installation page, its request and its event stream | component |
| `AssistantChat` | `AssistantProvider` and `chatStream` | component |
| `MCBootstrap`, `MCSignalTickets`, `MCDocSummary`, `MCSignalDelivery` | model values for TLC | instances |
| `MCAccounts`, `MCServices` | several components side by side | instances |
| `CommonLemmas` | least numbers, sums over finite sets, sequences | lemmas |
| `BootstrapProofs`, `SignalTicketsProofs`, `DocSummaryProofs`, `SignalDeliveryProofs` | theorems about the component, see section 4 | proofs |
| `AccountsProofs` | theorems about `UserAccounts`, `Onboarding` and, of `MCAccounts`, the two side by side | proofs |
| `ServicesProofs` | theorems about `Finance`, `PushSubscriptions`, `DocumentTags`, `ProactiveHints` and `MCServices` | proofs |
| `PortalProofs` | theorems about `BootstrapView`, `AssistantChat`, `PortalPages` | proofs |

An action is what the code does between two awaits that matter: a remote call or a query
with the assignments up to the next one. Every activation (a pipeline, a poll, an HTTP
call, the worker) has a program counter: `phase` in `Bootstrap`, `at` and `step`
elsewhere. What it keeps in local variables over an await is state too (`saving`, `held`,
`found`, `batch`, `todo`), because it may be stale when used.

**Bootstrap.** `currentState`, `lastEvent` (the tail of `eventLog`), `lastRow` and
`readyRow` (what of `onboarding_events` is read again after a restart), `exists` (the parts
that exist in Authentik, Mailcow and Traefik). `Boot` and `BootAndStart` are `onModuleInit`
without and with the automatic start; `startBootstrap` is the HTTP start.
`EnterNextState` is `transition`, `emitEvent` with `persistEvent` the two halves of every
logged event. A provisioning function is the list `Calls[stage]` of what it creates; `Look`
and `Make` are the look-up and the creation with their failures.

**SignalTickets.** `rows` is the table; ids are in the order of `createdAt`. `Receive`
empties `inbox`; the other poll actions handle `Head(batch[p])`. `FindPending`,
`NumberPending` and `SaveTicket` are the three awaits of `confirmPending`. Any call may
throw (`Throw`), and `findUserByPhone` turns a failure into "no account" (`NoAccount`).
Saving a row writes all of it and inserts it if it is gone, as TypeORM's `save` does.

**DocSummary.** `onConsumed`, `InsertDoc`, `FindPhones`, `Prompt` and `Record` are the
awaits of `onConsumed` (the unique index on `paperlessId` included); `FindNotif`, `Mark`
and `Enqueue` those of an approval; `TakeJob` to `FailJob` those of `processSummary`.
`Deliver` goes on whether or not the summary was sent: `sendSignal` catches what fails.
`Crash` gives an active job back to the queue once, which is BullMQ's default for a stalled
job.

**SignalDelivery.** `inbox`, `pending` and `processed` are outside both programs. Of the
consumer: `ConsumerReceive` takes the whole inbox, and for each message `Decline` (approvals,
plain texts and syncs), `Forward` (with the API's handler `handleSignalCommand`), or
`mark_processed` and one `upload_to_paperless` for each attachment. Of a poll: `Receive`,
`ListKeys`, `GetKey` and `DeleteKey` are the awaits of receiving and draining; `HandleMessage`
is one round of the loop, whose details are in the two modules before. A message keeps its
sender's timestamp until it is parked, and then goes by the API's millisecond. `secret` says
whether the consumer was given the API's secret, and never changes; without it the API refuses
what `Forward` posts. `acted`, `stored` and `told` count what was done.

**UserAccounts.** A request is one activation of a handler; `Handlers` says with which step
each begins, which fields it changes and whether it drops the cached entry. `Read`, `Patch`
and `Del` are the three awaits of a writer, `CacheHit`, `Fetch` and `Setex` those of
`getAttributes`; `Check`, `Add`, `Reset` and `Patch` those of a mailbox. A request is also the
value it writes, so a field tells who wrote it. Every call may fail before or after the
server has done it; `Add` and `Reset` may also be refused without the handler's noticing
(`Refuse`), as it does not look at the body of an answer.

**Onboarding.** `act[p]` is one activation of `onboardUser`: its user, the object it ensures,
the creating calls it has made for it. `LookUp`, `Post` and `Created` stand for all ensure
functions; `CallsFor` gives their number of calls. `CallFails` throws, which ends the round of
a poll (`Throw`), except at the mailbox. `PollList` and `PollUser` are `pollForNewUsers`.

**ProactiveHints, Finance, PushSubscriptions, DocumentTags.** A scan, an update, a send or a job
is an activation with a step, and what it has read (`known`, the rows, the tags) is kept until
it is used. What a language model answers is a free choice: how many dates, which category, a bill or
none. In `ProactiveHints` each source has its own list of what a scan is shown; `Fresh` says at
which places of what was found `saveNewHints` has no row, and `RowsAt` takes those. In what order
they are inserted is left open, as they are told apart by their ids. In `Finance` the
subscriptions that approvals made (`subs`) and those the user entered with the number of a
transaction (`own`) are kept apart: the look-up finds both, and only approvals look. In
`PushSubscriptions` the browser makes its keys and posts them (`Renew`, `PostAgain`); the post may
fail at the portal or on its way (`PostFails`) and reach the API after a newer one
(`saveSubscription`).

**PortalServices and PortalPages.** A handler is the set of answers it may give when what is
behind it fails; a route says whether it passes the status on. A page is a record: what can be
picked on it, the failures its load may meet (`ReadFaults` of handler and route), what it does
after one, and the changes it sends. One set of actions is every page: `Pick` and `LoadMore`
start a load, `Serve` answers it, `Arrive` shows it, in any order; `StartChange`, `Send`,
`Resend` and `Conclude` are a change. `display` and `stored` are compared by whose data they
are and whether they have the user's change.

**BootstrapView.** `current` and `eventLog` are the API's: a pipeline that advances or fails,
checks that report at any time. An event is emitted before its row is inserted, and the insert
may fail without consequence; as only a start reads the table, `restoreStateFromDb` settles
which events since the last start are in it (`table`), with the events of checks in any order,
or that it cannot be read. `emitted` has all events there were. `streamEvents` copies the log
and `Subscribe` follows it, `Break` ends a connection, `view` is the page.

**AssistantChat.** `answers[q]` is the stream of question `q`; `Token` appends to the message
with its number, wherever it is by then. `storage` holds the newest `MAX_STORED` messages.

`MCAccounts` and `MCServices` extend several components that share no state. `focus`
names the one that moves; the others stay in one initial state, so that the run adds their
state spaces instead of multiplying them; `AllTypesOK` is the type invariant of all of them. A behaviour
of the composition is one of each part (`BothParts`, `AllParts` in the proof modules).
Where one calls another (an onboarding sets up a
mailbox, an accepted hint makes an event) the call stands in the caller with every outcome it
may have.

## 3. Runs

| run | configuration | shows |
|---|---|---|
| `bootstrap` | 2 pipelines, 1 prober, re-provisioning, 2 disturbances | type and safety invariants, `ForwardOnly`, `PipelineConcludes` |
| `bootstrap_resume` | the same | **violated**: a restart in the middle of provisioning resumes nothing |
| `tickets` | 1 poll, 1 user with 2 phones, dashboard, 5 messages, 1 fault | `NumbersIdentify`, `OldestFirst`, `AnswerSettles`, refinement of `TicketLifecycle` |
| `tickets_overlap` | 2 polls, 2 users, dashboard, 5 messages, 1 fault | `OnlyApproved` (a ticket needs a confirmation of its own, and numbers do not run ahead of confirmations) |
| `tickets_seq` | 2 polls, 1 user, no fault | **violated**: two open tickets of one user share a number |
| `documents` | 2 documents, 3 reports, 2 polls, 1 fault | `PromptedOnce`, `SummariesAskedFor`, `DoneIsAccounted`, `ProcessingConcludes` |
| `documents_answers` | the same, no fault | **violated**: an approval handled before its prompt's row is inserted is lost |
| `delivery` | the consumer with and without the secret, 2 polls, 2 of 6 messages, 3 milliseconds, 1 fault | `NoDoubleProcessing`, `NothingMissing`, `NoteConfirmed`, `Settles`, refinement of `MessageFate` |
| `delivery_approvals` | the same | **violated**: an approval the consumer receives never reaches the API |
| `delivery_commands` | the same | **violated**: a command that a consumer without the secret forwards is refused and forgotten |
| `accounts` | 3 requests, 2 at a time; or 2 users, 1 poll, 1 other activation, 1 deletion, 1 failure of the file system | `AttributesKept`, `PasswordUsable`, `ProfileReadsFresh`; `EnsuredOnce`, `OnboardedWhole`, `EveryoneReached` |
| `services` | one of seven components, see *Bounds* | `HintsSound`, `CountedOnce`, `SubscriberKept`, `TagsKept`, `PageTrue`, `ViewFollows`, `ChatWhole` |

The five violated properties quote what the repository promises of itself; PROJECT.json
"findings" gives the line that promises and the line that does not keep it. The properties
are stated with their reasons at the end of each module.

*Bounds.* `MaxDisturbances = 2` in `Bootstrap` allows the pairs that matter: a crash and a
crash of the recovery, a lost row and a crash, a check and a crash, re-provisioning beside
a failing pipeline; a third disturbance meets a state the first two can already make.
Failures of remote calls are not bounded. Two pipelines are enough for one beside another,
because `SinglePipeline` (proved for any number) leaves at most one active. In
`SignalTickets` five messages make two tickets, confirm both and mark one done, or create
and answer in every order over two phones; `MaxInbox = 2` makes batches longer than one, so
that a failure drops something. In `DocSummary` document `x` is reported twice, document
`y` goes to two phones, and phone `a` owes two answers, so "oldest first" is a choice.
In `SignalDelivery` there is one message of every kind that is treated in a way of its own,
of two senders; any two of them are sent, in any order, and three milliseconds let their
keys and timestamps collide or not (three messages in two milliseconds were explored too,
1.3 million states). One fault is one crash or one failing call at any await, or one
expired key.

In `UserAccounts` a third request can follow two that met or failed, which is what a stale map,
a stale cache entry and a password that was set but not stored need; remote calls may always
fail. In `Onboarding` the first user can fail for ever before the second is reached, an
activation of the webhook or the administrator runs beside the poll, and a deleted user can be
created again. In `MCServices`: a mail and a document share their number and a ticket does not
have it, with two scans and one request to accept; one bill, two scans of the mailbox, two
updates and room for a second transaction; two endpoints, two sends and three renewals; two
documents that want the same tags; three loads and two changes on each page, with two retries;
three events, in one process or over a restart that may have saved any of them, and one break of
the stream or restart; three questions of two tokens with room for three messages, so that the
oldest is cut off.

*Deadlock* is off in all runs: the bounds let every behaviour end, and so does the code
when nobody sends anything.

*Fairness.* `FairSpec` is weak fairness of steps the environment does not control. For
`Bootstrap`: a pipeline that can take a step takes one. Node runs ready callbacks, so this
says that remote calls return or fail; the provisioning calls have no timeout of their own,
so it assumes the operating system ends a dead connection. For polls: `setInterval` starts
one every five seconds and all its calls have timeouts. For the worker: BullMQ takes
waiting jobs, and Paperless, Ollama and Signal are called with timeouts. The consumer's
loop is like the poll's, and its calls have timeouts. Nothing is assumed
of users, of Paperless' reports or of administrators. `OnboardingFairness` (run
`accounts`): the timer fires and the calls of a poll return or fail (weak), and Authentik does
not fail each time it is asked for one user (strong, one for each user): a failed `Fetch`
skips the user without an error, to be tried in the next minute. Paperless and Mailcow may
fail for ever. `tickets_overlap` and the
violated safety runs need no fairness.

*Limits of what a passing run says.* `tickets` holds for polls that do not overlap, one
activation at a time; `tickets_seq` shows that it fails when they do. A ticket is touched
by the dashboard only once the page has shown it (it has been open). `ProcessingConcludes`
and `AnswerSettles` exempt behaviours in which something fails: the code makes no promise
for them, and a failure between the status and the queue does leave "processing" for good.
`DoneIsAccounted` allows as many undelivered summaries under "done" as calls have failed, since
nothing tells the worker. A user's two phones are different numbers.
`delivery` has the consumer with the API's secret and without. `docker-compose.yml:443-458`
gives it none, and then the API refuses every command it forwards (`delivery_commands`), so
`NothingMissing` speaks of commands only where the secret is set. It exempts behaviours with a
fault, but not those with a collision: a command parked in the millisecond of another replaces
it, and a note is skipped if its timestamp is that of another one, and then the other must not be
lost. A bare attachment that the API
receives instead of the consumer is lost, and so is a message from a second device that the
consumer receives: `NothingMissing` speaks of neither.

The runs `accounts` and `services` are about code that checks and then acts without any lock.
Two activations of it that meet do go wrong, and nothing in the repository says they do not
meet; so each module records the meeting in a variable that is not in the program (`met`,
`refused`, `missed`, `together`, `scansMet`, `finMet`, `pushMet`, `tagMet`, `doubt`, `unsaved`,
`why`), and its property exempts just that: two writers of one attribute map; a password that
Mailcow refused in an answer nobody reads; a deletion from the cache that failed; two
activations for one user; two scans; two updates of one transaction; an endpoint registered
while a send held it for gone; two jobs on one tag or one list of tags. What remains is what the
code does protect: everything one after the other with a failure, a lost answer or a restart
anywhere, and every other interleaving. `PageTrue` exempts a page until its next good load after
an answer that was overtaken by a later load's, outrun by a change or came for something no
longer picked, and after a failure, shown or masked. A page has one change under way at a time,
and nobody else changes its data.

### Divergences met while modelling

Those with a violated run are in PROJECT.json. The others are in the models as the code has
them, and are listed here for its maintainers:

- `app/api/me/finance/[...path]/route.ts:19` of the portal asks for `/me/finance/...`, which is also what
  `docs/superpowers/specs/2026-05-31-finance-module-design.md:63` says; the API serves
  `/users/me/...`. Every request of the finance pages is answered 404 (`NoHandler`). The API has
  no `/users/me/tree` either.
- `proactive.service.ts:197,229`: the n-th extracted date is filed under the n-th item shown,
  although the prompt lets the model leave items out. `:278`: references are compared without
  their source, so a mail hides the document of the same number. A finance alert is inserted
  by every scan.
- A failed DNS or port check is caught and reported as a warning (`bootstrap.service.ts:145`), and
  the pipeline goes on; `README.md:100` and `:298` of the repository say that it blocks the
  installation. In `Bootstrap` a probe that fails (`verified`) changes nothing after it.
- Only approvals look whether a transaction has a subscription: one that the user enters with the
  number of a transaction is a second one.
- `resetMailcowPassword` and both calls that create a mailbox take every answer of status 200 for a
  success (`mail-imap.service.ts:85-126`, `users.service.ts:166-177`): a password Mailcow refused
  is stored as the mailbox's. A summary that could not be sent is marked as done
  (`documents.service.ts:548-554`).
- A transaction from mail that was deleted is inserted again by the next scan of the mailbox; a
  recurring transaction entered by hand makes no subscription.
- An onboarding that fails after the directories is not tried again by the poll.
- The routes for hints and contacts drop the status of the API: a hint that could not be accepted
  disappears from the page. Those that delete or mark mail always answer 204. `createEvent` and
  `createContact` take an answer of 4xx for success.
- Deleting a mail and approving a transaction load again what was picked at the click. After a
  late answer the list of one folder stands under the name of another, and a click deletes the
  message of that number in the wrong one.
- The page of the installation can show an old state for good: the answer to its request may come
  after READY has closed the stream. An event between the copy of the log and the subscription
  is missed (`bootstrap.controller.ts:77`), and each connection leaves a subscription behind
  (`:86`).
- In the chat, a question that fails resets `thinking` while another waits, and clearing during
  an answer leaves the answer without its question.

### Not modelled

Ticket reminders and the schedules (no state but BullMQ's own, renewed at each start); the
consumer's cache of phones, and with it whom a document belongs to; notifications and the audit
log (nothing reads them back); sending mail and the vacation settings, roles, branding and the
summaries of the dashboards (one call each); the conversion of calendar entries, contacts and
MIME; rendering; the shell scripts.

## 4. Proofs

Every theorem is about a component's own specification (`Spec`, `HintsSpec`, `PageSpec`, ...) or
about the `MCSpec` that runs several side by side, for all values of its constants that satisfy
its assumption; a run checks the same property on the instance of its MC module. The assumptions
stand in the component modules (`BootstrapAssumption` to `HintsAssumption`) and say no more
than: kinds of activation are different from each other, bounds are natural numbers, tables have
the domains they are used with, a number names one item of its source, and what is counted or
summed over (requests, polls, phones, documents) is finite.

| module | theorems |
|---|---|
| `BootstrapProofs` | `Invariance`; `TypeCorrect`, `OnePipeline`, `StateIsHonest`, `LogIsHonest`, `OnlyForward`, `ReadySurvives`, `PasswordWasSet`; `StrandedStays`, `BegunIsPursued`, `PipelineEnds` |
| `SignalTicketsProofs` | `Invariance`; `TypeCorrect`, `OldestAnswered`, `LifeRefined`, `NumbersName`, `ApprovedOnly`; `AnsweredForGood`, `NumbersStay` |
| `DocSummaryProofs` | `Invariance`; `TypeCorrect`, `DoneAccounted`, `OnePrompt`, `OnRequest`; `OneSummary`, `NeverBack` |
| `SignalDeliveryProofs` | `Invariance`; `TypeCorrect`, `ProcessedOnce`, `ConfirmedIsStored`, `NothingIsMissing`, `FateRefined`; `CommandsRefused`, `ApprovalsLost`, `ApprovalsWithoutConsumer` |
| `AccountsProofs` | `AccountsInvariance`, `AccountsTyped`, `NothingLost`, `PasswordOpens`, `ReadersUpToDate`; `OnboardingInvariance`, `OnboardingTyped`, `NoDuplicates`, `NothingSkipped`, `RoundsEnd`; `BothParts`, `BothTyped`, `BothKeep` |
| `ServicesProofs` | `PushInvariance`, `NoneForgotten`; `TagsInvariance`, `NoTagTaken`; `FinanceInvariance`, `NothingTwice`; `HintsInvariance`, `OfferedAndAccepted`; `AllParts`, `AllTyped`, `AllKeep` |
| `PortalProofs` | `ViewInvariance`, `ViewCatchesUp`; `ChatInvariance`, `AnswersWhole`; `PageInvariance`, `ShownAsStored` |

PROJECT.json "theorems" says which property each of them states. `CommonLemmas` holds what they
share: smallest and largest elements of sets of numbers, a bound of finitely many numbers, heads
and tails of sequences, sums over finite sets (that the fold is defined, and that two functions
which differ at one element have sums that differ by as much: both by the smallest subset that
would violate it, as the provers have no induction), and how often members of a set occur in a
sequence and in the batches of all polls.

All follow one argument. None of the properties is inductive; an invariant is, which adds what
each activation may rely on between two of its awaits. It holds initially, every step keeps it
(a lemma for each action, or for each action and each part the action can disturb), and it
implies the property. What the invariants add, and what goes wrong without it:

**Bootstrap** (`IInv`). `StateImpliesParts` is about `currentState`, but a restart takes it from
`lastRow`, and a pipeline advances it when its list of calls is finished. So the row and every
event still being saved promise no more than exists (`Honest`); the calls before `idx` have been
made, except those whose failure is swallowed (`CallsMade`); a pipeline works on the state the
process is in (`RunsInState`); a phase is one its stage has (`PhaseFits`); a process that is down
has no activations (`DownIsQuiet`). For `ReadySurvives`: after one start (`OneStart`) and
without an HTTP check (`QuietOthers`) the row of READY is the last one (`ReadyRowLast`). For
`PasswordWasSet`: after one start nothing is behind the password's state without it, in memory,
in the table or on its way there (`PasswordFirst`).

Three theorems say what becomes of a setup that has begun. `bootstrap_resume` refutes that a
restart resumes it; `StrandedStays` says that it is never resumed afterwards, since the HTTP start
is refused in every state but the first, and `BegunIsPursued` that the process it began in does
pursue it (`FirstLife`: without a crash, the start is the only way out of the first state, and its
pipeline is still there). `PipelineEnds` is the part of `PipelineConcludes` that needs no fairness:
the state, the calls left in it and the event still to be saved give a number of at most 161, which
each step of the pipeline makes smaller and no other job changes (`OwnStepsDescend`, `OwnSteps`,
with `CallsFit`: the index stays within the list of calls).

**SignalTickets** (`TicketInv`, for any number of polls and requests). A worker that holds a row
holds it under its owner and phone (`Known`); what a poll settles is the oldest of its phone,
also when others have settled it meanwhile (`OldestHeld`); a ticket that was open never waits
again and one that never was is not deleted (`Shown`). `OldestAnswered` is an action property
that follows from it. The other two theorems have hypotheses, which are the point of the run
`tickets_seq`: with one poll at a time (`OnePoll`) nobody else settles the ticket it holds
(`Settling`), and then every step is a step of `TicketLifecycle` (`LifeRefined`); with one
request at a time as well (`OneRequest`) a number stays with its ticket (`Numbered`). With two
requests an update can write back a ticket that the other has deleted, when its number has been
given again. With the same hypotheses a ticket keeps its number (`NumbersStay`; with two polls
TLC finds a cancellation that loaded the row before the confirmation and saves it over the
numbered ticket). `AnsweredForGood` needs none of them: a row is only changed by saving a copy
whose status is not "pending_confirm" (`ChangedBySave`, `AddedBySave`, `Shown`), so stale as the
copy may be it puts no settled question to the user again.

`ApprovedOnly` has no hypothesis. `Ahead` counts the approvals that wait in the inbox or in a
batch, the one at hand included; those that have been sent and are not ahead pay. So `ShownPaid`
(the tickets of a phone ever shown, and its approvals ahead, are no more than its approvals) and
`NumbersPaid` (likewise each number in the table or in a worker's hands, per user) are kept by a
step that only uses messages up (`PaidStep`, `WithinStep`). A poll that opens a ticket is one number
in debt until it saves it, and then the approval it handles (`Approving`) is used up
(`ApprovalUsed`). `Sources` says where each row, each row held and each ticket shown after a step
comes from.

**DocSummary** (`IInv`). The worker has stored a summary before it reports success
(`WorkerInOrder`), and the notifications it takes for sent though nothing was (`Owed`) are no
more than the calls that failed (`OwedToFaults`), which gives `DoneAccounted`; a call prompts
phones of the owner and has one left (`CallsPrompt`). `OnePrompt` needs that the call that
inserted a document is the only one that prompts for it and that the phones it has left are
distinct and not prompted (`Unprompted`), and so its hypothesis is `PhonesDiffer`:
`documents.service.ts:697` takes both phone fields of a profile without comparing them, and a
user who entered one number twice is prompted twice. `OnRequest` needs no hypothesis: the
approvals of a phone that wait in the inbox or a batch, its queued jobs, the summary being made
and those delivered are together no more than its approvals and the reruns (`AskedFor`), as the
poll that queues a job has the approval at hand that its notification is for (`FoundIsAsked`).

`OneSummary` and `NeverBack` say what one poll at a time (`OnePoll`) is worth: the row a poll has
loaded is still pending when it is marked and has no job when one is queued (`Held`), a notification
has one job at most (`OneJob`), and a job that was never run before has sent nothing (`Budget`). TLC
confirms `Handled` with one poll and two faults and refutes `Held` with two polls, which load the
same row, queue two jobs for it, send two summaries and take "failed" back to "processing".

**SignalDelivery** (`DeliveryInv`). Where a message is: in the inbox, and nobody has handled it
(`Queued`); with one reader, which has not acted upon it (`Received`); parked under one key
(`Forwarded`); drained, its key deleted next unless it leads to another message (`Drained`,
`Deleting`); being uploaded, what is stored and what is left adding up to its files (`Uploaded`,
`Marked`). `CountOf` bounds how often it was acted upon by the polls that have it and may still
act, which gives `ProcessedOnce`. `NothingIsMissing` adds `Accounted`, for commands where the
consumer has the secret and for notes: as long as nothing has failed, one that is lost has an
heir, another message of its timestamp that waits or was not lost itself (`Kept`, `Heir`). A key
that is written over leaves the heir parked, and a mark that is mistaken for a message's own was
made by the heir (`MarkHasHeir`, `LossHasHeir`). `CommandsRefused` is the other half: without
the secret each forwarded command is lost in that step. `ApprovalsLost` says how an approval or
another text gets lost: in the consumer's hands (`AtConsumer`), to a message stored or parked
under its timestamp (`Twin`), or by a call that fails in that step, and otherwise never, however
polls overlap. TLC refutes it without either of the first two. So `ApprovalsReachApi`, which
`delivery_approvals` refutes, is true where the consumer does not run
(`ApprovalsWithoutConsumer`). `FateRefined` shows every step to be a step of `MessageFate` or a
stutter.

**UserAccounts** (`AccountsInv`). Each part says "as long as no two have met": then there is one
writer (`OneWriter`), a map that will be written back is the current one (`Kept`), a password
that is stored or about to be and was not refused is the mailbox's (`SamePassword`, from
`Careful`), and what the cache has is current unless a request is about to delete it
(`CacheFresh`, with `OneAtATime`). That a password that was not refused is stored only for a
mailbox that exists (`HasMailbox`) needs no such premise.

**Onboarding** (`OnboardingInv`). Two activations of one user are known to be together
(`MetTogether`); one that is alone and creates an object has found none, and there is none
(`StillAbsent`); an activation has left behind what it has passed (`Passed`); the calls made for
an object are counted while it is at the object (`CallsCounted`). `RoundsEnd` is the part of
`EveryoneReached` that needs no fairness: a round loses a user or is dropped, or the activation at
hand comes nearer to its end (`WorkDescends`: places only follow one another, with at most three
calls at each), and no other activation changes either.

**Finance, PushSubscriptions, DocumentTags, ProactiveHints.** `FinanceInv`: one scan, whose mail
has no transaction; one update of a transaction, which finds no subscription when it makes one;
an update has seen to the subscription before it writes. `PushInv`: the browser of an endpoint held
for gone has no subscription, or one the API has not saved (`GoneIsGone`); a renewal has keys that
no row and no post has (`KeysKnown`). `TagsInv`: a job that will write has read the
current tags and is the only one (`OneTagger`), a job that will create a tag finds none
(`OneMaker`). `HintsInv`: a scan that looks up or inserts is alone (`OneAtWork`) and knows every
row there is (`KnowsAll`), what it was shown and what it found have no item twice (`ShownOnce`,
`FoundOnce`); a request that makes an event has a row that is not pending (`RowsOfRequests`), and
every event was made by a request of its own that has ended (`EventsCounted`).

**The portal.** `ViewInv`: page, answer, stream and table have nothing but events there were
(`Genuine`),
and as long as nothing went wrong with a connection what is on its way is the end of the log and
the page shows what came before (`InStep`). `ChatInv`: what a message may say while tokens come,
afterwards, and loaded from a storage that had missed some (`PageTells`, `StorageTold`), that each
question has one message and one answer (`OneEach`), and that the storage is the page until a save
fails (`Saved`). `PageInv`: the last load that replaces what is shown is for what is picked
(`LastIsPicked`, `NewestIsNewest`), an answer under way has what is stored or a change was executed
since (`ServedAsStored`), what is shown is what is picked but for a change under way
(`ShowsPicked`, `ShowsBefore`), and every execution answers a sending of its own (`EachSending`).

### Only model-checked

- Liveness: `PipelineConcludes`, `AnswerSettles`, `ProcessingConcludes`, `Settles` and
  `EveryoneReached` rest on fairness, which the prover does not treat. Of the first and the last
  the measure that decreases is proved (`PipelineEnds`, `RoundsEnd`); that a step is taken is not.
- The five violated properties, which are false.

No module has a recursive operator.

## 5. Plan

Done: `Bootstrap`; `SignalTickets` with `TicketLifecycle`; `DocSummary`; `SignalDelivery` with
`MessageFate`; `UserAccounts` and `Onboarding`; `ProactiveHints`, `Finance`, `PushSubscriptions`,
`DocumentTags`; `PortalServices`, `PortalPages`, `BootstrapView`, `AssistantChat`. Every safety
invariant, action property and refinement that a passing run checks is proved, those of the two
composed modules for the composition.

Next: one theorem for a message from signal-api to the ticket it opens. `SignalDelivery` and
`SignalTickets` both model the inbox and the batches and are modelled apart.

The parts under "Not modelled" are not planned.
