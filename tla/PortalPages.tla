------------------------------ MODULE PortalPages ------------------------------
(***************************************************************************)
(* A page of the portal: it loads what the user has picked, a change goes  *)
(* to the API, and then the page loads again or changes what it shows by   *)
(* itself. Nothing cancels a load that another has superseded: the answers *)
(* come in any order, and each replaces what is shown. The pages differ in *)
(* what they make of failures; a page is a record of these differences.    *)
(***************************************************************************)
EXTENDS Naturals, Sequences, FiniteSets, PortalServices

CONSTANTS
    MaxLoads,    \* bound: loads a page starts
    MaxChanges,  \* bound: changes made on it
    MAX_RETRIES, \* how often a request that is not answered is sent again
    NoChange     \* no change is under way

VARIABLES
    page, picked,
    display,     \* whose data the page shows, and whether the user's change is in them
    loading,     \* nothing is shown yet: a load was started and none has arrived since
    stored,      \* of what can be picked, how often a change of it was executed
    loads,       \* the loads in the order they were started
    change,      \* the change under way
    changes,     \* how many were made
    newest,      \* not in the program: the newest load that is in what is shown
    late,        \* not in the program: executions that may still follow their answer
    why          \* not in the program: why what is shown may be wrong

pageVars == <<page, picked, display, loading, stored, loads, change, changes, newest, late, why>>

\* What the user can pick: a page of a folder, an album, a tab. Most pages have one.
One == {"a"}
Two == {"a", "b"}

\* onError: what a load does that fails, keep what is shown or show nothing.
View(picks, faults, onError, more, writes) ==
    [picks |-> picks, faults |-> faults, onError |-> onError, more |-> more, writes |-> writes]

\* then: load again, apply the change to what is shown, or have done so before it was
\* sent. checks: only after a success. again: sent again when it is not answered.
Write(handler, route, then, checks, again) ==
    [handler |-> handler, dropped |-> route.status = "dropped",
     then |-> then, checks |-> checks, again |-> again]

-----------------------------------------------------------------------------
(* The pages                                                               *)

mailDelete == Write(deleteMessage, mailDeleteRoute, "reload", FALSE, FALSE)
openMessage == Write(markSeen, mailSeenRoute, "local", FALSE, FALSE)
fetchMessages == ReadFaults(getMessages, mailMessagesRoute)
MailClient == View(Two, fetchMessages, {"keep"}, FALSE, {mailDelete, openMessage})
MessageDetail == View(Two, ReadFaults(getMessage, mailMessageRoute), {"keep"}, FALSE, {})

fetchStats == View(One, ReadFaults(getStats, mailStatsRoute), {"keep"}, FALSE, {})
AppShell == View(One, ReadFaults(getStats, mailStatsRoute) \cup ReadFaults(getPreferences, preferencesRoute),
                 {"keep"}, FALSE, {})

handleUpload == Write(upload, uploadRoute, "reload", TRUE, FALSE)
loadDocs == ReadFaults(documents, documentsRoute) \cup ReadFaults(getDocumentTypes, documentTypesRoute)
                \cup ReadFaults(NoHandler, treeRoute)
DocsPage == View(One, loadDocs, {"empty"}, FALSE, {handleUpload})
DocViewerPage == View(One, ReadFaults(getDocumentById, documentRoute) \cup
                           ReadFaults(getDocumentPreview, documentPreviewRoute), {"keep"}, FALSE, {})

adminCreateUser == Write(createUser, newAdminUserRoute, "reload", TRUE, FALSE)
adminDeleteUser == Write(deleteUser, adminUserRoute, "reload", FALSE, FALSE)
AdminUsers == View(One, ReadFaults(listUsers, adminUsersRoute), {"keep"}, FALSE,
                   {adminCreateUser, adminDeleteUser})
AdminTickets == View(One, ReadFaults(listAll, adminTicketsRoute), {"keep"}, FALSE, {})

\* This page does not look at the status of the list.
usersCreateUser == Write(createUser, newAdminUserRoute, "reload", TRUE, FALSE)
usersDeleteUser == Write(deleteUser, adminUserRoute, "reload", FALSE, FALSE)
UsersPage == View(One, ReadFaults(listUsers, adminUsersRoute), {"keep", "empty"}, FALSE,
                  {usersCreateUser, usersDeleteUser})

addContact == Write(createContact, newContactRoute, "reload", FALSE, FALSE)
ContactsPage == View(One, ReadFaults(getContacts, contactsRoute), {"keep"}, FALSE, {addContact})

loadAssets == ReadFaults(Hidden, photosRoute) \cup ReadFaults(immichProxy, immichRoute)
PhotosGallery == View(Two, loadAssets, {"keep"}, TRUE, {})
Albums == View(One, ReadFaults(immichProxy, immichRoute), {"keep"}, FALSE, {})

calendarSave == Write(createEvent, newEventRoute, "reload", FALSE, FALSE)
CalendarClient == View(One, ReadFaults(getEvents, eventsRoute), {"keep"}, FALSE, {calendarSave})

markDone == Write(updateTicket, ticketRoute, "reload", FALSE, FALSE)
delTask == Write(deleteTicket, ticketDeleteRoute, "reload", FALSE, FALSE)
TasksClient == View(One, ReadFaults(getTicketsForUser, ticketsRoute), {"empty"}, FALSE,
                    {markDone, delTask})

\* The sum of the month comes from the finance route below and never does.
HomeTab == View(One, ReadFaults(notifications, notificationsRoute) \cup
                     ReadFaults(documents, documentsRoute) \cup ReadFaults(getStats, mailStatsRoute) \cup
                     ReadFaults(getTicketsForUser, ticketsRoute) \cup ReadFaults(getEvents, eventsRoute),
                {"empty"}, FALSE, {})

saveLdapAttrs == Write(updateLdapProfile, editLdapProfileRoute, "before", FALSE, FALSE)
updatePref == Write(updatePreferences, editPreferencesRoute, "before", FALSE, FALSE)
ProfileTab == View(One, ReadFaults(getPreferences, preferencesRoute) \cup
                        ReadFaults(getLdapProfile, ldapProfileRoute),
                   {"keep"}, FALSE, {saveLdapAttrs, updatePref})

accept == Write(acceptHint, acceptRoute, "local", TRUE, TRUE)
dismiss == Write(dismissHint, dismissRoute, "local", TRUE, TRUE)
HintsList == View(One, ReadFaults(getHints, hintsRoute), {"keep"}, FALSE, {accept, dismiss})

\* The route of the finance pages asks for a path the API does not have.
approve == Write(NoWriter, financeRoute, "reload", FALSE, FALSE)
reject == Write(NoWriter, financeRoute, "reload", FALSE, FALSE)
addTransaction == Write(NoWriter, financeRoute, "reload", FALSE, FALSE)
FinanceTransactions == View(Two, ReadFaults(NoHandler, financeRoute), {"keep"}, FALSE,
                            {approve, reject, addTransaction})
addSubscription == Write(NoWriter, financeRoute, "reload", FALSE, FALSE)
toggle == Write(NoWriter, financeRoute, "reload", FALSE, FALSE)
FinanceSubscriptions == View(One, ReadFaults(NoHandler, financeRoute), {"keep"}, FALSE,
                             {addSubscription, toggle})
FinanceOverview == View(One, ReadFaults(NoHandler, financeRoute), {"empty"}, FALSE, {})

\* Pages for which every load fails.
Unserved == {FinanceTransactions, FinanceSubscriptions, FinanceOverview}

Pages == {MailClient, MessageDetail, fetchStats, AppShell, DocsPage, DocViewerPage, AdminUsers,
          AdminTickets, UsersPage, ContactsPage, PhotosGallery, Albums, CalendarClient, TasksClient,
          HomeTab, ProfileTab, HintsList} \cup Unserved

-----------------------------------------------------------------------------
(* Loads *)

Load(of, more, moved) == [of |-> of, more |-> more, moved |-> moved, got |-> "asked", old |-> FALSE]

Loads == [of : Two, more : BOOLEAN, moved : BOOLEAN,
          got : {"asked", "with", "without", "error", "empty", "ended"}, old : BOOLEAN]
Changes == [what : UNION {p.writes : p \in Pages}, at : Two, tries : 1 .. 1 + MAX_RETRIES,
            answer : {"none", "ok", "error"}, sent : BOOLEAN]

ASSUME PageAssumption ==
    /\ MaxLoads \in Nat \ {0} /\ MaxChanges \in Nat /\ MAX_RETRIES \in Nat
    /\ NoChange \notin Changes

PageTypeOK ==
    /\ page \in Pages /\ picked \in page.picks
    /\ display \in [of : SUBSET page.picks, has : BOOLEAN]
    /\ loading \in BOOLEAN /\ changes \in 0 .. MaxChanges
    /\ stored \in [page.picks -> Nat] /\ late \in [page.picks -> Nat]
    /\ loads \in Seq(Loads) /\ Len(loads) <= MaxLoads /\ newest \in 0 .. Len(loads)
    /\ \A i \in DOMAIN loads : loads[i].of \in page.picks
    /\ \/ change = NoChange
       \/ change \in Changes /\ change.what \in page.writes /\ change.at \in page.picks
    /\ why \subseteq {"failed", "masked", "overtaken", "outrun", "moved", "late"}

PageInit ==
    /\ page \in Pages /\ picked = "a"
    /\ display = [of |-> {}, has |-> FALSE] /\ loading = TRUE
    /\ stored = [s \in page.picks |-> 0]
    /\ loads = <<Load("a", FALSE, FALSE)>>
    /\ change = NoChange /\ changes = 0
    /\ newest = 0 /\ late = [s \in page.picks |-> 0] /\ why = {}

\* A variant that waits for the next load to show what was picked.
Pick_NoLoad(s) ==
    /\ s # picked
    /\ picked' = s
    /\ UNCHANGED <<page, display, loading, stored, loads, change, changes, newest, late, why>>

\* The effect of the page runs again.
Pick(s) ==
    /\ s # picked /\ Len(loads) < MaxLoads
    /\ picked' = s
    /\ loads' = Append(loads, Load(s, FALSE, FALSE)) /\ loading' = TRUE
    /\ UNCHANGED <<page, display, stored, change, changes, newest, late, why>>

LoadMore ==
    /\ page.more /\ ~loading /\ display.of # {} /\ Len(loads) < MaxLoads
    /\ loads' = Append(loads, Load(picked, TRUE, FALSE))
    /\ UNCHANGED <<page, picked, display, loading, stored, change, changes, newest, late, why>>

\* The answer is on its way: what is stored now, or a failure.
Serve(i) ==
    /\ loads[i].got = "asked"
    /\ \E got \in page.faults \cup (IF page \in Unserved THEN {}
                                   ELSE {IF stored[loads[i].of] > 0 THEN "with" ELSE "without"}) :
           loads' = [loads EXCEPT ![i].got = got]
    /\ UNCHANGED <<page, picked, display, loading, stored, change, changes, newest, late, why>>

\* What the page makes of an answer.
Shows(l, what) ==
    IF what = "keep" THEN display
    ELSE [of |-> IF l.more THEN display.of \cup {l.of} ELSE {l.of}, has |-> what = "with"]

\* An answer that comes after that of a later load, one given before a change was
\* executed, one for something else than what is picked.
Doubts(i) ==
    {d \in {"overtaken", "outrun", "moved"} :
        \/ d = "overtaken" /\ i < newest
        \/ d = "outrun" /\ loads[i].old
        \/ d = "moved" /\ loads[i].moved}

Arrive(i) ==
    LET l == loads[i]
        failed == l.got \in {"error", "empty"}
    IN  /\ l.got \notin {"asked", "ended"}
        /\ \E what \in IF l.got = "error" THEN page.onError ELSE {l.got} : display' = Shows(l, what)
        /\ loads' = [loads EXCEPT ![i].got = "ended", ![i].old = FALSE]
        /\ loading' = FALSE
        /\ newest' = IF i > newest THEN i ELSE newest
        /\ why' = IF failed THEN why \cup {IF l.got = "error" THEN "failed" ELSE "masked"}
                  ELSE IF Doubts(i) # {} \/ l.more THEN why \cup Doubts(i)
                  ELSE {}
        /\ UNCHANGED <<page, picked, stored, change, changes, late>>

-----------------------------------------------------------------------------
(* Changes, one at a time *)

\* What is shown gets the change, and loads under way will take it away again.
Applied(at) == IF display.of = {at} THEN [display EXCEPT !.has = TRUE] ELSE display

StartChange(w) ==
    /\ change = NoChange /\ changes < MaxChanges
    /\ w.then # "reload" => ~loading
    /\ change' = [what |-> w, at |-> picked, tries |-> 1, answer |-> "none", sent |-> TRUE]
    /\ changes' = changes + 1
    /\ IF w.then = "before" THEN display' = Applied(picked) /\ newest' = Len(loads)
                            ELSE UNCHANGED <<display, newest>>
    /\ UNCHANGED <<page, picked, loading, stored, loads, late, why>>

\* The API executes a change for what was picked when the user made it.
Executed(at) ==
    /\ stored' = [stored EXCEPT ![at] = @ + 1]
    /\ loads' = [i \in DOMAIN loads |->
                    [loads[i] EXCEPT !.old = @ \/ loads[i].got \notin {"asked", "ended"}]]

\* What the page may be told is not always what was done.
Answers(w, done) ==
    {"none", "error"} \cup {ok \in {"ok"} :
        w.dropped \/ (IF done THEN "done" ELSE "undone") \in w.handler}

\* An attempt is executed or not, and answered or not; what was not answered, or only
\* queued, may be executed later.
Send ==
    /\ change # NoChange /\ change.sent
    /\ \E done \in {FALSE, change.what.handler # {}} : \E answer \in Answers(change.what, done) :
           /\ IF done THEN Executed(change.at) ELSE UNCHANGED <<stored, loads>>
           /\ change' = [change EXCEPT !.answer = answer, !.sent = FALSE]
           /\ late' = IF ~done /\ change.what.handler # {}
                         /\ (answer = "none" \/ "queued" \in change.what.handler)
                      THEN [late EXCEPT ![change.at] = @ + 1] ELSE late
    /\ UNCHANGED <<page, picked, display, loading, changes, newest, why>>

\* The hook sends a request again that timed out.
Resend ==
    /\ change # NoChange /\ ~change.sent /\ change.answer = "none"
    /\ change.what.again /\ change.tries <= MAX_RETRIES
    /\ change' = [change EXCEPT !.tries = @ + 1, !.sent = TRUE]
    /\ UNCHANGED <<page, picked, display, loading, stored, loads, changes, newest, late, why>>

LateExecution(s) ==
    /\ late[s] > 0
    /\ late' = [late EXCEPT ![s] = @ - 1]
    /\ Executed(s)
    /\ why' = why \cup {"late"}
    /\ UNCHANGED <<page, picked, display, loading, change, changes, newest>>

\* The page goes on: it loads what was picked when the change was made, or shows the
\* change. A request that fails altogether ends the handler.
Conclude ==
    LET w == change.what
        goes == change.answer = "ok" \/ (change.answer = "error" /\ ~w.checks)
    IN  /\ change # NoChange /\ ~change.sent
        /\ change.answer = "none" => ~w.again \/ change.tries > MAX_RETRIES
        /\ change' = NoChange
        /\ IF goes /\ w.then = "reload"
           THEN /\ Len(loads) < MaxLoads
                /\ loads' = Append(loads, Load(change.at, FALSE, change.at # picked))
                /\ loading' = TRUE
                /\ UNCHANGED <<display, newest, why>>
           ELSE /\ IF goes /\ w.then = "local"
                   THEN display' = Applied(change.at) /\ newest' = Len(loads)
                   ELSE UNCHANGED <<display, newest>>
                /\ why' = why \cup {d \in {"failed"} : change.answer # "ok"}
                              \cup {d \in {"masked"} : change.answer = "ok" /\ stored[change.at] = 0}
                /\ UNCHANGED <<loads, loading>>
        /\ UNCHANGED <<page, picked, stored, changes, late>>

PageNext ==
    \/ \E s \in page.picks : Pick(s) \/ LateExecution(s)
    \/ LoadMore
    \/ \E i \in DOMAIN loads : Serve(i) \/ Arrive(i)
    \/ \E w \in page.writes : StartChange(w)
    \/ Send \/ Resend \/ Conclude

PageSpec == PageInit /\ [][PageNext]_pageVars

-----------------------------------------------------------------------------
\* How often a change of the page may be sent.
Tries == IF \E w \in page.writes : w.again THEN 1 + MAX_RETRIES ELSE 1

\* A page that waits for nothing shows what is picked as it is stored, whatever order
\* the answers came in, unless one of the reasons above was met since its last good
\* load; and a change is executed once, or once for each time the hook sent it.
PageTrue ==
    /\ why = {} /\ change = NoChange /\ (\A i \in DOMAIN loads : loads[i].got = "ended") =>
           display.of = {picked} /\ (display.has <=> stored[picked] > 0)
    /\ \A s \in page.picks : stored[s] + late[s] <= changes * Tries
=============================================================================
