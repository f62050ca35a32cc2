---------------------------- MODULE PortalServices ----------------------------
(***************************************************************************)
(* What stands between a page of the portal and what it shows: a route of  *)
(* the portal's server and a handler of the API. Here is, for each, what   *)
(* becomes of a failure on the way: some report it, and some turn it into  *)
(* an empty answer or into a success.                                      *)
(***************************************************************************)
EXTENDS FiniteSets

-----------------------------------------------------------------------------
(* Handlers that read: what they may answer when a service behind them      *)
(* does not.                                                                *)

Reported == {"error"}
Hidden == {"empty"}

getStats == Reported
getMessages == Reported
getMessage == Reported
\* Null, which the controller turns into 404.
getDocumentById == Reported
getDocumentPreview == Reported
\* The user is looked up before: that failure is reported.
documents == Reported \cup Hidden
getDocumentTypes == Hidden
notifications == Reported
getPreferences == Reported
getLdapProfile == Reported
getTicketsForUser == Reported
listAll == Reported
listUsers == Reported
getEvents == Hidden
getContacts == Hidden
getHints == Reported
immichProxy == Reported

\* Handlers the API does not have: every request is answered 404.
NoHandler == Reported

-----------------------------------------------------------------------------
(* Handlers that write: what a success may mean. The change was made, is     *)
(* queued, or was refused. A failure may always follow a change that was    *)
(* made.                                                                    *)

Made == {"done"}

deleteMessage == Made
markSeen == Made
createUser == Made
deleteUser == Made
updateTicket == Made
deleteTicket == Made
updateLdapProfile == Made
updatePreferences == Made
acceptHint == Made
dismissHint == Made
\* An answer of the DAV server below 500 counts as success.
createEvent == {"done", "undone"}
createContact == {"done", "undone"}
\* Paperless answers as soon as it has queued the file.
upload == {"done", "undone", "queued"}

NoWriter == {}

-----------------------------------------------------------------------------
(* Routes: whether the status of the API's answer is passed on, and what    *)
(* the page gets when the API cannot be reached.                            *)

Passes(down) == [status |-> "kept", down |-> down]
Drops(down) == [status |-> "dropped", down |-> down]

mailStatsRoute == Passes("empty")
mailMessagesRoute == Passes("empty")
mailMessageRoute == Passes("error")
mailDeleteRoute == Drops("error")
mailSeenRoute == Drops("error")
documentsRoute == Passes("empty")
documentRoute == Passes("error")
documentPreviewRoute == Passes("error")
documentTypesRoute == Passes("empty")
treeRoute == Passes("empty")
uploadRoute == Passes("error")
notificationsRoute == Passes("empty")
preferencesRoute == Passes("error")
editPreferencesRoute == Passes("error")
ldapProfileRoute == Passes("error")
editLdapProfileRoute == Passes("error")
ticketsRoute == Passes("empty")
ticketRoute == Passes("error")
ticketDeleteRoute == Passes("error")
eventsRoute == Passes("empty")
newEventRoute == Passes("error")
contactsRoute == Drops("error")
newContactRoute == Drops("error")
hintsRoute == Drops("error")
acceptRoute == Drops("error")
dismissRoute == Drops("error")
adminUsersRoute == Passes("error")
newAdminUserRoute == Passes("error")
adminUserRoute == Passes("error")
adminTicketsRoute == Passes("error")
financeRoute == Passes("error")
immichRoute == Passes("error")
\* This one asks Immich itself.
photosRoute == [status |-> "kept", down |-> "empty"]

\* What a page may get for a read that failed somewhere: a status that is dropped
\* leaves a body without the list the page looks for.
ReadFaults(handler, route) ==
    {IF fault = "error" /\ route.status = "dropped" THEN "empty" ELSE fault : fault \in handler}
        \cup {route.down}

=============================================================================
