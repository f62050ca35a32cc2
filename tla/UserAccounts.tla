----------------------------- MODULE UserAccounts -----------------------------
(***************************************************************************)
(* The attributes of one user in Authentik and everybody who changes them. *)
(* Authentik keeps them as one map, and its API replaces the map whole:    *)
(* each writer reads the map, waits, and writes it back with its own       *)
(* fields changed. Preferences, the second phone number, the LDAP profile, *)
(* the Paperless user id and the mail password share the map.              *)
(*                                                                         *)
(* Two copies depend on it: the Redis cache of LdapMetadataService, and    *)
(* the mailbox of Mailcow, whose password the mail password must be.       *)
(*                                                                         *)
(* A request is one activation of a handler, numbered in the order they    *)
(* begin; a request is also the value it writes. Any remote call may fail, *)
(* before the server has carried it out or after (a timeout).              *)
(***************************************************************************)
EXTENDS Naturals, FiniteSets, Functions

CONSTANTS
    MaxRequests,  \* bound: requests altogether
    MaxActive,    \* bound: requests at a time
    NoValue,      \* an attribute that is not set, a mailbox that does not exist
    NoCache       \* no entry in the cache

\* What the bounds must be for the rest to make sense.
ASSUME AccountsAssumption ==
    /\ MaxRequests \in Nat /\ MaxActive \in Nat
    /\ NoValue \notin Nat

Requests == 1 .. MaxRequests

Fields == {"preferences", "phone2", "profile", "paperlessUserId", "mail_imap_password"}

\* A value is the number of the request that wrote it; 0 is one from before.
Values == Requests \cup {0, NoValue}
Maps == [Fields -> Values]

\* A handler: its first step, the fields it changes, and whether it drops the
\* entry of the cache afterwards.
Handler(first, fields, drops) == [first |-> first, fields |-> fields, drops |-> drops]

\* Preferences from the portal, and the second phone from a Signal command.
updatePreferences == Handler("read", {"preferences"}, FALSE)
updateUserPhone2 == Handler("read", {"phone2"}, FALSE)

\* The LDAP profile: from the portal, and by an administrator or an onboarding.
setAttributes == Handler("read", {"profile"}, TRUE)
setAttributesByPk == Handler("read", {"profile", "paperlessUserId"}, TRUE)

\* The script sync_users.py, which reads the map of every user first.
syncUsers == Handler("read", {"paperlessUserId"}, FALSE)

\* The mailbox of a new user, and of whoever opens the mail page.
createMailcowMailbox == Handler("check", {"mail_imap_password"}, FALSE)
getCredentials == Handler("read", {"mail_imap_password"}, FALSE)

getAttributes == Handler("cacheGet", {}, FALSE)

Handlers ==
    [preferences |-> updatePreferences, setPhone2 |-> updateUserPhone2,
     removePhone2 |-> updateUserPhone2, profile |-> setAttributes, byPk |-> setAttributesByPk,
     sync |-> syncUsers, onboard |-> createMailcowMailbox, credentials |-> getCredentials,
     get |-> getAttributes]

Operations == DOMAIN Handlers

VARIABLES
    attrs,    \* the map in Authentik
    cached,   \* the entry ldap:user:<name>:attrs in Redis
    mailbox,  \* the password of the mailbox, or NoValue when there is none
    begun,    \* how many requests have begun
    req,      \* of each request under way: its handler, where it is, the map it has read
    \* The remaining variables are not in the program; properties refer to them.
    applied,  \* the value each field was given last
    met,      \* "writers" when two writers ran at once, "reader" for a reader and another
    refused,  \* the requests whose password Mailcow refused without their noticing
    missed,   \* whether the entry of the cache outlived a write: Redis failed, or the
              \* answer to the write was lost
    stale     \* whether a reader was given a profile that is not the current one

vars == <<attrs, cached, mailbox, begun, req, applied, met, refused, missed, stale>>
ghosts == <<applied, met, refused, missed, stale>>

Steps == {"cacheGet", "fetch", "setex", "read", "check", "add", "reset",
          "patch", "del"}

Active == DOMAIN req

TypeOK ==
    /\ attrs \in Maps /\ applied \in Maps
    /\ cached \in Maps \cup {NoCache}
    /\ mailbox \in Values
    /\ begun \in 0 .. MaxRequests /\ Active \subseteq 1 .. begun
    /\ req \in [Active -> [op : Operations, at : Steps, seen : Maps]]
    /\ met \subseteq {"writers", "reader"} /\ refused \subseteq Requests
    /\ missed \in BOOLEAN /\ stale \in BOOLEAN

-----------------------------------------------------------------------------

\* A user whose mailbox was set up, or one who has none yet.
Init ==
    /\ mailbox \in {0, NoValue}
    /\ attrs = [f \in Fields |-> IF f = "mail_imap_password" THEN mailbox ELSE 0]
    /\ applied = attrs
    /\ cached = NoCache
    /\ begun = 0 /\ req = <<>>
    /\ met = {} /\ refused = {} /\ missed = FALSE /\ stale = FALSE

IsReader(o) == o = "get"

\* A map of which nothing has been read.
Unread == [f \in Fields |-> NoValue]

\* A request arrives: from the portal, from Signal, from an administrator, from an
\* onboarding or from the script.
Begin(o) ==
    LET r == begun + 1
        Readers == {p \in Active : IsReader(req[p].op)}
    IN  /\ r \in Requests /\ Cardinality(Active) < MaxActive
        /\ begun' = r
        /\ req' = [p \in Active \cup {r} |->
                      IF p = r THEN [op |-> o, at |-> Handlers[o].first, seen |-> Unread] ELSE req[p]]
        /\ met' = met \cup (IF ~IsReader(o) /\ Active # Readers THEN {"writers"} ELSE {})
                      \cup (IF Readers # {} \/ (IsReader(o) /\ Active # {})
                            THEN {"reader"} ELSE {})
        /\ UNCHANGED <<attrs, cached, mailbox, applied, refused, missed, stale>>

\* A request goes on with a step, or is over.
Goto(r, s) == req' = IF s = "ended" THEN Restrict(req, Active \ {r})
                                    ELSE [req EXCEPT ![r].at = s]

\* A handler whose call throws ends there. (A failed look-up of a mailbox and a
\* failing Redis are caught; see below.)
Throw(r) ==
    /\ req[r].at \in {"fetch", "read", "add", "reset", "patch"}
    /\ Goto(r, "ended")
    /\ UNCHANGED <<attrs, cached, mailbox, begun, ghosts>>

-----------------------------------------------------------------------------
(* LdapMetadataService.getAttributes *)

Answers(r, map) ==
    /\ Goto(r, "ended")
    /\ stale' = (stale \/ map["profile"] # attrs["profile"])

\* An entry is served without asking Authentik.
CacheHit(r) ==
    /\ req[r].at = "cacheGet" /\ cached # NoCache
    /\ Answers(r, cached)
    /\ UNCHANGED <<attrs, cached, mailbox, begun, applied, met, refused, missed>>

\* There is no entry, or Redis does not answer.
CacheMiss(r) ==
    /\ req[r].at = "cacheGet"
    /\ Goto(r, "fetch")
    /\ UNCHANGED <<attrs, cached, mailbox, begun, ghosts>>

Fetch(r) ==
    /\ req[r].at = "fetch"
    /\ req' = [req EXCEPT ![r].at = "setex", ![r].seen = attrs]
    /\ UNCHANGED <<attrs, cached, mailbox, begun, ghosts>>

\* The map that was fetched is kept for five minutes; a failure is ignored.
Setex(r) ==
    /\ req[r].at = "setex"
    /\ cached' \in {req[r].seen, cached}
    /\ Answers(r, req[r].seen)
    /\ UNCHANGED <<attrs, mailbox, begun, applied, met, refused, missed>>

\* The time to live of the entry is over.
Expire ==
    /\ cached # NoCache
    /\ cached' = NoCache
    /\ UNCHANGED <<attrs, mailbox, begun, req, ghosts>>

-----------------------------------------------------------------------------
(* Reading the map and writing it back *)

\* The handler has the map. getCredentials ends here when it holds a password.
Goes(r, map) ==
    /\ req[r].at = "read"
    /\ IF req[r].op = "credentials" /\ map["mail_imap_password"] # NoValue
       THEN Goto(r, "ended")
       ELSE req' = [req EXCEPT ![r].seen = map,
                               ![r].at = IF req[r].op = "credentials" THEN "check" ELSE "patch"]
    /\ UNCHANGED <<attrs, cached, mailbox, begun, ghosts>>

Read_FromCache(r) == Goes(r, IF cached # NoCache THEN cached ELSE attrs)

\* Authentik is asked, never the cache.
Read(r) == Goes(r, attrs)

NewValue(r) == IF req[r].op = "removePhone2" THEN NoValue ELSE r

Merged(map, r) == [f \in Fields |-> IF f \in Handlers[req[r].op].fields THEN NewValue(r) ELSE map[f]]

\* The whole map is replaced by the one read, with the handler's fields changed.
\* The answer may be lost; the handler then ends as after a failure.
Patch(r) ==
    /\ req[r].at = "patch"
    /\ attrs' = Merged(req[r].seen, r)
    /\ applied' = Merged(applied, r)
    /\ \/ /\ Goto(r, IF Handlers[req[r].op].drops THEN "del" ELSE "ended")
          /\ UNCHANGED missed
       \/ /\ Handlers[req[r].op].drops
          /\ Goto(r, "ended")
          /\ missed' = TRUE
    /\ UNCHANGED <<cached, mailbox, begun, met, refused, stale>>

Del_Forgotten(r) ==
    /\ req[r].at = "del"
    /\ Goto(r, IF req[r].op = "profile" THEN "cacheGet" ELSE "ended")
    /\ UNCHANGED <<attrs, cached, mailbox, begun, ghosts>>

\* The entry of the cache is dropped; a failing Redis is ignored. The portal's
\* handler then reads the attributes for its answer.
Del(r) ==
    /\ req[r].at = "del"
    /\ \/ cached' = NoCache /\ UNCHANGED missed
       \/ cached' = cached /\ missed' = TRUE
    /\ Goto(r, IF req[r].op = "profile" THEN "cacheGet" ELSE "ended")
    /\ UNCHANGED <<attrs, mailbox, begun, applied, met, refused, stale>>

-----------------------------------------------------------------------------
(* The mailbox: createMailcowMailbox and getCredentials *)

\* Whether the mailbox exists. An onboarding leaves an existing mailbox as it is
\* and gives up when the look-up fails; getCredentials takes a failure for an
\* answer: there is none.
Check(r) ==
    /\ req[r].at = "check"
    /\ \/ Goto(r, CASE mailbox = NoValue -> "add"
                    [] mailbox # NoValue /\ req[r].op = "credentials" -> "reset"
                    [] OTHER -> "ended")
       \/ Goto(r, IF req[r].op = "credentials" THEN "add" ELSE "ended")
    /\ UNCHANGED <<attrs, cached, mailbox, begun, ghosts>>

\* Mailcow takes the password. The answer may be lost, which throws.
SetPassword(r, next) ==
    /\ mailbox' = r
    /\ Goto(r, next) \/ Goto(r, "ended")
    /\ UNCHANGED refused

\* Mailcow refuses in the body of an answer that is no error. Nobody reads the body:
\* the handler goes on as if its password had been taken.
Refuse(r, next) ==
    /\ refused' = refused \cup {r}
    /\ Goto(r, next)
    /\ UNCHANGED mailbox

\* The mailbox is made with a new password, unless there is one already, which a failed
\* look-up did not show. storeMailPassword reads the map before it writes;
\* getCredentials writes back the one it has.
Add(r) ==
    LET next == IF req[r].op = "onboard" THEN "read" ELSE "patch"
    IN  /\ req[r].at = "add"
        /\ (mailbox = NoValue /\ SetPassword(r, next)) \/ Refuse(r, next)
        /\ UNCHANGED <<attrs, cached, begun, applied, met, missed, stale>>

\* A variant that ignores a reset that failed.
Reset_Ignored(r) ==
    /\ req[r].at = "reset"
    /\ mailbox' \in {r, mailbox}
    /\ Goto(r, "patch")
    /\ UNCHANGED <<attrs, cached, begun, applied, met, refused, missed, stale>>

\* An existing mailbox, whose password nobody has stored, gets a new one.
Reset(r) ==
    /\ req[r].at = "reset"
    /\ SetPassword(r, "patch") \/ Refuse(r, "patch")
    /\ UNCHANGED <<attrs, cached, begun, applied, met, missed, stale>>

Step(r) ==
    \/ CacheHit(r) \/ CacheMiss(r) \/ Fetch(r) \/ Setex(r)
    \/ Read(r) \/ Patch(r) \/ Del(r)
    \/ Check(r) \/ Add(r) \/ Reset(r) \/ Throw(r)

Next ==
    \/ \E o \in Operations : Begin(o)
    \/ \E r \in Active : Step(r)
    \/ Expire

Spec == Init /\ [][Next]_vars

-----------------------------------------------------------------------------
(* Properties *)

\* Nothing gets lost between the six handlers and the script that share the map:
\* as long as no two of them run at once, each field has the value it was given
\* last, whatever failed on the way and whatever readers did meanwhile.
AttributesKept == "writers" \notin met => attrs = applied

\* The stored mail password opens the mailbox, unless Mailcow refused that very
\* password and the handler did not look: there is a mailbox to it, and unless two
\* writers ran at once it is the mailbox's current password. A look-up that fails, a
\* lost answer, and an onboarding or a request that stops half-way leave at worst no
\* stored password, which the next getCredentials repairs.
PasswordUsable ==
    LET p == attrs["mail_imap_password"]
    IN  p # NoValue /\ p \notin refused =>
            IF "writers" \in met THEN mailbox # NoValue ELSE p = mailbox

\* Whoever saves the LDAP profile, portal or administrator, is followed by readers
\* that see it: with requests one after the other and a Redis that answers, no
\* reader is given an older profile, although other writers leave the cache alone.
ProfileReadsFresh == met = {} /\ ~missed => ~stale

=============================================================================
