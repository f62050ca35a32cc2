------------------------------ MODULE Onboarding ------------------------------
(***************************************************************************)
(* Setting up a user of Authentik in the rest of the platform: consume and *)
(* export directories, a mailbox, and in Paperless a user, a workflow, a   *)
(* mail account and a mail rule (UsersService, PaperlessService).          *)
(*                                                                         *)
(* Nothing remembers who has been onboarded. A poll every minute takes the *)
(* users without a consume directory; the webhook of Authentik and the     *)
(* administrator's createUser activate the same code at any time, and a    *)
(* poll that takes longer than a minute meets the next one. Each object is *)
(* looked up by its name and created when the look-up finds none, by calls *)
(* that may fail before or after the server has carried them out.          *)
(***************************************************************************)
EXTENDS Naturals, Sequences, Functions

CONSTANTS
    Users,         \* the users there may be, in the order of Authentik's list
    WithMail,      \* those whose address is in the platform's mail domain
    Polls,         \* activations of pollForNewUsers that may be under way at once
    Callers,      \* bound: activations by the webhook and by createUser
    MaxDirFaults,  \* bound: failures of the file system
    MaxDeletes,    \* bound: users an administrator deletes
    Idle           \* no activation

AllUsers == Range(Users)

\* What the bounds must be for the rest to make sense.
ASSUME OnboardingAssumption ==
    /\ Users \in Seq(AllUsers) /\ WithMail \subseteq AllUsers /\ Polls \cap Callers = {}
    /\ MaxDirFaults \in Nat /\ MaxDeletes \in Nat

\* What onboardUser ensures, and how many calls create each: a workflow is posted
\* after its trigger and its action, which have no name and are left behind when a
\* later call fails. The mailbox is only for users of the mail domain, account and
\* rule only with a mail password.
CallsFor == [mailbox |-> 1, user |-> 1, workflow |-> 3, account |-> 1, rule |-> 1]

Ensured == DOMAIN CallsFor

VARIABLES
    known,      \* users in Authentik
    dirs,       \* the directories of each user
    made,       \* how many objects with each name there are
    stored,     \* users whose mail password is an attribute in Authentik
    round,      \* of each poll: the users it has still to look at
    act,        \* the activation of onboardUser by each poll and handler, or Idle
    called,     \* handlers that have been activated
    dirFaults, deletes,
    together    \* not in the program: users two activations worked on at once

obVars == <<known, dirs, made, stored, round, act, called, dirFaults, deletes, together>>
obRemote == <<known, dirs, stored, called, dirFaults, deletes>>

Procs == Polls \cup Callers

\* An activation: whose, the object it ensures (or "fetch", "store", "attrs"),
\* the creating calls made for it (0 while it looks the object up) and
\* whether it knows the mail password.
Activations == [user : AllUsers, at : Ensured \cup {"fetch", "store", "attrs"},
                posts : 0 .. 3, password : BOOLEAN]

\* Objects of one name beyond this number are not counted.
MaxMade == 2

OnboardingTypeOK ==
    /\ known \subseteq AllUsers
    /\ dirs \in [AllUsers -> {{}, {"consume"}, {"consume", "export"}}]
    /\ made \in [AllUsers -> [Ensured -> 0 .. MaxMade]]
    /\ stored \subseteq AllUsers /\ together \subseteq AllUsers
    /\ round \in [Polls -> SUBSET AllUsers]
    /\ act \in [Procs -> Activations \cup {Idle}]
    /\ called \subseteq Callers
    /\ dirFaults \in 0 .. MaxDirFaults /\ deletes \in 0 .. MaxDeletes

OnboardingInit ==
    /\ known \in {{}, AllUsers}
    /\ dirs = [u \in AllUsers |-> {}]
    /\ made = [u \in AllUsers |-> [o \in Ensured |-> 0]]
    /\ stored = {} /\ called = {} /\ together = {}
    /\ round = [q \in Polls |-> {}]
    /\ act = [p \in Procs |-> Idle]
    /\ dirFaults = 0 /\ deletes = 0

-----------------------------------------------------------------------------
(* Who activates onboardUser *)

Start(p, u) ==
    /\ act' = [act EXCEPT ![p] = [user |-> u, at |-> "fetch", posts |-> 0, password |-> FALSE]]
    /\ together' = IF \E q \in Procs \ {p} : act[q] # Idle /\ act[q].user = u
                   THEN together \cup {u} ELSE together

\* The minute is over: the poll reads the internal users, a hundred at most.
PollList(q) ==
    /\ round[q] = {} /\ act[q] = Idle
    /\ round' = [round EXCEPT ![q] = known]
    /\ UNCHANGED <<obRemote, made, act, together>>

\* The next user of the round, in the order of the list, is onboarded unless the consume directory is there.
PollUser(q) ==
    \E i \in DOMAIN Users :
        LET u == Users[i]
        IN  /\ act[q] = Idle /\ u \in round[q]
            /\ \A j \in 1 .. i - 1 : Users[j] \notin round[q]
            /\ round' = [round EXCEPT ![q] = @ \ {u}]
            /\ IF dirs[u] = {} THEN Start(q, u) ELSE UNCHANGED <<act, together>>
            /\ UNCHANGED <<obRemote, made>>

\* Authentik reports a new user, perhaps late and perhaps again.
handleAuthentikWebhook(h, u) ==
    /\ h \in Callers \ called
    /\ called' = called \cup {h}
    /\ Start(h, u)
    /\ UNCHANGED <<known, dirs, made, stored, round, dirFaults, deletes>>

\* An administrator creates a user; the link for the password is not modelled. When
\* the answer of Authentik is lost, the user exists and is not onboarded here.
createUser(h, u) ==
    /\ h \in Callers \ called /\ u \notin known
    /\ called' = called \cup {h}
    /\ known' = known \cup {u}
    /\ Start(h, u) \/ UNCHANGED <<act, together>>
    /\ UNCHANGED <<dirs, made, stored, round, dirFaults, deletes>>

\* Only Authentik forgets the user, and the user's attributes with it.
deleteUser(u) ==
    /\ u \in known /\ deletes < MaxDeletes
    /\ deletes' = deletes + 1
    /\ known' = known \ {u}
    /\ stored' = stored \ {u}
    /\ UNCHANGED <<dirs, made, round, act, called, dirFaults, together>>

-----------------------------------------------------------------------------
(* onboardUser *)

Proceed(p, o) == act' = [act EXCEPT ![p].at = o, ![p].posts = 0]

Return(p) == act' = [act EXCEPT ![p] = Idle]

\* An error ends the activation; in a poll it ends the whole round.
Abandon(p) ==
    /\ Return(p)
    /\ round' = [q \in Polls |-> IF q = p THEN {} ELSE round[q]]

\* A variant that leaves the directories to the end.
createUserDirs_Later(u) == UNCHANGED <<dirs, dirFaults>>

\* The directories, consume first. A file system that fails leaves what was made.
createUserDirs(u) ==
    \/ dirs' = [dirs EXCEPT ![u] = {"consume", "export"}] /\ UNCHANGED dirFaults
    \/ /\ dirFaults < MaxDirFaults
       /\ dirFaults' = dirFaults + 1
       /\ dirs' \in {dirs, [dirs EXCEPT ![u] = @ \cup {"consume"}]}

\* The user is read from Authentik; at once, the directories are made.
FetchUser(p) ==
    LET u == act[p].user
    IN  /\ act[p] # Idle /\ act[p].at = "fetch" /\ u \in known
        /\ createUserDirs(u)
        /\ IF dirFaults' > dirFaults
           THEN Abandon(p)
           ELSE /\ act' = [act EXCEPT ![p].at = IF u \in WithMail THEN "mailbox" ELSE "user",
                                      ![p].password = u \in stored]
                /\ UNCHANGED round
        /\ UNCHANGED <<known, made, stored, called, deletes, together>>

\* A user that cannot be read is left out: no error for the poll.
FetchFails(p) ==
    /\ act[p] # Idle /\ act[p].at = "fetch"
    /\ Return(p)
    /\ UNCHANGED <<obRemote, made, round, together>>

\* A variant that takes the mail account for the end of the work.
After_AccountEnds(p, o) ==
    CASE o = "mailbox" -> "user"
      [] o = "user" -> "workflow"
      [] o = "workflow" -> IF act[p].password THEN "account" ELSE "attrs"
      [] o = "account" -> "attrs"

\* What comes after an object. The mail password the activation goes on with is
\* the stored one if the mailbox was there, and the new one if it was created.
After(p, o) ==
    CASE o = "mailbox" -> "user"
      [] o = "user" -> "workflow"
      [] o = "workflow" /\ act[p].password -> "account"
      [] o = "workflow" /\ ~act[p].password -> "attrs"
      [] o = "account" -> "rule"
      [] o = "rule" -> "attrs"

\* A variant that creates without looking.
LookUp_Skipped(p) ==
    /\ act[p] # Idle /\ act[p].at \in Ensured /\ act[p].posts = 0
    /\ act' = [act EXCEPT ![p].posts = 1]
    /\ UNCHANGED <<obRemote, made, round, together>>

\* Is there an object with the name? Then on to the next, else it is created.
LookUp(p) ==
    LET o == act[p].at
    IN  /\ act[p] # Idle /\ o \in Ensured /\ act[p].posts = 0
        /\ IF made[act[p].user][o] > 0 THEN Proceed(p, After(p, o))
                                       ELSE act' = [act EXCEPT ![p].posts = 1]
        /\ UNCHANGED <<obRemote, made, round, together>>

\* The call under way is done by the server; the last of an object's calls adds the
\* object. Mailcow has one mailbox per address; whether Paperless takes a second
\* object of the same name is left open.
Created(p) ==
    LET o == act[p].at
        n == made[act[p].user][o]
    IN  IF act[p].posts < CallsFor[o] \/ n = MaxMade \/ (o = "mailbox" /\ n = 1)
        THEN made ELSE [made EXCEPT ![act[p].user][o] = n + 1]

\* A variant that makes one call too many.
Post_OneMore(p) ==
    /\ act[p] # Idle /\ act[p].at \in Ensured /\ act[p].posts > 0
    /\ made' = Created(p)
    /\ IF act[p].posts <= CallsFor[act[p].at] THEN act' = [act EXCEPT ![p].posts = @ + 1]
                                              ELSE Proceed(p, After(p, act[p].at))
    /\ UNCHANGED <<obRemote, round, together>>

Post(p) ==
    LET o == act[p].at
        k == act[p].posts
    IN  /\ act[p] # Idle /\ o \in Ensured /\ k > 0
        /\ made' = Created(p)
        /\ CASE o = "mailbox" -> act' = [act EXCEPT ![p].at = "store", ![p].posts = 0,
                                                    ![p].password = TRUE]
             [] o # "mailbox" /\ k < CallsFor[o] -> act' = [act EXCEPT ![p].posts = k + 1]
             [] o # "mailbox" /\ k = CallsFor[o] -> Proceed(p, After(p, o))
        /\ UNCHANGED <<obRemote, round, together>>

\* A look-up or a creating call fails, the latter perhaps only for the caller. A
\* failure at the mailbox is logged and the onboarding goes on without a password.
CallFails(p) ==
    /\ act[p] # Idle /\ act[p].at \in Ensured
    /\ made' \in {made} \cup (IF act[p].posts > 0 THEN {Created(p)} ELSE {})
    /\ IF act[p].at = "mailbox" THEN Proceed(p, "user") /\ UNCHANGED round ELSE Abandon(p)
    /\ UNCHANGED <<obRemote, together>>

\* storeMailPassword; a failure is logged.
StorePassword(p) ==
    LET u == act[p].user
    IN  /\ act[p] # Idle /\ act[p].at = "store"
        /\ stored' \in {stored, stored \cup ({u} \cap known)}
        /\ Proceed(p, "user")
        /\ UNCHANGED <<known, dirs, made, round, called, dirFaults, deletes, together>>

\* setAttributesByPk, whose failure is logged, then the messages, which never fail.
Conclude(p) ==
    /\ act[p] # Idle /\ act[p].at = "attrs"
    /\ Return(p)
    /\ UNCHANGED <<obRemote, made, round, together>>

-----------------------------------------------------------------------------
Onboard(p) ==
    \/ FetchUser(p) \/ FetchFails(p) \/ LookUp(p) \/ Post(p) \/ CallFails(p)
    \/ StorePassword(p) \/ Conclude(p)

Poll(q) == PollList(q) \/ PollUser(q)

OnboardingNext ==
    \/ \E q \in Polls : Poll(q)
    \/ \E h \in Callers, u \in AllUsers : handleAuthentikWebhook(h, u) \/ createUser(h, u)
    \/ \E u \in AllUsers : deleteUser(u)
    \/ \E p \in Procs : Onboard(p)

\* The timer goes on, every call of a poll is answered or fails, and Authentik does
\* not always fail to return a user it has; other calls may fail for ever.
OnboardingFairness ==
    \A q \in Polls :
        /\ WF_obVars(Poll(q)) /\ WF_obVars(Onboard(q))
        /\ \A u \in AllUsers : SF_obVars(act[q] # Idle /\ act[q].user = u /\ FetchUser(q))

OnboardingSpec == OnboardingInit /\ [][OnboardingNext]_obVars /\ OnboardingFairness

-----------------------------------------------------------------------------
(* Properties *)

\* Onboarding a user again is harmless: unless two activations worked on the user at
\* once, no name is in use twice, whatever failed in the earlier attempts.
EnsuredOnce ==
    \A u \in AllUsers \ together : \A o \in Ensured : made[u][o] <= 1

\* An onboarding that gets to its end has left the directories, the user and the
\* workflow, and account and rule if it knew the mail password, although most of
\* its failures are swallowed and others are doing the same work.
OnboardedWhole ==
    \A p \in Procs : act[p] # Idle /\ act[p].at = "attrs" =>
        LET u == act[p].user
            needed == {"user", "workflow"} \cup (IF act[p].password THEN {"account", "rule"} ELSE {})
        IN  dirs[u] = {"consume", "export"} /\ \A o \in needed : made[u][o] > 0

\* The poll gets to every user in the end: one user for whom Paperless or Mailcow
\* always fails, which ends the round, does not keep it from those behind.
EveryoneReached == <>[](\A u \in known : dirs[u] # {})

=============================================================================
